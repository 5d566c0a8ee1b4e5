------------------------------ MODULE MCNetworkIo ------------------------------
EXTENDS NetworkIo

V == 256
A == 257

U(pid, pts, dts, size, sps) ==
    [pid |-> pid, pts |-> pts, dts |-> dts, size |-> size, sps |-> sps]

\* Two pictures, the second with a timestamp beyond the range of the clock, and an
\* audio packet in two pieces without a timestamp between them.  And a stream of
\* which the parameters come with its second packet, in three pieces.
MCPrograms ==
    { << U(V, 3, 2, 1, TRUE), U(A, None, None, 2, FALSE), U(V, 9, 4, 1, FALSE) >>,
      << U(V, 1, 1, 1, FALSE), U(V, 2, None, 3, TRUE) >> }

-----------------------------------------------------------------------------
(* The servers and the jobs that publish *)

M(csid, kind, size, value) == [csid |-> csid, kind |-> kind, size |-> size, value |-> value]

S(connect, create, publish) ==
    [connect |-> connect, createStream |-> create, publish |-> publish]

\* Servers that set a larger or a smaller chunk size, send more before or after the
\* reply (in one chunk or in two), name no stream, reject, say nothing, or send a
\* command message that is too short.
Messages == { M(2, "set chunk size", 1, 4), M(2, "set chunk size", 1, 1),
              M(3, "result", 1, None), M(3, "result", 5, None),
              M(3, "error", 1, None), M(2, "other", 1, None), M(3, "other", 3, None),
              M(3, "short", 1, None) }

AnsweredOnce(m) == \A j, k \in DOMAIN m : {m[j].kind, m[k].kind} \subseteq {"result", "error"} => j = k

MCScripts ==
    { S(connect, create, <<M(5, "other", 3, None)>>) :
        connect \in {m \in UNION {[1..n -> Messages] : n \in 0..3} :
                       AnsweredOnce(m) /\ (Len(m) = 3 => m[1].kind = "set chunk size" /\ m[3].kind = "result")},
        create \in { <<M(3, "result", 2, 5)>>,
                     <<M(2, "other", 1, None), M(3, "result", 1, None)>>,
                     <<M(3, "other", 4, None), M(3, "result", 1, 0)>>,
                     <<M(3, "error", 3, None)>>, <<>> } }

Pkt(media, pts, dts, size) == [media |-> media, pts |-> pts, dts |-> dts, size |-> size]

MCConfig == << [media |-> "video", size |-> 1], [media |-> "audio", size |-> 0] >>

\* Timestamps before zero, missing and beyond TsMax, video sent at its dts; data
\* of a chunk and a half and of two chunks.
MCJobs ==
    { None, <<>>, << Pkt("video", 2, 0 - 1, 3), Pkt("audio", None, None, 1), Pkt("video", 9, 8, 4) >> }

-----------------------------------------------------------------------------
(* The web *)

Media(chunks) == [kind |-> "media", chunks |-> chunks]
List(master, fmp4, entries) ==
    [kind |-> "playlist", master |-> master, fmp4 |-> fmp4, entries |-> entries,
     chunks |-> << <<0>> >>]
To(dir, name) == [kind |-> "redirect", to |-> <<dir, name>>]
Rel(name) == [dir |-> None, name |-> name]
Abs(dir, name) == [dir |-> dir, name |-> name]

\* A master playlist whose variant is redirected to another directory; segments
\* in one and in two chunks, one behind a redirect, an empty one, one that is
\* missing and a playlist among them; and what leads nowhere.
MCWeb ==
    ( <<"a", "master">> :> List(TRUE, FALSE, <<Rel("list"), Rel("none")>>) @@
      <<"a", "list">> :> To("b", "list") @@
      <<"b", "list">> :> List(FALSE, FALSE, <<Rel("s1"), Abs("b", "s2"), Rel("s3")>>) @@
      <<"a", "gaps">> :> List(FALSE, FALSE, <<Rel("s1"), Rel("none"), Rel("empty"), Rel("list2")>>) @@
      <<"a", "list2">> :> List(FALSE, FALSE, <<>>) @@
      <<"a", "s1">> :> Media(<< <<1, 2>>, <<3>> >>) @@
      <<"b", "s2">> :> Media(<< <<4>>, <<5>> >>) @@
      <<"a", "s3">> :> To("b", "s3") @@
      <<"b", "s3">> :> Media(<< <<6, 7>> >>) @@
      <<"a", "empty">> :> Media(<<>>) @@
      <<"a", "circle">> :> To("b", "circle") @@
      <<"b", "circle">> :> To("a", "circle") @@
      <<"a", "self">> :> List(TRUE, FALSE, <<Rel("self")>>) @@
      <<"a", "mp4">> :> List(FALSE, TRUE, <<Rel("s1")>>) )

MCSources == { <<"a", n>> : n \in {"master", "gaps", "list2", "s1", "circle", "self", "mp4"} }
MCCutUrl == <<"a", "s">>
=============================================================================
