------------------------------- MODULE HlsInput -------------------------------
(***************************************************************************)
(* HLS input (crates/rff-format-hls/src/input.rs): a playlist is resolved  *)
(* to its segments, which are read one after the other as one stream.      *)
(*                                                                         *)
(* The reader of that stream is the TS demuxer                             *)
(* (crates/rff-format-ts/src/lib.rs, next_ts): it takes an error for the   *)
(* end of the input, once in the scan of read_header, which then ends, and *)
(* once in read_packet, which is the end of the job's input.               *)
(*                                                                         *)
(* A URL is a pair of directory and name.                                  *)
(***************************************************************************)
EXTENDS HttpBody, Ordering

CONSTANTS
    Sources,        \* the URLs of playlists to choose the input from
    MaxDepth,       \* MAX_PLAYLIST_DEPTH
    CutUrl          \* the URL read from a line that was cut off

VARIABLES
    phase,          \* "resolve", "scan" (read_header), "packets", "ended";
                    \* or "failed", the error of open_input
    depth,          \* playlists that may still be followed
    playlist,       \* the playlist being resolved
    segments,       \* segments
    next,           \* next, counted from 1
    out,            \* the units read, from all segments
    missed          \* history: a segment could not be opened

chainVars == <<phase, depth, playlist, segments, next, out, missed>>
vars == <<httpVars, chainVars>>

TypeOK ==
    /\ phase \in {"resolve", "scan", "packets", "ended", "failed"}
    /\ depth \in 0..MaxDepth
    /\ next \in 1..(Len(segments) + 1)
    /\ target \in Requests \cup {None} /\ conn \in Responses \cup {None}
    /\ target = None \/ conn = None
    /\ {broken, missed} \subseteq BOOLEAN

Open(url) == target' = [url |-> url, hops |-> MaxRedirects]

Init ==
    /\ playlist \in Sources
    /\ target = [url |-> playlist, hops |-> MaxRedirects]
    /\ conn = None
    /\ broken = FALSE
    /\ phase = "resolve"
    /\ depth = MaxDepth
    /\ segments = <<>>
    /\ next = 1
    /\ out = <<>>
    /\ missed = FALSE

Follow ==
    /\ Redirected
    /\ UNCHANGED chainVars

-----------------------------------------------------------------------------
(* resolve_playlist *)

ResolveFails ==
    /\ phase = "resolve"
    /\ FetchFails
    /\ phase' = "failed"
    /\ UNCHANGED <<depth, playlist, segments, next, out, missed>>

\* resolve_uri: relative to the directory of the playlist as it was asked for.
Resolve(entry) == IF entry.dir = None THEN <<playlist[1], entry.name>> ELSE <<entry.dir, entry.name>>

\* The lines of a playlist as read: all of them; or, when the connection broke,
\* those before, and perhaps a part of the next.
Lines(web, n, cut) ==
    [k \in 1..n |-> Resolve(web.entries[k])] \o (IF cut THEN <<CutUrl>> ELSE <<>>)

\* A text without #EXTM3U, an fMP4 playlist, a master playlist without variants
\* or nested too deep, and a playlist without segments are errors.
ReadPlaylist ==
    /\ phase = "resolve" /\ Successful
    /\ LET web == Answers(target.url)
           all == IF web.kind = "playlist" THEN Len(web.entries) ELSE 0
       IN  \E n \in 0..all, cut \in BOOLEAN :
            LET lines == Lines(web, n, cut)
            IN  /\ cut => n < all
                /\ broken' = (broken \/ n < all)
                /\ IF web.kind # "playlist" \/ web.fmp4 \/ lines = <<>>
                   THEN /\ phase' = "failed" /\ target' = None
                        /\ UNCHANGED <<depth, playlist, segments>>
                   ELSE IF web.master
                   THEN /\ depth' = depth - 1
                        /\ playlist' = lines[1]
                        /\ IF depth > 1 THEN Open(lines[1]) /\ UNCHANGED phase
                           ELSE target' = None /\ phase' = "failed"
                        /\ UNCHANGED segments
                   ELSE /\ segments' = lines
                        /\ phase' = "scan" /\ target' = None
                        /\ UNCHANGED <<depth, playlist>>
    /\ UNCHANGED <<conn, next, out, missed>>

-----------------------------------------------------------------------------
(* SegmentChain::read *)

Reading == phase \in {"scan", "packets"}

\* Bytes of the current segment.
Serve(n) ==
    /\ Reading
    /\ Bytes(n)
    /\ out' = out \o Delivered(n)
    /\ UNCHANGED <<phase, depth, playlist, segments, next, missed>>

Breaks ==
    /\ Reading
    /\ Break
    /\ UNCHANGED chainVars

\* `next` is past the segment before it is opened.
Advance == next + 1

\* The segment is exhausted, or there was none: the next one is opened.
OpenNext ==
    /\ Reading /\ target = None
    /\ conn = None \/ ReadsEnd
    /\ next <= Len(segments)
    /\ Open(segments[next])
    /\ next' = Advance
    /\ conn' = None
    /\ UNCHANGED <<broken, phase, depth, playlist, segments, out, missed>>

Opened ==
    /\ Reading
    /\ Fetched
    /\ UNCHANGED chainVars

\* The demuxer is told of the end or of an error, which is the same to it.
Told == phase' = IF phase = "scan" THEN "packets" ELSE "ended"

OpenFails ==
    /\ Reading
    /\ FetchFails
    /\ Told
    /\ missed' = TRUE
    /\ UNCHANGED <<depth, playlist, segments, next, out>>

\* The connection may come back to a reader that tries again, but what was read
\* of the demuxer's packet is lost.
ReadFails ==
    /\ Reading /\ ReadsError
    /\ Told
    /\ \/ UNCHANGED conn
       \/ conn' = [Loaded(conn) EXCEPT !.up = TRUE, !.cur = SubSeq(@, 2, Len(@))]
    /\ UNCHANGED <<target, broken, depth, playlist, segments, next, out, missed>>

\* No segment is left.
ChainEnds ==
    /\ Reading /\ target = None
    /\ conn = None \/ ReadsEnd
    /\ next > Len(segments)
    /\ conn' = None
    /\ Told
    /\ UNCHANGED <<target, broken, depth, playlist, segments, next, out, missed>>

\* read_header has what it was looking for.
ScanDone ==
    /\ phase = "scan" /\ out # <<>>
    /\ phase' = "packets"
    /\ UNCHANGED <<httpVars, depth, playlist, segments, next, out, missed>>

Reader ==
    \/ Follow \/ ResolveFails \/ ReadPlaylist
    \/ (\E n \in 1..Len(IF conn = None THEN <<>> ELSE Loaded(conn).cur) : Serve(n))
    \/ OpenNext \/ Opened \/ OpenFails \/ ReadFails \/ ChainEnds \/ ScanDone

Next == Reader \/ Breaks

\* The reader goes on reading, and timeouts end its waits.
Spec == Init /\ [][Next]_vars /\ WF_vars(Reader)

-----------------------------------------------------------------------------
(* Properties *)

\* The bodies of the segments one after the other.
Whole == FlattenSeq([k \in DOMAIN segments |-> Body(segments[k])])

\* "Reads segment after segment as one continuous stream" (input.rs:84): what
\* is read is in the order of the playlist with nothing in it twice, whichever
\* connections fail; and a stream that ends without a failure is complete.
StreamIsThePlaylist ==
    /\ \E places \in SUBSET DOMAIN Whole : out = AtPlaces(Whole, places)
    /\ (phase = "ended" /\ ~broken /\ ~missed) => out = Whole

\* Whatever the servers answer - redirects in a circle, playlists that name
\* each other - the input ends.
InputEnds == <>(phase \in {"ended", "failed"})

=============================================================================
