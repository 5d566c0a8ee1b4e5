------------------------------- MODULE NetworkIo -------------------------------
(***************************************************************************)
(* What a job reads from or writes to the network (crates/rff-io/src/      *)
(* lib.rs, open and create; crates/rff/src/transcode.rs, open_input and    *)
(* create_sink): by the scheme of its address a transport stream goes over *)
(* UDP, FLV is published by RTMP, or an HLS playlist is read by HTTP.      *)
(***************************************************************************)
EXTENDS TsOverUdp

CONSTANTS
    Config, TagMod, Scripts, Jobs,                      \* of RtmpPublisher
    InChunk, OutChunk, TsMax, MayClose,
    Web, MaxRedirects,                                  \* of HttpBody
    Sources, MaxDepth, CutUrl                           \* of HlsInput

VARIABLES
    scheme,             \* of the job's address: "udp", "rtmp" or "http"
    rtmpPhase, script, open, prompt, inbox, sending, buf, chunkSize, asm, msgs,
    streamId, packets, unwritten, tagBytes, sawHeader, heard, torn,
    target, conn, broken, hlsPhase, depth, playlist, segments, next, read, missed

Rtmp == INSTANCE RtmpPublisher WITH
            Programs <- Jobs, phase <- rtmpPhase, pending <- tagBytes
Hls == INSTANCE HlsInput WITH phase <- hlsPhase, out <- read

ASSUME PublisherAssumption ==
    /\ Config \in Seq([media : Rtmp!Media, size : Nat])
    /\ {TagMod, InChunk, OutChunk} \subseteq Nat \ {0}
    /\ TsMax \in Nat /\ MayClose \in BOOLEAN
    /\ \A job \in Jobs : job # None =>
          job \in Seq([media : Rtmp!Media, pts : Stamps, dts : Stamps, size : Nat])

\* A server replies to a command at most once, and sets no chunk size of 0
\* (which the reader takes for 1).
ASSUME ServerAssumption ==
    /\ \A s \in Scripts : s \in [Rtmp!Commands ->
          Seq([csid : Nat, kind : Rtmp!Kinds, size : Nat \ {0}, value : Nat \cup {None}])]
    /\ \A s \in Scripts : \A c \in Rtmp!Commands : \A m, n \in DOMAIN s[c] :
          {s[c][m].kind, s[c][n].kind} \subseteq {"result", "error"} => m = n
    /\ \A s \in Scripts : \A c \in Rtmp!Commands : \A n \in DOMAIN s[c] :
          s[c][n].kind = "set chunk size" => s[c][n].value \in Nat \ {0}

ASSUME IdAssumption == None \notin Rtmp!Commands \X Nat

ASSUME WebAssumption ==
    /\ MaxRedirects \in Nat /\ MaxDepth \in Nat
    /\ Sources \subseteq Hls!Urls /\ CutUrl \in Hls!Urls
    /\ None \notin Hls!Requests /\ None \notin Hls!Responses
    /\ \A url \in DOMAIN Web :
          /\ Web[url].kind \in Hls!Kinds
          /\ Web[url].kind = "redirect" => Web[url].to \in Hls!Urls
          /\ Web[url].kind \in {"playlist", "media"} => Web[url].chunks \in Seq(Seq(Nat) \ {<<>>})
          /\ Web[url].kind = "playlist" =>
                Web[url].entries \in Seq([dir : STRING \cup {None}, name : STRING])

rtmpVars == <<rtmpPhase, script, open, prompt, inbox, sending, buf, chunkSize, asm, msgs,
              streamId, packets, unwritten, tagBytes, sawHeader, heard, torn>>
hlsVars == <<target, conn, broken, hlsPhase, depth, playlist, segments, next, read, missed>>
vars == <<scheme, tsVars, rtmpVars, hlsVars>>

\* A choice is made for the job's own scheme; the rest of the state lies idle.
Choice(own, set) == IF scheme = own THEN set ELSE {CHOOSE x \in set : TRUE}

Init ==
    /\ scheme \in {"udp", "rtmp", "http"}
    /\ units \in Choice("udp", Programs)
    /\ script \in Choice("rtmp", Scripts) /\ packets \in Choice("rtmp", Jobs)
    /\ playlist \in Choice("http", Sources)
    /\ TsInit /\ Rtmp!Init /\ Hls!Init

Udp(step) == scheme = "udp" /\ step /\ UNCHANGED <<scheme, rtmpVars, hlsVars>>
Publishing(step) == scheme = "rtmp" /\ step /\ UNCHANGED <<scheme, tsVars, hlsVars>>
Browsing(step) == scheme = "http" /\ step /\ UNCHANGED <<scheme, tsVars, rtmpVars>>

Next == Udp(TsNext) \/ Publishing(Rtmp!Next) \/ Browsing(Hls!Next)

\* The job's thread runs on, and what it waits for times out, but for the sending
\* of media to an RTMP server (see the modules).
Spec ==
    /\ Init /\ [][Next]_vars
    /\ WF_vars(Udp(Receiver) \/ Publishing(Rtmp!Publisher /\ Rtmp!Timely) \/ Browsing(Hls!Reader))

-----------------------------------------------------------------------------
(* Properties: those of the modules, for the jobs with their scheme *)

\* The server is sent the FLV tags in order, each once and whole (RtmpPublisher).
TagsAreForwarded == scheme = "rtmp" => Rtmp!TagsAreForwarded

\* The publisher finds the server's replies (RtmpPublisher).
RepliesAreFound == scheme = "rtmp" => Rtmp!RepliesAreFound

\* No reply of the server goes unheard (RtmpPublisher).
RepliesAreHeard == scheme = "rtmp" => Rtmp!RepliesAreHeard

\* What is read of a playlist is its segments in order, nothing twice (HlsInput).
StreamIsThePlaylist == scheme = "http" => Hls!StreamIsThePlaylist

\* Silence on a UDP socket, a silent RTMP server and playlists or redirects in a
\* circle all come to an end: a job that is on the network waits for ever only when
\* it sends media to an RTMP server that is connected and has stalled, since the
\* publisher's socket has no time limit for a write (that of the HTTP input has).
NetworkEnds ==
    /\ scheme = "udp" => CaptureEnds
    /\ scheme = "rtmp" => Rtmp!PublishingEnds
    /\ scheme = "http" => Hls!InputEnds

=============================================================================
