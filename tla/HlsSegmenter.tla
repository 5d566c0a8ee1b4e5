----------------------------- MODULE HlsSegmenter -----------------------------
(***************************************************************************)
(* The HLS muxer (crates/rff-format-hls/src/lib.rs): packets of all the    *)
(* streams are fanned out over a growing list of MPEG-TS segment files,    *)
(* and a playlist naming every segment is written at the end.              *)
(*                                                                         *)
(* Time is counted in ticks of the reference stream; Target is             *)
(* `target_duration` converted to those ticks.  A packet is reduced to     *)
(* what the segmenter reads of it: whether it belongs to the reference     *)
(* stream, its pts (or NoPts) and its keyframe flag.  The segment files    *)
(* are kept as the sequences of packets written to them.                   *)
(***************************************************************************)
EXTENDS Integers, SequencesExt

CONSTANTS
    Target,       \* target_duration, in ticks of the reference stream
    HasVideo,     \* the reference stream is a video stream
    MaxPts,       \* bound: timestamps are drawn from 0..MaxPts
    MaxPackets,   \* bound: packets handed to the muxer
    NoPts         \* a packet without a timestamp; Option::None

ASSUME TargetAssumption == Target \in Nat \ {0}
ASSUME BoundsAssumption == MaxPts \in Nat /\ MaxPackets \in Nat
ASSUME KindAssumption == HasVideo \in BOOLEAN
ASSUME NoPtsAssumption == NoPts \notin Int

Pts == (0..MaxPts) \cup {NoPts}

\* Of a packet of another stream the segmenter reads nothing but that.
OtherPacket == [ref |-> FALSE, pts |-> NoPts, key |-> FALSE]
Packet == [ref : {TRUE}, pts : Pts, key : BOOLEAN] \cup {OtherPacket}

VARIABLES
    phase,        \* "new", "open", "done" or "failed": the calls made so far
    current,      \* a segment is open (`current: Option<TsMuxer>`)
    files,        \* the packets of each segment file, oldest segment first
    closed,       \* per segment: its TS muxer got write_trailer
    segDurations, \* durations recorded when segments were closed
    segStartPts,  \* reference pts at the start of the open segment
    lastRefPts,   \* latest reference pts seen
    playlist,     \* the EXTINF lines written: <<duration, segment>>, or <<>>
    sent          \* history: every packet the caller handed over, in order

vars == <<phase, current, files, closed, segDurations, segStartPts,
          lastRefPts, playlist, sent>>

TypeOK ==
    /\ phase \in {"new", "open", "done", "failed"}
    /\ current \in BOOLEAN
    /\ files \in Seq(Seq(Packet))
    /\ closed \in Seq(BOOLEAN)
    /\ segDurations \in Seq(Nat)
    /\ segStartPts \in Pts
    /\ lastRefPts \in Pts
    /\ playlist \in Seq(Nat \X Nat)
    /\ sent \in Seq(Packet)

Init ==
    /\ phase = "new"
    /\ current = FALSE
    /\ files = <<>>
    /\ closed = <<>>
    /\ segDurations = <<>>
    /\ segStartPts = NoPts
    /\ lastRefPts = NoPts
    /\ playlist = <<>>
    /\ sent = <<>>

\* write_header only picks the reference stream: no segment is opened yet.
WriteHeader ==
    /\ phase = "new"
    /\ phase' = "open"
    /\ UNCHANGED <<current, files, closed, segDurations, segStartPts,
                   lastRefPts, playlist, sent>>

-----------------------------------------------------------------------------
(* write_packet *)

(* The operators named Bug... are plausible mistakes in the definition they   *)
(* precede; the mutation runs substitute them to see the properties fail.     *)

BugDueLate(p) == segStartPts # NoPts /\ p.pts - segStartPts > Target

\* The open segment has covered the target when the reference pts arrives.
Due(p) == segStartPts # NoPts /\ p.pts - segStartPts >= Target

BugAnyPicture(p) == Due(p)

AtBoundary(p) == Due(p) /\ (p.key \/ ~HasVideo)

\* The packet starts a segment of its own.
Rolls(p) ==
    /\ p.ref
    /\ p.pts # NoPts
    /\ AtBoundary(p) \/ ~current

BugLastSeen(endPts) ==
    IF segStartPts # NoPts /\ lastRefPts # NoPts /\ lastRefPts > segStartPts
    THEN lastRefPts - segStartPts
    ELSE Target

\* The duration close_segment records for the open segment.
MeasuredDuration(endPts) ==
    LET end == IF endPts # NoPts THEN endPts ELSE lastRefPts
    IN  IF segStartPts # NoPts /\ end # NoPts /\ end > segStartPts
        THEN end - segStartPts
        ELSE Target

BugMeasuredOnly(endPts) ==
    IF current /\ segStartPts # NoPts
    THEN Append(segDurations, MeasuredDuration(endPts))
    ELSE segDurations

\* What close_segment leaves in segDurations and closed.
DurationsClosed(endPts) ==
    IF current THEN Append(segDurations, MeasuredDuration(endPts))
               ELSE segDurations

MarkedClosed ==
    IF current THEN [closed EXCEPT ![Len(closed)] = TRUE] ELSE closed

NotedRefPts(p) == IF p.ref /\ p.pts # NoPts THEN p.pts ELSE lastRefPts

\* The segment is rolled over: close_segment, open_segment, then the packet.
Roll(p) ==
    /\ Rolls(p)
    /\ segDurations' = DurationsClosed(p.pts)
    /\ closed' = Append(MarkedClosed, FALSE)
    /\ files' = Append(files, <<p>>)
    /\ current' = TRUE
    /\ segStartPts' = p.pts
    /\ lastRefPts' = p.pts
    /\ UNCHANGED <<phase, playlist>>

BugSkipUntimed(p) ==
    /\ ~Rolls(p)
    /\ ~current
    /\ lastRefPts' = NotedRefPts(p)
    /\ UNCHANGED <<phase, current, files, closed, segDurations, segStartPts,
                   playlist>>

\* No segment is open and the packet cannot start one by itself: it is opened
\* all the same, without a start time.
OpenUntimed(p) ==
    /\ ~Rolls(p)
    /\ ~current
    /\ closed' = Append(closed, FALSE)
    /\ files' = Append(files, <<p>>)
    /\ current' = TRUE
    /\ lastRefPts' = NotedRefPts(p)
    /\ UNCHANGED <<phase, segDurations, segStartPts, playlist>>

\* The packet goes into the open segment.
Extend(p) ==
    /\ ~Rolls(p)
    /\ current
    /\ files' = [files EXCEPT ![Len(files)] = Append(@, p)]
    /\ lastRefPts' = NotedRefPts(p)
    /\ UNCHANGED <<phase, current, closed, segDurations, segStartPts, playlist>>

\* File::create (or the TS header) fails for the new segment.  The previous
\* one is closed already; the error ends the job without a trailer.
OpenFails(p) ==
    /\ Rolls(p) \/ ~current
    /\ phase' = "failed"
    /\ current' = FALSE
    /\ closed' = MarkedClosed
    /\ segDurations' = DurationsClosed(p.pts)
    /\ segStartPts' = NoPts
    /\ UNCHANGED <<files, lastRefPts, playlist>>

WritePacket(p) ==
    /\ phase = "open"
    /\ Len(sent) < MaxPackets
    /\ sent' = Append(sent, p)
    /\ Roll(p) \/ OpenUntimed(p) \/ Extend(p) \/ OpenFails(p)

-----------------------------------------------------------------------------
(* write_trailer: close the last segment, then write the playlist. *)

\* `seg_durations.iter().zip(&seg_names)` stops at the shorter of the two.
PlaylistOf(durations, names) ==
    [i \in 1..(IF Len(durations) < names THEN Len(durations) ELSE names) |->
        <<durations[i], i>>]

WriteTrailer ==
    /\ phase = "open"
    /\ phase' = "done"
    /\ segDurations' = DurationsClosed(NoPts)
    /\ closed' = MarkedClosed
    /\ current' = FALSE
    /\ segStartPts' = NoPts
    /\ playlist' = PlaylistOf(segDurations', Len(files))
    /\ UNCHANGED <<files, lastRefPts, sent>>

\* Writing to a file fails: a packet, a trailer or the playlist.
WriteFails ==
    /\ phase = "open"
    /\ phase' = "failed"
    /\ UNCHANGED <<current, files, closed, segDurations, segStartPts,
                   lastRefPts, playlist, sent>>

Next ==
    \/ WriteHeader
    \/ \E p \in Packet : WritePacket(p)
    \/ WriteTrailer
    \/ WriteFails

Spec == Init /\ [][Next]_vars

-----------------------------------------------------------------------------
(* Properties *)

\* The presentation time at which a segment starts: that of its first packet.
StartOf(i) == files[i][1].pts

\* A packet that opened its segment with a known start.
Timed(p) == p.ref /\ p.pts # NoPts

\* Every packet handed to the muxer is in exactly one segment, and reading the
\* segments in playlist order gives the packets back in the order they came
\* (write_packet: a packet that triggers a rollover goes to the new segment).
NothingLostAcrossSegments ==
    phase # "failed" => FlattenSeq(files) = sent

\* The finished playlist names every segment file, each finalized with its
\* trailer: the zip of durations and names never drops a segment.
PlaylistComplete ==
    phase = "done" =>
        /\ [i \in 1..Len(playlist) |-> playlist[i][2]] = [i \in 1..Len(files) |-> i]
        /\ \A i \in 1..Len(files) : closed[i]

\* Every segment but the first can be decoded on its own: it starts at a
\* keyframe of the video stream that drives the boundaries.
StartsIndependent ==
    HasVideo => \A i \in 2..Len(files) : Timed(files[i][1]) /\ files[i][1].key

\* The durations tile the timeline: a segment that was rolled over lasts
\* exactly from its own start to the start of the next one, and that is at
\* least the target.  A player that seeks by summing EXTINF lands on the
\* segment it computes.
DurationsTile ==
    \A i \in 1..(Len(files) - 1) :
        /\ segDurations[i] = StartOf(i + 1) - StartOf(i)
        /\ segDurations[i] >= Target

\* A segment holding a reference keyframe that is Target or more past the
\* segment's first reference timestamp should have been rolled over there.
FirstRef(i) ==
    CHOOSE j \in 1..Len(files[i]) :
        Timed(files[i][j]) /\ \A k \in 1..(j - 1) : ~Timed(files[i][k])

Overlong(i) ==
    \E j \in 1..Len(files[i]) :
        /\ Timed(files[i][j])
        /\ files[i][j].key
        /\ files[i][j].pts - files[i][FirstRef(i)].pts >= Target

\* "Segments roll over once a segment has covered `target_duration` seconds,
\* preferring a video keyframe boundary" (lib.rs:10-12): no segment goes on
\* past a reference keyframe that lies a whole target after its start.
RollsOver == \A i \in 1..Len(files) : ~Overlong(i)

\* Both halves of that promise: each segment but the first starts at a keyframe
\* of the stream that drives the boundaries, and so can be decoded on its own;
\* and none goes on past such a keyframe that is due, for the inputs on which
\* the code keeps this - a job whose first packet is a timed one of that stream.
CutsWhereDue ==
    /\ StartsIndependent
    /\ (sent # <<>> /\ Timed(sent[1])) => RollsOver

=============================================================================
