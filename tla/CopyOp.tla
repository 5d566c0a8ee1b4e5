-------------------------------- MODULE CopyOp ---------------------------------
(***************************************************************************)
(* Stream copy of one stream (crates/rff/src/transcode.rs, CopyOp): the    *)
(* packets go through in decoding order, unchanged but for the trim window *)
(* and the shift of their timestamps.                                      *)
(*                                                                         *)
(* A packet is its timestamps, its keyframe flag and the packets its       *)
(* picture is predicted from, all of the same closed GOP: a keyframe needs *)
(* none, and nothing after it needs what is before it.                     *)
(***************************************************************************)
EXTENDS Ordering

CONSTANTS
    IsVideo,        \* is_video
    Trimming,       \* -ss / -t / -to were given
    StartTicks,     \* start_ticks
    EndTicks,       \* end_ticks, or None
    MaxPts,         \* bound: timestamps are drawn from 0..MaxPts
    MaxPackets,     \* bound: packets of the stream
    None            \* Option::None

Stamp == (0..MaxPts) \cup {None}
Packet == [pts : Stamp, dts : Stamp, key : BOOLEAN, needs : SUBSET (1..MaxPackets)]

VARIABLES
    started,        \* started
    sent,           \* history: the packets of the demuxer, in order
    out             \* what is muxed: [n, pts, dts], n the packet's number

vars == <<started, sent, out>>

\* What the shift leaves of a presentation time is never negative; a decoding
\* time may be, of a packet that is decoded before the window opens.
TypeOK ==
    /\ started \in BOOLEAN
    /\ sent \in Seq(Packet)
    /\ out \in Seq([n : 1..MaxPackets, pts : Stamp, dts : Int \cup {None}])

Init ==
    /\ started = FALSE
    /\ sent = <<>> /\ out = <<>>

\* The time that decides: pts, for want of it dts, for want of both zero.
Ts(p) == IF p.pts # None THEN p.pts ELSE IF p.dts # None THEN p.dts ELSE 0

BugInWindow(p) ==
    /\ StartTicks <= Ts(p)
    /\ EndTicks # None => Ts(p) <= EndTicks

InWindow(p) ==
    /\ StartTicks <= Ts(p)
    /\ EndTicks # None => Ts(p) < EndTicks

BugPasses(p) == InWindow(p)

\* Copied video waits for a clean random-access point inside the window.
Passes(p) == InWindow(p) /\ (IsVideo /\ ~started => p.key)

Shift(t) == IF t = None THEN t ELSE t - StartTicks

\* process: the packet is forwarded, under its own or shifted timestamps.
Forward(p) ==
    /\ Trimming => Passes(p)
    /\ started' = (started \/ (Trimming /\ IsVideo))
    /\ out' = Append(out,
                  [n |-> Len(sent) + 1,
                   pts |-> IF Trimming THEN Shift(p.pts) ELSE p.pts,
                   dts |-> IF Trimming THEN Shift(p.dts) ELSE p.dts])

\* process returns None.
Drop(p) ==
    /\ Trimming /\ ~Passes(p)
    /\ UNCHANGED <<started, out>>

\* The packets since the last keyframe, which the next one may refer to.
Gop == {i \in 1..Len(sent) : \A k \in (i + 1)..Len(sent) : ~sent[k].key}

\* The demuxer's next packet; no stream has two pictures at one time.
Legal(p) ==
    /\ p.key <=> p.needs = {}
    /\ p.needs \subseteq Gop
    /\ p.pts = None \/ \A i \in 1..Len(sent) : sent[i].pts # p.pts

Process(p) ==
    /\ Len(sent) < MaxPackets
    /\ Legal(p)
    /\ Forward(p) \/ Drop(p)
    /\ sent' = Append(sent, p)

Next == \E p \in Packet : Process(p)

Spec == Init /\ [][Next]_vars

-----------------------------------------------------------------------------
(* Properties *)

Inside(i) ==
    /\ StartTicks <= Ts(sent[i])
    /\ EndTicks # None => Ts(sent[i]) < EndTicks

\* The first keyframe inside the window, or a number past the last packet.
CutAt ==
    LET keys == {i \in 1..Len(sent) : Inside(i) /\ sent[i].key}
    IN  IF ~IsVideo THEN 1
        ELSE CHOOSE i \in keys \cup {Len(sent) + 1} :
                 \A k \in keys : i <= k

\* "Video cuts on the first keyframe inside the window": what is muxed is every
\* packet of the window from there on, in decoding order, at its distance from
\* the start of the window.
CutIsExact ==
    LET kept == Ascending({i \in 1..Len(sent) : Trimming => Inside(i) /\ CutAt <= i})
        offset == IF Trimming THEN StartTicks ELSE 0
    IN  /\ [k \in 1..Len(out) |-> out[k].n] = kept
        /\ \A k \in 1..Len(out) :
               sent[out[k].n].pts # None => out[k].pts + offset = sent[out[k].n].pts

Muxed == {out[k].n : k \in 1..Len(out)}

\* "a copy can't split a GOP" (CopyOp): every muxed picture can be decoded from
\* the muxed pictures.
NoGopIsSplit ==
    IsVideo => \A i \in Muxed : sent[i].needs \subseteq Muxed

InPresentationOrder ==
    \A j, k \in 1..Len(sent) : j < k => Ts(sent[j]) <= Ts(sent[k])

\* The same for the streams on which the code keeps it: those whose pictures
\* are presented in the order they are decoded in.
NoGopIsSplitInOrder == InPresentationOrder => NoGopIsSplit

=============================================================================
