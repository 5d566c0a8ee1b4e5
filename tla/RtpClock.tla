------------------------------- MODULE RtpClock -------------------------------
(***************************************************************************)
(* The RTP demuxer's clock (crates/rff-format-rtp/src/lib.rs, pts_of): the *)
(* sender's timestamps count modulo ClockRange (2^32 ticks, some 13        *)
(* hours); the demuxer unwraps them and rebases them on the first frame.   *)
(*                                                                         *)
(* The sender's clock itself is the history variable `clock`, counted from *)
(* the last wrap before the first frame received.  From frame to frame it  *)
(* moves by less than half the range, forwards or, when frames are sent in *)
(* decoding order or arrive out of order, backwards; back beyond that wrap *)
(* if MaxLead is positive.                                                 *)
(***************************************************************************)
EXTENDS Integers

CONSTANTS
    ClockRange,     \* the timestamps are 0..ClockRange-1
    MaxLead,        \* bound: ticks a frame may precede clock 0 by
    MaxClock,       \* bound: the sender's clock stops here
    ReturnsToFirst, \* the timestamp of the first frame may come up again
    None            \* Option::None

ASSUME RangeAssumption ==
    /\ ClockRange \in Nat \ {0} /\ ClockRange % 2 = 0
    /\ MaxLead \in Nat /\ MaxClock \in Nat
    /\ ReturnsToFirst \in BOOLEAN
    /\ None \notin Int

Half == ClockRange \div 2

VARIABLES
    firstTs,        \* first_ts
    lastTs,         \* last_ts
    wraps,          \* wraps
    pts,            \* the pts of the last packet returned, or None
    clock           \* history: the sender's clock at that packet

vars == <<firstTs, lastTs, wraps, pts, clock>>

TypeOK ==
    /\ firstTs \in (0..(ClockRange - 1)) \cup {None}
    /\ lastTs \in 0..(ClockRange - 1)
    /\ wraps \in Nat
    /\ pts \in Int \cup {None}
    /\ clock \in Int

\* The first frame received may have any timestamp.
Init ==
    /\ firstTs = None
    /\ lastTs = 0
    /\ wraps = 0
    /\ pts = None
    /\ clock \in 0..(ClockRange - 1)

\* last_ts as pts_of compares with: replaced by ts itself when ts is the first
\* frame's and no wrap was counted yet.
Reference(first, ts) == IF ts = first /\ wraps = 0 THEN ts ELSE lastTs

BugWrapsAfter(ref, ts) == IF ts < ref THEN wraps + 1 ELSE wraps

\* A backwards jump of at least half the range is a wrap forwards, and a
\* forwards jump of at least half undoes one.
WrapsAfter(ref, ts) ==
    IF ts < ref /\ ref - ts >= Half THEN wraps + 1
    ELSE IF ts > ref /\ ts - ref >= Half /\ wraps > 0 THEN wraps - 1
    ELSE wraps

\* pts_of for a frame sent when the sender's clock showed t.
PtsOf(t) ==
    LET ts == t % ClockRange
        first == IF firstTs = None THEN ts ELSE firstTs
    IN  /\ firstTs' = first
        /\ wraps' = WrapsAfter(Reference(first, ts), ts)
        /\ lastTs' = ts
        /\ pts' = ts + wraps' * ClockRange - first
        /\ clock' = t

FirstFrame ==
    /\ firstTs = None
    /\ PtsOf(clock)

LaterFrame(t) ==
    /\ firstTs # None
    /\ t < clock + Half /\ clock < t + Half
    /\ ReturnsToFirst \/ t % ClockRange # firstTs
    /\ PtsOf(t)

Next == FirstFrame \/ \E t \in (0 - MaxLead)..MaxClock : LaterFrame(t)

Spec == Init /\ [][Next]_vars

-----------------------------------------------------------------------------
(* Properties *)

\* "First timestamp, so pts starts at 0; and the 32-bit clock unwrapped"
\* (lib.rs:64): the pts is the time since the first frame, however often the
\* clock wrapped and however the frames around a wrap are reordered.
PtsIsElapsed == pts # None => pts = clock - firstTs

=============================================================================
