------------------------------ MODULE Mp4Timing -------------------------------
(***************************************************************************)
(* How the MP4 and DASH muxers time a track                                *)
(* (crates/rff-format-mp4/src/lib.rs, timing_plan): decode durations,      *)
(* composition offsets and the start of the presentation, derived at the   *)
(* trailer from the timestamps of all the packets of the track.            *)
(*                                                                         *)
(* A track is [audio, scale, samples, ...], its samples a sequence of      *)
(* [pts, dts, key, size, sets]; times are in ticks of the track.           *)
(***************************************************************************)
EXTENDS Integers, Sequences
LOCAL INSTANCE FiniteSetsExt
LOCAL INSTANCE SequencesExt

CONSTANT NoTs       \* a missing timestamp; Option::None

Field(samples, f) == [i \in 1..Len(samples) |-> samples[i][f]]
AtLeast(n, least) == IF n < least THEN least ELSE n
Total(seq) == FoldLeft(LAMBDA a, b : a + b, 0, seq)

\* The sums of the first 0, 1, ... elements: where each begins.
Sums(seq) == FoldLeft(LAMBDA sums, n : Append(sums, Last(sums) + n), <<0>>, seq)

\* Times that every sample has, that never go back and that do not all agree.
Usable(times) ==
    /\ \A i \in 1..Len(times) : times[i] # NoTs
    /\ Len(times) >= 2
    /\ \A i \in 1..(Len(times) - 1) : times[i] <= times[i + 1]
    /\ times[Len(times)] > times[1]

\* Seconds / 50 for audio, / 30 for video: the length of a sample without times.
Nominal(track) == AtLeast(track.scale \div (IF track.audio THEN 50 ELSE 30), 1)

\* Each sample lasts until the next one; the last as long as the last that lasts.
SampleDurations(times, track) ==
    IF Usable(times)
    THEN LET deltas == [i \in 1..(Len(times) - 1) |-> times[i + 1] - times[i]]
         IN  Append(deltas, Last(SelectSeq(deltas, LAMBDA d : d > 0)))
    ELSE [i \in 1..Len(times) |-> Nominal(track)]

\* The reorder depth: by how much sorted times must be put back for no sample
\* to be decoded after it is shown.
Delay(sorted, pts) == Max({0} \cup {sorted[i] - pts[i] : i \in 1..Len(pts)})

\* Decode times made up from the presentation times.
Derived(pts) ==
    LET Put(sorted) == [i \in 1..Len(pts) |-> sorted[i] - Delay(sorted, pts)]
    IN  Put(SortSeq(pts, LAMBDA a, b : a < b))

FirstUsable(dts, derived) ==
    IF Usable(dts) THEN dts ELSE IF Usable(derived) THEN derived ELSE <<>>

\* The packets' own decode times when they can be used, else derived ones; <<>>
\* where there are none.
DecodeTimes(pts, dts) ==
    IF \E i \in 1..Len(pts) : pts[i] = NoTs THEN <<>> ELSE FirstUsable(dts, Derived(pts))

BugStart(pts, dts) == AtLeast(Min({pts[i] : i \in 1..Len(pts)}) - dts[1], 0)

\* Where the presentation starts on the decode timeline: at the first picture
\* shown, or at time 0 when packets are timed before it.
Start(pts, dts) == AtLeast(AtLeast(Min({pts[i] : i \in 1..Len(pts)}), 0) - dts[1], 0)

\* Sample i is decoded dts[i] - dts[1] after the first one.
PlanOf(pts, dts, durations, start) ==
    LET offsets == [i \in 1..Len(pts) |-> pts[i] - dts[i]]
        ends == {pts[i] - dts[1] + durations[i] : i \in 1..Len(pts)}
    IN  [durations |-> durations,
         offsets |-> IF \A i \in 1..Len(pts) : offsets[i] = 0 THEN <<>> ELSE offsets,
         start |-> start,
         presentation |-> AtLeast(Max(ends \cup {0}) - start, 0)]

\* Without decode times the samples come one after the other from 0 on.
PlainPlan(durations) ==
    [durations |-> durations, offsets |-> <<>>, start |-> 0, presentation |-> Total(durations)]

TimingPlan(track) ==
    LET Plan(pts, dts) == IF dts = <<>>
                          THEN PlainPlan(SampleDurations(pts, track))
                          ELSE PlanOf(pts, dts, SampleDurations(dts, track), Start(pts, dts))
        pts == Field(track.samples, "pts")
    IN  Plan(pts, DecodeTimes(pts, Field(track.samples, "dts")))

\* When a sample of the plan is decoded, and how much later it is shown.
DecodedAt(plan, i) == Total(SubSeq(plan.durations, 1, i - 1))
OffsetOf(plan, i) == IF plan.offsets = <<>> THEN 0 ELSE plan.offsets[i]

=============================================================================
