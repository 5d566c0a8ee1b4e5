------------------------------ MODULE DashMuxer -------------------------------
(***************************************************************************)
(* The DASH muxer (crates/rff-format-mp4/src/dash.rs): every packet is     *)
(* kept until the trailer, which times each track as the MP4 muxer does,   *)
(* cuts it into fragments and writes one file per fragment and, last of    *)
(* all, the manifest with the timeline.                                    *)
(***************************************************************************)
EXTENDS Mp4Timing
LOCAL INSTANCE SequencesExt

CONSTANT SegSeconds     \* -seg_duration

VARIABLES
    stage,      \* "new", "open", "done" or "cut"
    tracks,     \* per stream: [audio, scale, config, samples, ...]
    written,    \* the files in the order they were written
    manifest    \* per stream the timeline, <<start, duration>>s, or NoManifest

NoManifest == <<>>

DashInit == written = <<>> /\ manifest = NoManifest

WriteHeader ==
    /\ stage = "new"
    /\ stage' = "open"
    /\ UNCHANGED <<tracks, written, manifest>>

WritePacket(t, s) ==
    /\ stage = "open"
    /\ tracks' = [tracks EXCEPT ![t].samples = Append(@, s),
                                ![t].config = @ \/ s.sets = {"sps", "pps"}]
    /\ UNCHANGED <<stage, written, manifest>>

-----------------------------------------------------------------------------
(* write_trailer *)

TargetTicks(track) == SegSeconds * track.scale

BugCuts(track, i, ticks) == ticks >= TargetTicks(track)

\* A sample that starts a fragment of its own, `ticks` into the one before.
Cuts(track, i, ticks) ==
    ticks >= TargetTicks(track) /\ (track.samples[i].key \/ track.audio)

\* The fragments of a track, as the numbers of their samples.
Fragments(track, durations) ==
    LET Step(f, i) ==
            IF f.all # <<>> /\ ~Cuts(track, i, f.ticks)
            THEN [all |-> [f.all EXCEPT ![Len(f.all)] = Append(@, i)],
                  ticks |-> f.ticks + durations[i]]
            ELSE [all |-> Append(f.all, <<i>>), ticks |-> durations[i]]
    IN  FoldLeft(Step, [all |-> <<>>, ticks |-> 0],
                 [i \in 1..Len(track.samples) |-> i]).all

BugOffset(plan, first, k) == OffsetOf(plan, k)

\* The composition offset of sample k of the fragment that starts at `first`:
\* of the track's offsets, the slice from there on.
SliceOffset(plan, first, k) == OffsetOf(plan, first + k - 1)

BugBase(plan, fragment) == DecodedAt(plan, fragment[1]) + plan.start

\* The decode time a fragment starts at: what those before it last.
Base(plan, fragment) == DecodedAt(plan, fragment[1])

Segment(plan, fragment) ==
    [base |-> Base(plan, fragment),
     samples |-> [k \in 1..Len(fragment) |->
        [index |-> fragment[k], duration |-> plan.durations[fragment[k]],
         offset |-> SliceOffset(plan, fragment[1], k)]]]

Lasts(plan, fragment) ==
    DecodedAt(plan, Last(fragment)) + plan.durations[Last(fragment)] - DecodedAt(plan, fragment[1])

File(t, number, content) == [track |-> t, number |-> number, content |-> content]

\* The files of a stream: number 0 is the init segment, with its edit list.
FilesOf(t) ==
    LET plan == TimingPlan(tracks[t])
        fragments == Fragments(tracks[t], plan.durations)
    IN  <<File(t, 0, plan.start)>> \o
        [n \in 1..Len(fragments) |-> File(t, n, Segment(plan, fragments[n]))]

AllFiles == FlattenSeq([t \in 1..Len(tracks) |-> FilesOf(t)])

Timeline(t) ==
    LET plan == TimingPlan(tracks[t])
        fragments == Fragments(tracks[t], plan.durations)
    IN  [n \in 1..Len(fragments) |-> <<Base(plan, fragments[n]), Lasts(plan, fragments[n])>>]

WriteTrailer ==
    /\ stage = "open"
    /\ stage' = "done"
    /\ written' = AllFiles
    /\ manifest' = [t \in 1..Len(tracks) |-> Timeline(t)]
    /\ UNCHANGED tracks

\* A file cannot be written, or the process ends: no manifest names the rest.
CutOff ==
    /\ stage = "open"
    /\ stage' = "cut"
    /\ \E n \in 0..Len(AllFiles) : written' = SubSeq(AllFiles, 1, n)
    /\ UNCHANGED <<tracks, manifest>>

-----------------------------------------------------------------------------
(* Properties *)

Segments(t) == SelectSeq(written, LAMBDA f : f.track = t /\ f.number > 0)

\* What a player makes of the n-th fragment of a stream: when each sample is
\* shown, from the fragment's base, the durations before it and its offset,
\* counted from the edit list's start.
ShownAt(t, n, k) ==
    LET segment == Segments(t)[n].content
        before == Total([j \in 1..(k - 1) |-> segment.samples[j].duration])
        edit == (CHOOSE f \in {written[i] : i \in 1..Len(written)} :
                    f.track = t /\ f.number = 0).content
    IN  segment.base + before + segment.samples[k].offset - edit

\* The manifest comes last and names only files that are there; each stream's
\* fragments tile its timeline from 0, and hold all its samples in order
\* (dash.rs:1-11: "one AdaptationSet per stream and an exact SegmentTimeline").
ManifestTiles ==
    manifest # NoManifest =>
        \A t \in 1..Len(tracks) :
            /\ Len(manifest[t]) = Len(Segments(t))
            /\ \A n \in 1..Len(manifest[t]) :
                manifest[t][n][1] = Total([m \in 1..(n - 1) |-> manifest[t][m][2]])
            /\ FlattenSeq([n \in 1..Len(Segments(t)) |->
                    Field(Segments(t)[n].content.samples, "index")])
               = [i \in 1..Len(tracks[t].samples) |-> i]

\* A fragment of video after the first starts at a keyframe, none goes on past
\* a keyframe at which the target is covered, and none but the last is short.
FragmentsCutWhereDue ==
    \A t \in 1..Len(tracks) : \A n \in 1..Len(Segments(t)) :
        LET samples == Segments(t)[n].content.samples
            upTo(k) == Total([j \in 1..k |-> samples[j].duration])
            key(k) == tracks[t].audio \/ tracks[t].samples[samples[k].index].key
        IN  /\ n > 1 => key(1)
            /\ \A k \in 2..Len(samples) : key(k) => upTo(k - 1) < TargetTicks(tracks[t])
            /\ n < Len(Segments(t)) => upTo(Len(samples)) >= TargetTicks(tracks[t])

\* Samples are shown as far apart as their packets were stamped, whichever
\* fragments they are in ("B-frames keep their display order", dash.rs:116),
\* for streams that every packet gives a pts to and whose pts are not all equal.
ShownAsStamped ==
    \A t \in 1..Len(tracks) :
        LET pts == Field(tracks[t].samples, "pts")
        IN  DecodeTimes(pts, Field(tracks[t].samples, "dts")) # <<>> =>
            \A n \in 1..Len(Segments(t)) : \A k \in 1..Len(Segments(t)[n].content.samples) :
                LET i == Segments(t)[n].content.samples[k].index
                IN  ShownAt(t, n, k) - ShownAt(t, 1, 1) = pts[i] - pts[1]

=============================================================================
