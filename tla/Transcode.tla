------------------------------- MODULE Transcode -------------------------------
(***************************************************************************)
(* A whole job (crates/rff/src/transcode.rs, run): the inputs are opened,  *)
(* streams are selected and planned, the output is created, and one input  *)
(* after the other is read to its end, through its plan into the shared    *)
(* muxer.                                                                  *)
(*                                                                         *)
(* What a transcoded stream does between a packet in and a packet out is   *)
(* the pipe of TranscodeOp, of which only the promise is used here: it     *)
(* holds packets back, releases them in order and gives up the last ones   *)
(* at its finish.  Streams are <<input, stream>> pairs; a packet is its    *)
(* number in its stream.                                                   *)
(***************************************************************************)
EXTENDS Ordering, SequencesExt

CONSTANTS
    Jobs,           \* the jobs that may be asked for (TranscodeSpec)
    MaxPackets      \* bound: packets of each stream

Kinds == {"video", "audio", "subtitle", "data"}

ASSUME JobAssumption ==
    /\ MaxPackets \in Nat
    /\ \A j \in Jobs :
        /\ j.inputs \in Seq(Seq(Kinds)) /\ j.inputs # <<>>
        /\ j.maps \in Seq([input : Nat \ {0}, picks : SUBSET (Nat \ {0})])
        /\ j.recoded \in SUBSET {"video", "audio"}
        /\ j.overlay \in BOOLEAN
        /\ j.overlay => Len(j.inputs) >= 2

VARIABLES
    job,            \* the member of Jobs that is run
    phase,          \* where run() stands
    opened,         \* demuxers opened so far
    selection,      \* the selected streams, in output order
    planned,        \* out_streams.len(): operations built so far
    ops,            \* per_input_ops: the operation of every stream
    sink,           \* "untouched", "created", "headed" or "finished"
    cur,            \* the input being read
    flushed,        \* streams of that input flushed, at its end
    read,           \* packets read of each stream
    held,           \* packets inside each stream's operation
    written         \* packets written to the muxer

Inputs == job.inputs        \* the media types of the streams of each input
Maps == job.maps            \* the -map entries: an input and what they select
Recoded == job.recoded      \* media types for which a codec was requested
HasOverlay == job.overlay   \* -filter_complex overlay of the last input

Streams == UNION {{i} \X (1..Len(Inputs[i])) : i \in 1..Len(Inputs)}
OverlayInput == IF HasOverlay THEN Len(Inputs) ELSE 0
Kind(x) == Inputs[x[1]][x[2]]

planVars == <<job, opened, selection, planned, ops>>
driveVars == <<cur, flushed, read, held, written>>
vars == <<phase, planVars, sink, driveVars>>

Phases == {"open", "select", "plan", "overlay", "sink", "header", "read",
           "flush", "trailer", "done", "failed"}
Skip == [what |-> "skip", out |-> 0]
Op == [what : {"skip", "copy", "transcode"}, out : Nat]
Written == [out : Nat, from : Streams, n : Nat]

TypeOK ==
    /\ job \in Jobs
    /\ phase \in Phases
    /\ opened \in 0..Len(Inputs)
    /\ selection \in Seq(Streams)
    /\ planned \in 0..Len(selection)
    /\ ops \in [Streams -> Op]
    /\ sink \in {"untouched", "created", "headed", "finished"}
    /\ cur \in 1..Len(Inputs) /\ flushed \in Nat
    /\ read \in [Streams -> 0..MaxPackets]
    /\ held \in [Streams -> 0..MaxPackets]
    /\ written \in Seq(Written)

Init ==
    /\ job \in Jobs
    /\ phase = "open"
    /\ opened = 0
    /\ selection = <<>> /\ planned = 0
    /\ ops = [x \in Streams |-> Skip]
    /\ sink = "untouched"
    /\ cur = 1 /\ flushed = 0
    /\ read = [x \in Streams |-> 0] /\ held = [x \in Streams |-> 0]
    /\ written = <<>>

-----------------------------------------------------------------------------
(* Planning *)

\* open_input and read_header, one input after the other.
OpenInput ==
    /\ phase = "open"
    /\ opened' = opened + 1
    /\ phase' = IF opened' = Len(Inputs) THEN "select" ELSE "open"
    /\ UNCHANGED <<job, selection, planned, ops, sink, driveVars>>

\* The order of a job's streams.
Before ==
    {p \in Streams \X Streams :
        p[1][1] < p[2][1] \/ (p[1][1] = p[2][1] /\ p[1][2] < p[2][2])}

\* The overlay input is consumed by the filter: whatever selects its streams,
\* they are not kept.
Kept == {x \in Streams : x[1] # OverlayInput}

\* select_streams without -map: the streams of every input, in order.
DefaultStreams ==
    InOrder({x \in Kept : Kind(x) \in {"video", "audio", "subtitle"}}, Before)

\* With -map: what each entry picks, in the order of the entries.
Picked(m) == InOrder({x \in Kept : x[1] = m.input /\ x[2] \in m.picks}, Before)

MappedStreams == FlattenSeq([i \in 1..Len(Maps) |-> Picked(Maps[i])])

BugPlanPhase == "sink"

PlanPhase == "plan"

Select ==
    /\ phase = "select"
    /\ \A m \in 1..Len(Maps) : Maps[m].input <= Len(Inputs)
    /\ selection' = IF Maps = <<>> THEN DefaultStreams ELSE MappedStreams
    /\ selection' # <<>>
    /\ phase' = PlanPhase
    /\ UNCHANGED <<job, opened, planned, ops, sink, driveVars>>

BugOutIndex(x) == x[2]

\* The output stream that the operation under construction feeds.
OutIndex(x) == planned + 1

\* build_op for the next selected stream; its entry in the table is replaced.
BuildOp ==
    /\ phase = "plan"
    /\ planned < Len(selection)
    /\ LET x == selection[planned + 1]
       IN  ops' = [ops EXCEPT ![x] =
                      [what |-> IF Kind(x) \in Recoded THEN "transcode" ELSE "copy",
                       out |-> OutIndex(x)]]
    /\ planned' = planned + 1
    /\ UNCHANGED <<job, phase, opened, selection, sink, driveVars>>

PlanDone ==
    /\ phase = "plan"
    /\ planned = Len(selection)
    /\ phase' = IF HasOverlay THEN "overlay" ELSE "sink"
    /\ UNCHANGED <<planVars, sink, driveVars>>

\* decode_overlay_frame reads the overlay input as far as its first frame; the
\* first video stream of input #0 must be re-encoded to carry it.
DecodeOverlay ==
    /\ phase = "overlay"
    /\ \E x \in Streams :
           /\ x[1] = 1 /\ Kind(x) = "video" /\ ops[x].what = "transcode"
           /\ \A y \in Streams : y[1] = 1 /\ Kind(y) = "video" => x[2] <= y[2]
    /\ \E y \in Streams : y[1] = OverlayInput /\ Kind(y) = "video"
    /\ read' \in {r \in [Streams -> 0..MaxPackets] :
                     \A x \in Streams : x[1] # OverlayInput => r[x] = read[x]}
    /\ phase' = "sink"
    /\ UNCHANGED <<planVars, sink, cur, flushed, held, written>>

\* The output file is created, if it may be; then the header is written.
CreateSink ==
    /\ phase = "sink"
    /\ sink' = "created"
    /\ phase' = "header"
    /\ UNCHANGED <<planVars, driveVars>>

WriteHeader ==
    /\ phase = "header"
    /\ sink' = "headed"
    /\ phase' = "read"
    /\ UNCHANGED <<planVars, driveVars>>

-----------------------------------------------------------------------------
(* Driving the inputs *)

\* The first k of the pending packets of stream x, of which `total` were read.
Release(x, total, pending, k) ==
    [j \in 1..k |-> [out |-> ops[x].out, from |-> x, n |-> total - pending + j]]

\* How many of the pending packets an operation may let out.
MayRelease(x, pending) ==
    CASE ops[x].what = "skip" -> {0}
      [] ops[x].what = "copy" -> {pending}
      [] ops[x].what = "transcode" -> 0..pending

\* read_packet, process_packet.
ReadPacket(x) ==
    /\ phase = "read"
    /\ x[1] = cur
    /\ read[x] < MaxPackets
    /\ read' = [read EXCEPT ![x] = @ + 1]
    /\ LET pending == IF ops[x].what = "skip" THEN 0 ELSE held[x] + 1
       IN  \E k \in MayRelease(x, pending) :
               /\ written' = written \o Release(x, read[x] + 1, pending, k)
               /\ held' = [held EXCEPT ![x] = pending - k]
    /\ UNCHANGED <<phase, planVars, sink, cur, flushed>>

\* The input ends: flush_streams begins.
EndOfInput ==
    /\ phase = "read"
    /\ flushed' = 0
    /\ phase' = "flush"
    /\ UNCHANGED <<planVars, sink, cur, read, held, written>>

BugFinishes(x) == x[2] = 1

\* Every transcoding operation of the input is finished.
Finishes(x) == ops[x].what = "transcode"

\* finish() of the next stream, if it is transcoded: all it holds comes out.
FlushStream ==
    /\ phase = "flush"
    /\ flushed < Len(Inputs[cur])
    /\ flushed' = flushed + 1
    /\ LET x == <<cur, flushed + 1>>
           k == IF Finishes(x) THEN held[x] ELSE 0
       IN  /\ written' = written \o Release(x, read[x], held[x], k)
           /\ held' = [held EXCEPT ![x] = @ - k]
    /\ UNCHANGED <<phase, planVars, sink, cur, read>>

NextCur == IF cur = Len(Inputs) THEN cur ELSE cur + 1

BugAfterFlush == "read"

\* Where the loop over the inputs goes on.
AfterFlush == IF cur = Len(Inputs) THEN "trailer" ELSE "read"

NextInput ==
    /\ phase = "flush"
    /\ flushed = Len(Inputs[cur])
    /\ cur' = NextCur
    /\ phase' = AfterFlush
    /\ UNCHANGED <<planVars, sink, flushed, read, held, written>>

WriteTrailer ==
    /\ phase = "trailer"
    /\ sink' = "finished"
    /\ phase' = "done"
    /\ UNCHANGED <<planVars, driveVars>>

\* An error anywhere ends the job as it stands, without a trailer.
Fail ==
    /\ phase \notin {"done", "failed"}
    /\ phase' = "failed"
    /\ UNCHANGED <<planVars, sink, driveVars>>

Next ==
    \/ OpenInput \/ Select \/ BuildOp \/ PlanDone \/ DecodeOverlay
    \/ CreateSink \/ WriteHeader
    \/ (\E x \in Streams : ReadPacket(x)) \/ EndOfInput
    \/ FlushStream \/ NextInput \/ WriteTrailer
    \/ Fail

\* One thread; nothing it calls blocks for ever.
Spec == Init /\ [][Next]_vars /\ WF_vars(Next)

-----------------------------------------------------------------------------
(* Properties *)

\* "Resolution (formats, decoders, encoders) happens up front so failures are
\* reported before any output file is touched" (run): when the output exists,
\* every selected stream has its operation and the overlay its carrier.
PlannedBeforeTouched ==
    sink # "untouched" =>
        /\ opened = Len(Inputs) /\ selection # <<>> /\ planned = Len(selection)
        /\ HasOverlay => \E x \in Streams : x[1] = 1 /\ ops[x].what = "transcode"

\* A packet in output stream k was read from the k-th selected stream, and no
\* packet of the overlay input is muxed.
RoutedAsSelected ==
    \A i \in 1..Len(written) :
        /\ written[i].out \in 1..Len(selection)
        /\ selection[written[i].out] = written[i].from
        /\ written[i].from[1] # OverlayInput

\* The packets in output stream k.
PacketsOf(k) == {written[i].n : i \in {j \in 1..Len(written) : written[j].out = k}}

\* The table has one operation per input stream: when a stream is selected
\* more than once, the last selection has it.
Superseded(k) == \E j \in (k + 1)..Len(selection) : selection[j] = selection[k]

\* "Resolve which (input_index, stream_index) pairs go to the output, in output
\* order" (select_streams): packets never overtake one another in an output
\* stream nor come twice, and when the job is done, each output stream has every
\* packet of its selected stream, however the operations of the streams held
\* them back; one whose stream a later -map names again is superseded and has
\* none.
EveryOutputServed ==
    /\ \A i, j \in 1..Len(written) :
           i < j /\ written[i].out = written[j].out => written[i].n < written[j].n
    /\ phase = "done" =>
           \A k \in 1..Len(selection) :
               PacketsOf(k) = IF Superseded(k) THEN {} ELSE 1..read[selection[k]]

\* The job comes to an end: every input is read to its end and flushed once.
Terminates == <>(phase \in {"done", "failed"})

-----------------------------------------------------------------------------
(* Values of the constants for TLC *)

\* A file with video and audio, and one with audio alone.
Files == << <<"video", "audio">>, <<"audio">> >>
\* Video with subtitles, and an image to lay over it.
Titled == << <<"video", "subtitle">>, <<"video">> >>

Plain == [inputs |-> Files, maps |-> <<>>, recoded |-> {"video", "audio"},
          overlay |-> FALSE]

\* Everything recoded; streams picked in another order and one left out; the
\* video named twice; an overlay.
MCJobs == {
    Plain,
    [Plain EXCEPT !.recoded = {"video"},
                  !.maps = << [input |-> 2, picks |-> {1}], [input |-> 1, picks |-> {1}] >>],
    [Plain EXCEPT !.recoded = {"video"},
                  !.maps = << [input |-> 1, picks |-> {1}], [input |-> 1, picks |-> {1, 2}] >>],
    [Plain EXCEPT !.recoded = {"video"}, !.inputs = Titled, !.overlay = TRUE]}

=============================================================================
