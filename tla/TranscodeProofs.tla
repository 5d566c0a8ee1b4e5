---------------------------- MODULE TranscodeProofs -----------------------------
(***************************************************************************)
(* For every set of jobs, over inputs of any number of streams and any     *)
(* -map entries: the output is only touched when all is planned, a packet  *)
(* reaches only the output that its stream was selected for, and a job     *)
(* that succeeds has written every packet of every selected stream, once   *)
(* and in order, however the operations held packets back and wherever a   *)
(* stream was named again.                                                 *)
(***************************************************************************)
EXTENDS Transcode, SequenceFacts

-----------------------------------------------------------------------------
(* The inductive invariant *)

Planning == {"open", "select", "plan", "overlay", "sink", "header"}
Selecting == {"open", "select"}
Running == {"read", "flush", "trailer", "done"}

HasCarrier == \E x \in Streams : x[1] = 1 /\ ops[x].what = "transcode"

\* How far the plan is in each phase.
PlanInv ==
    /\ phase = "open" => opened < Len(Inputs)
    /\ phase \notin {"open", "failed"} => opened = Len(Inputs)
    /\ phase \in Selecting => selection = <<>>
    /\ phase \notin Selecting \cup {"failed"} => selection # <<>>
    /\ phase \notin Selecting \cup {"plan", "failed"} => planned = Len(selection)
    /\ phase \in {"sink", "header"} \cup Running /\ HasOverlay => HasCarrier
    /\ sink = "untouched" \/ phase \in {"header", "failed"} \cup Running
    /\ PlannedBeforeTouched

\* The table of operations is that of the streams planned so far: each has the
\* last of the outputs its stream was selected for.
OpsInv ==
    /\ \A k \in 1..Len(selection) : selection[k] \in Kept
    /\ \A x \in Streams : ops[x].what # "skip" =>
           ops[x].out \in 1..planned /\ selection[ops[x].out] = x
    /\ \A k \in 1..planned :
           ops[selection[k]].what # "skip" /\ k <= ops[selection[k]].out

\* The packets of stream x that its operation has let go.
Gone(x) == read[x] - held[x]

\* What is read and not held is written, in order; nothing is before the inputs
\* are read, and nothing is held when one has been flushed.
DriveInv ==
    /\ phase \in Planning => written = <<>>
    /\ phase \in Planning => \A x \in Kept : read[x] = 0
    /\ \A x \in Streams : held[x] <= read[x]
    /\ \A x \in Streams : ops[x].what # "transcode" \/ phase \in Planning => held[x] = 0
    /\ phase \in Running => \A x \in Streams : x[1] < cur => held[x] = 0
    /\ phase = "flush" => flushed <= Len(Inputs[cur])
    /\ phase = "flush" => \A x \in Streams : x[1] = cur /\ x[2] <= flushed => held[x] = 0
    /\ phase \in {"trailer", "done"} => \A x \in Streams : held[x] = 0

\* Every packet written, and where.
WrittenInv ==
    /\ \A i \in 1..Len(written) :
           LET w == written[i] IN
           /\ ops[w.from].what # "skip" /\ ops[w.from].out = w.out
           /\ w.n \in 1..Gone(w.from)
    /\ \A i, j \in 1..Len(written) :
           i < j /\ written[i].from = written[j].from => written[i].n < written[j].n
    /\ \A x \in Streams : ops[x].what # "skip" =>
           \A n \in 1..Gone(x) :
               \E i \in 1..Len(written) : written[i].from = x /\ written[i].n = n

IInv == TypeOK /\ PlanInv /\ OpsInv /\ DriveInv /\ WrittenInv

-----------------------------------------------------------------------------
(* What a job is made of *)

\* A job has an input, and each input a sequence of streams.
LEMMA JobTyped ==
    ASSUME job \in Jobs
    PROVE  /\ Inputs \in Seq(Seq(Kinds)) /\ Len(Inputs) \in Nat \ {0}
           /\ \A i \in 1..Len(Inputs) : Inputs[i] \in Seq(Kinds) /\ Len(Inputs[i]) \in Nat
           /\ Maps \in Seq([input : Nat \ {0}, picks : SUBSET (Nat \ {0})])
           /\ HasOverlay \in BOOLEAN
           /\ HasOverlay => Len(Inputs) >= 2
<1>1. /\ Inputs \in Seq(Seq(Kinds)) /\ Inputs # <<>>
      /\ Maps \in Seq([input : Nat \ {0}, picks : SUBSET (Nat \ {0})])
      /\ HasOverlay \in BOOLEAN
      /\ HasOverlay => Len(Inputs) >= 2
  BY JobAssumption DEF Inputs, Maps, HasOverlay
<1> QED
  BY <1>1

\* A stream is a place in an input.
LEMMA StreamPlaces ==
    ASSUME job \in Jobs
    PROVE  /\ \A x \in Streams : /\ x = <<x[1], x[2]>>
                                 /\ x[1] \in 1..Len(Inputs) /\ x[2] \in 1..Len(Inputs[x[1]])
           /\ \A i \in 1..Len(Inputs) : \A s \in 1..Len(Inputs[i]) : <<i, s>> \in Streams
  BY DEF Streams

\* The streams and what is asked of them are fixed with the job.
LEMMA SameJob ==
    ASSUME UNCHANGED job
    PROVE  UNCHANGED <<Inputs, Streams, Kept, HasOverlay>>
  BY DEF Inputs, Streams, Kept, HasOverlay, OverlayInput

\* A job has finitely many streams.
LEMMA StreamsFinite ==
    ASSUME job \in Jobs
    PROVE  IsFiniteSet(Streams)
<1> DEFINE n == Len(Inputs)
           f == [i \in 1..n |-> {i} \X (1..Len(Inputs[i]))]
           F == {{i} \X (1..Len(Inputs[i])) : i \in 1..n}
<1>1. IsFiniteSet(1..n)
  BY JobTyped, FS_Interval
<1>2. f \in Surjection(1..n, F)
  BY DEF Surjection
<1>3. IsFiniteSet(F)
  <2> HIDE DEF f, F, n
  <2> QED
    BY <1>1, <1>2, FS_Surjection
<1>4. ASSUME NEW T \in F PROVE IsFiniteSet(T)
  <2>1. PICK i \in 1..n : T = {i} \X (1..Len(Inputs[i]))
    OBVIOUS
  <2>2. IsFiniteSet({i})
    BY FS_Singleton
  <2>3. PICK m \in Nat : m = Len(Inputs[i])
    BY JobTyped
  <2>4. IsFiniteSet(1..m)
    BY FS_Interval
  <2> QED
    BY <2>1, <2>2, <2>3, <2>4, FS_Product
<1>5. Streams = UNION F
  BY DEF Streams
<1> HIDE DEF F
<1> QED
  BY <1>3, <1>4, <1>5, FS_UNION

\* The streams of a job stand in a strict order.
LEMMA StreamsOrdered ==
    ASSUME job \in Jobs, NEW S, S \subseteq Streams
    PROVE  StrictOrder(S, Before)
<1>1. \A x, y \in S : <<x, y>> \in Before <=> x[1] < y[1] \/ (x[1] = y[1] /\ x[2] < y[2])
  BY DEF Before
<1>2. \A x \in S : x = <<x[1], x[2]>> /\ x[1] \in Int /\ x[2] \in Int
  BY StreamPlaces, JobTyped
<1> HIDE DEF Before
<1>3. \A x \in S : <<x, x>> \notin Before
  BY <1>1, <1>2
<1>4. \A x, y \in S : x # y => <<x, y>> \in Before \/ <<y, x>> \in Before
  BY <1>1, <1>2
<1>5. \A x, y, z \in S : <<x, y>> \in Before /\ <<y, z>> \in Before => <<x, z>> \in Before
  BY <1>1, <1>2
<1> QED
  BY <1>3, <1>4, <1>5 DEF StrictOrder

\* In stream order, the streams of a set are a sequence of them.
LEMMA InStreamOrder ==
    ASSUME job \in Jobs, NEW S, S \subseteq Streams
    PROVE  InOrder(S, Before) \in Seq(S)
<1>1. IsFiniteSet(S)
  BY StreamsFinite, FS_Subset
<1> QED
  BY <1>1, StreamsOrdered, InOrderSorts

\* A selection is one of streams that are kept.
LEMMA SelectionTyped ==
    ASSUME job \in Jobs
    PROVE  DefaultStreams \in Seq(Kept) /\ MappedStreams \in Seq(Kept)
<1>1. Kept \subseteq Streams
  BY DEF Kept
<1>2. ASSUME NEW S, S \subseteq Kept PROVE InOrder(S, Before) \in Seq(Kept)
  <2>1. InOrder(S, Before) \in Seq(S)
    BY <1>1, <1>2, InStreamOrder
  <2> QED
    BY <1>2, <2>1
<1>3. DefaultStreams \in Seq(Kept)
  <2> DEFINE S == {x \in Kept : Kind(x) \in {"video", "audio", "subtitle"}}
  <2>1. S \subseteq Kept
    OBVIOUS
  <2>2. DefaultStreams = InOrder(S, Before)
    BY DEF DefaultStreams
  <2> HIDE DEF S
  <2> QED
    BY <1>2, <2>1, <2>2
<1>4. ASSUME NEW i \in 1..Len(Maps) PROVE Picked(Maps[i]) \in Seq(Kept)
  <2> DEFINE S == {x \in Kept : x[1] = Maps[i].input /\ x[2] \in Maps[i].picks}
  <2>1. S \subseteq Kept
    OBVIOUS
  <2>2. Picked(Maps[i]) = InOrder(S, Before)
    BY DEF Picked
  <2> HIDE DEF S
  <2> QED
    BY <1>2, <2>1, <2>2
<1>5. MappedStreams \in Seq(Kept)
  <2> DEFINE ss == [i \in 1..Len(Maps) |-> Picked(Maps[i])]
  <2>1. Len(Maps) \in Nat
    BY JobTyped
  <2>2. ss \in Seq(Seq(Kept))
    BY <1>4, <2>1
  <2>3. MappedStreams = FlattenSeq(ss)
    BY DEF MappedStreams
  <2> HIDE DEF ss
  <2> QED
    BY <2>2, <2>3, FlattenType
<1> QED
  BY <1>3, <1>5

-----------------------------------------------------------------------------
(* What steps leave alone *)

\* The table stays well-formed while the plan stays.
LEMMA OpsStay ==
    ASSUME OpsInv, UNCHANGED <<job, selection, planned, ops>>
    PROVE  OpsInv'
<1>1. Streams' = Streams /\ Kept' = Kept
  BY SameJob
<1> QED
  BY <1>1 DEF OpsInv

\* What is written stays right while no packet moves.
LEMMA WrittenStays ==
    ASSUME WrittenInv, UNCHANGED <<job, ops, read, held, written>>
    PROVE  WrittenInv'
<1>1. Streams' = Streams
  BY SameJob
<1> QED
  BY <1>1 DEF WrittenInv, Gone

\* While the job is planned, nothing is to be written.
LEMMA NothingWritten ==
    ASSUME TypeOK', OpsInv', DriveInv', phase' \in Planning
    PROVE  WrittenInv'
<1>1. written' = <<>>
  BY DEF DriveInv
<1>2. ASSUME NEW x \in Streams', ops'[x].what # "skip" PROVE Gone(x)' = 0
  <2>1. ops'[x].out \in 1..planned' /\ selection'[ops'[x].out] = x
    BY <1>2 DEF OpsInv
  <2>2. ops'[x].out \in 1..Len(selection')
    BY SMTT(30), <2>1 DEF TypeOK
  <2>3. x \in Kept'
    BY <2>1, <2>2 DEF OpsInv
  <2>4. read'[x] = 0 /\ held'[x] = 0
    BY <2>3 DEF DriveInv
  <2> QED
    BY <2>4 DEF Gone
<1>3. \A x \in Streams' : ops'[x].what # "skip" => 1..Gone(x)' = {}
  BY <1>2
<1>4. Len(written') = 0 /\ 1..Len(written') = {}
  BY <1>1
<1> QED
  BY <1>3, <1>4 DEF WrittenInv

-----------------------------------------------------------------------------
(* Each action *)

\* The invariant holds at the start.
LEMMA InitOK == Init => IInv
<1> SUFFICES ASSUME Init PROVE IInv
  OBVIOUS
<1>1. Len(Inputs) \in Nat \ {0} /\ MaxPackets \in Nat
  BY JobTyped, JobAssumption DEF Init
<1>2. TypeOK
  BY <1>1 DEF Init, TypeOK, Phases, Op, Skip, Written
<1>3. PlanInv
  BY <1>1 DEF Init, PlanInv, PlannedBeforeTouched, Selecting, Running
<1>4. OpsInv
  BY DEF Init, OpsInv, Skip
<1>5. DriveInv
  BY <1>1 DEF Init, DriveInv, Planning, Running, Kept
<1>6. WrittenInv
  <2>1. Len(written) = 0
    BY DEF Init
  <2>2. \A x \in Streams : ops[x].what = "skip"
    BY DEF Init, Skip
  <2> QED
    BY <2>1, <2>2 DEF WrittenInv
<1> QED
  BY <1>2, <1>3, <1>4, <1>5, <1>6 DEF IInv

\* What the induction hypothesis says of the streams of a job.
LEMMA Known ==
    ASSUME IInv, UNCHANGED job
    PROVE  /\ job \in Jobs /\ Inputs' = Inputs /\ Streams' = Streams /\ Kept' = Kept
           /\ HasOverlay' = HasOverlay /\ Kept \subseteq Streams
           /\ Len(Inputs) \in Nat \ {0} /\ HasOverlay \in BOOLEAN /\ MaxPackets \in Nat
  BY SameJob, JobTyped, JobAssumption DEF IInv, TypeOK, Kept

\* Phases pass, the plan and the packets stay.
LEMMA PhasePasses ==
    ASSUME IInv,
           OpenInput \/ PlanDone \/ CreateSink \/ WriteHeader \/ EndOfInput
               \/ WriteTrailer \/ Fail \/ UNCHANGED vars
    PROVE  IInv'
<1>1. UNCHANGED <<job, selection, planned, ops, cur, read, held, written>>
  BY DEF OpenInput, PlanDone, CreateSink, WriteHeader, EndOfInput, WriteTrailer, Fail,
         vars, planVars, driveVars
<1>2. /\ job \in Jobs /\ Inputs' = Inputs /\ Streams' = Streams /\ Kept' = Kept
      /\ HasOverlay' = HasOverlay /\ Len(Inputs) \in Nat \ {0}
  BY <1>1, Known
<1>3. TypeOK'
  <2>1. /\ phase' \in Phases /\ opened' \in 0..Len(Inputs)
        /\ sink' \in {"untouched", "created", "headed", "finished"} /\ flushed' \in Nat
    BY <1>2 DEF OpenInput, PlanDone, CreateSink, WriteHeader, EndOfInput, WriteTrailer, Fail,
                vars, planVars, driveVars, IInv, TypeOK, PlanInv, Phases
  <2> QED
    BY <1>1, <1>2, <2>1 DEF IInv, TypeOK, Written
<1>4. PlanInv'
  <2>1. HasCarrier' = HasCarrier
    BY <1>1, <1>2 DEF HasCarrier
  <2>2. PlannedBeforeTouched <=>
            (sink # "untouched" => /\ opened = Len(Inputs) /\ selection # <<>>
                                   /\ planned = Len(selection) /\ (HasOverlay => HasCarrier))
    BY DEF PlannedBeforeTouched, HasCarrier
  <2>3. PlannedBeforeTouched' <=>
            (sink' # "untouched" => /\ opened' = Len(Inputs) /\ selection # <<>>
                                    /\ planned = Len(selection) /\ (HasOverlay => HasCarrier))
    BY <1>1, <1>2, <2>1 DEF PlannedBeforeTouched, HasCarrier
  <2>4. opened \in 0..Len(Inputs)
    BY DEF IInv, TypeOK
  <2> QED
    BY <1>1, <1>2, <2>1, <2>2, <2>3, <2>4
       DEF OpenInput, PlanDone, CreateSink, WriteHeader, EndOfInput, WriteTrailer, Fail,
           vars, planVars, driveVars, IInv, PlanInv, Selecting, Running
<1>5. DriveInv'
  <2>1. \A x \in Streams : x[1] \in 1..Len(Inputs) /\ x[2] \in 1..Len(Inputs[x[1]])
    BY <1>2, StreamPlaces
  <2>2. \A x \in Streams : x[2] \in Nat \ {0}
    BY <1>2, <2>1, JobTyped
  <2>3. cur \in 1..Len(Inputs) /\ Len(Inputs[cur]) \in Nat
    BY <1>2, JobTyped DEF IInv, TypeOK
  <2> QED
    BY <1>1, <1>2, <2>2, <2>3
       DEF OpenInput, PlanDone, CreateSink, WriteHeader, EndOfInput, WriteTrailer, Fail,
           vars, planVars, driveVars, IInv, DriveInv, Planning, Running
<1> QED
  BY <1>1, <1>3, <1>4, <1>5, OpsStay, WrittenStays DEF IInv

\* The selection is made of kept streams; none has an operation yet.
LEMMA SelectOK == ASSUME IInv, Select PROVE IInv'
<1>1. UNCHANGED <<job, opened, planned, ops, sink, cur, flushed, read, held, written>>
  BY DEF Select, driveVars
<1>2. /\ job \in Jobs /\ Inputs' = Inputs /\ Streams' = Streams /\ Kept' = Kept
      /\ HasOverlay' = HasOverlay /\ Kept \subseteq Streams
  BY <1>1, Known
<1>3. selection' \in Seq(Kept) /\ selection' # <<>>
  BY <1>2, SelectionTyped DEF Select
<1>4. phase = "select" /\ phase' = "plan"
  BY DEF Select, PlanPhase
<1>5. selection = <<>> /\ planned = 0
  BY <1>4 DEF IInv, TypeOK, PlanInv, Selecting
<1>6. TypeOK'
  <2>1. selection' \in Seq(Streams) /\ 0 \in 0..Len(selection')
    BY <1>2, <1>3
  <2> QED
    BY <1>1, <1>2, <1>4, <1>5, <2>1 DEF IInv, TypeOK, Phases, Written
<1>7. PlanInv'
  BY <1>1, <1>2, <1>3, <1>4 DEF IInv, PlanInv, PlannedBeforeTouched, Selecting, Running
<1>8. OpsInv'
  <2>1. \A k \in 1..Len(selection') : selection'[k] \in Kept
    BY <1>3
  <2>2. \A x \in Streams : ops[x].what = "skip"
    BY <1>5 DEF IInv, OpsInv
  <2> QED
    BY <1>1, <1>2, <1>5, <2>1, <2>2 DEF OpsInv
<1>9. DriveInv'
  BY <1>1, <1>2, <1>4 DEF IInv, DriveInv, Planning, Running
<1> QED
  BY <1>1, <1>6, <1>7, <1>8, <1>9, WrittenStays DEF IInv

\* The next selected stream gets its operation, in place of one it may have.
LEMMA BuildOpOK == ASSUME IInv, BuildOp PROVE IInv'
<1> DEFINE x == selection[planned + 1]
<1>1. UNCHANGED <<job, phase, opened, selection, sink, cur, flushed, read, held, written>>
  BY DEF BuildOp, driveVars
<1>2. /\ job \in Jobs /\ Inputs' = Inputs /\ Streams' = Streams /\ Kept' = Kept
      /\ HasOverlay' = HasOverlay /\ Kept \subseteq Streams
  BY <1>1, Known
<1>3. planned \in Nat /\ Len(selection) \in Nat /\ planned < Len(selection)
  BY DEF BuildOp, IInv, TypeOK
<1>4. x \in Streams
  BY <1>3 DEF IInv, TypeOK
<1>5. /\ ops \in [Streams -> Op] /\ ops' \in [Streams -> Op]
      /\ ops'[x].what # "skip" /\ ops'[x].out = planned + 1
      /\ \A y \in Streams : y # x => ops'[y] = ops[y]
      /\ planned' = planned + 1
  BY SMTT(30), <1>3, <1>4 DEF BuildOp, OutIndex, IInv, TypeOK, Op
<1> HIDE DEF x
<1>6. TypeOK'
  BY SMTT(30), <1>1, <1>2, <1>3, <1>5 DEF IInv, TypeOK, Written
<1>7. PlanInv'
  <2>1. phase = "plan"
    BY DEF BuildOp
  <2> QED
    BY <1>1, <1>2, <2>1 DEF IInv, PlanInv, PlannedBeforeTouched, Selecting, Running
<1>8. OpsInv'
  <2>1. ASSUME NEW y \in Streams, ops'[y].what # "skip"
        PROVE  ops'[y].out \in 1..planned' /\ selection[ops'[y].out] = y
    <3>1. CASE y = x
      BY <1>3, <1>5, <3>1 DEF x
    <3>2. CASE y # x
      BY <1>3, <1>5, <2>1, <3>2 DEF IInv, OpsInv
    <3> QED
      BY <3>1, <3>2
  <2>2. ASSUME NEW k \in 1..planned'
        PROVE  ops'[selection[k]].what # "skip" /\ k <= ops'[selection[k]].out
    <3>1. CASE selection[k] = x
      BY <1>3, <1>5, <3>1
    <3>2. CASE selection[k] # x
      <4>1. k \in 1..planned
        BY <1>3, <1>5, <3>2 DEF x
      <4>2. selection[k] \in Streams
        BY <1>3, <4>1 DEF IInv, TypeOK
      <4> QED
        BY <1>5, <3>2, <4>1, <4>2 DEF IInv, OpsInv
    <3> QED
      BY <3>1, <3>2
  <2>3. \A k \in 1..Len(selection) : selection[k] \in Kept
    BY DEF IInv, OpsInv
  <2> QED
    BY <1>1, <1>2, <2>1, <2>2, <2>3 DEF OpsInv
<1>9. phase' \in Planning /\ phase' \notin Running /\ phase \in Planning
  BY <1>1 DEF BuildOp, Planning, Running
<1>10. DriveInv'
  BY <1>1, <1>2, <1>9 DEF IInv, DriveInv, Planning, Running
<1> QED
  BY <1>6, <1>7, <1>8, <1>9, <1>10, NothingWritten DEF IInv

\* The carrier is there, and only packets of the overlay input are read.
LEMMA DecodeOverlayOK == ASSUME IInv, DecodeOverlay PROVE IInv'
<1>1. UNCHANGED <<job, opened, selection, planned, ops, sink, cur, flushed, held, written>>
  BY DEF DecodeOverlay, planVars
<1>2. /\ job \in Jobs /\ Inputs' = Inputs /\ Streams' = Streams /\ Kept' = Kept
      /\ HasOverlay' = HasOverlay /\ Kept \subseteq Streams /\ MaxPackets \in Nat
  BY <1>1, Known
<1>3. phase = "overlay" /\ phase' = "sink" /\ read' \in [Streams -> 0..MaxPackets]
  BY DEF DecodeOverlay
<1>4. TypeOK'
  BY <1>1, <1>2, <1>3 DEF IInv, TypeOK, Phases, Written
<1>5. PlanInv'
  <2>1. HasCarrier'
    BY <1>1, <1>2 DEF DecodeOverlay, HasCarrier
  <2> QED
    BY <1>1, <1>2, <1>3, <2>1 DEF IInv, PlanInv, PlannedBeforeTouched, Selecting, Running
<1>6. OpsInv'
  BY <1>1, OpsStay DEF IInv
<1>7. phase' \in Planning /\ phase \in Planning
  BY <1>3 DEF Planning
<1>8. DriveInv'
  <2>1. \A x \in Kept : read'[x] = read[x]
    BY <1>3 DEF DecodeOverlay, Kept
  <2>2. \A x \in Kept : read'[x] = 0
    BY <1>7, <2>1 DEF IInv, DriveInv
  <2>3. written = <<>> /\ \A x \in Streams : held[x] = 0
    BY <1>7 DEF IInv, DriveInv
  <2>4. \A x \in Streams : held'[x] <= read'[x]
    BY <1>1, <1>2, <1>3, <2>3
  <2> QED
    BY <1>1, <1>2, <1>3, <2>2, <2>3, <2>4 DEF DriveInv, Running
<1> QED
  BY <1>4, <1>5, <1>6, <1>7, <1>8, NothingWritten DEF IInv

\* After the last stream of an input, nothing of it is held.
LEMMA NextInputOK == ASSUME IInv, NextInput PROVE IInv'
<1>1. UNCHANGED <<job, opened, selection, planned, ops, sink, flushed, read, held, written>>
  BY DEF NextInput, planVars
<1>2. /\ job \in Jobs /\ Inputs' = Inputs /\ Streams' = Streams /\ Kept' = Kept
      /\ HasOverlay' = HasOverlay /\ Len(Inputs) \in Nat \ {0} /\ cur \in 1..Len(Inputs)
  BY <1>1, Known DEF IInv, TypeOK
<1>3. /\ phase = "flush" /\ cur' \in 1..Len(Inputs)
      /\ phase' \in {"read", "trailer"}
      /\ phase' = "read" => cur' = cur + 1
      /\ phase' = "trailer" => cur' = cur /\ cur = Len(Inputs)
  BY <1>2 DEF NextInput, NextCur, AfterFlush
<1>4. \A x \in Streams : x[1] <= cur => held[x] = 0
  <2>1. \A x \in Streams : x[1] \in 1..Len(Inputs) /\ x[2] \in 1..Len(Inputs[x[1]])
    BY <1>2, StreamPlaces
  <2>2. flushed = Len(Inputs[cur])
    BY DEF NextInput
  <2>3. \A x \in Streams : x[1] < cur => held[x] = 0
    BY <1>3 DEF IInv, DriveInv, Running
  <2>4. \A x \in Streams : x[1] = cur => held[x] = 0
    BY <1>3, <2>1, <2>2 DEF IInv, DriveInv
  <2> QED
    BY <1>2, <2>1, <2>3, <2>4
<1>5. TypeOK'
  BY <1>1, <1>2, <1>3 DEF IInv, TypeOK, Phases, Written
<1>6. PlanInv'
  <2>1. HasCarrier' = HasCarrier
    BY <1>1, <1>2 DEF HasCarrier
  <2> QED
    BY <1>1, <1>2, <1>3, <2>1 DEF IInv, PlanInv, PlannedBeforeTouched, Selecting, Running
<1>7. DriveInv'
  <2>1. \A x \in Streams : x[1] \in 1..Len(Inputs)
    BY <1>2, StreamPlaces
  <2>2. phase' \notin Planning /\ phase' # "flush" /\ phase \notin Planning
    BY <1>3 DEF Planning
  <2>3. \A x \in Streams : x[1] < cur' => held[x] = 0
    BY <1>2, <1>3, <1>4, <2>1
  <2>4. phase' \in {"trailer", "done"} => \A x \in Streams : held[x] = 0
    BY <1>2, <1>3, <1>4, <2>1
  <2>5. \A x \in Streams : held[x] <= read[x] /\ (ops[x].what # "transcode" => held[x] = 0)
    BY DEF IInv, DriveInv
  <2> QED
    BY <1>1, <1>2, <2>2, <2>3, <2>4, <2>5 DEF DriveInv
<1> QED
  BY <1>1, <1>5, <1>6, <1>7, OpsStay, WrittenStays DEF IInv

-----------------------------------------------------------------------------
(* Packets are let go *)

\* Release(x, total, pending, k) is k packets of stream x, numbered on from the
\* last one that was let go.
LEMMA ReleaseTyped ==
    ASSUME IInv, NEW x \in Streams, NEW total \in Nat, NEW pending \in 0..total,
           NEW k \in 0..pending
    PROVE  /\ Release(x, total, pending, k) \in Seq(Written)
           /\ Len(Release(x, total, pending, k)) = k
           /\ \A j \in 1..k : Release(x, total, pending, k)[j] =
                  [out |-> ops[x].out, from |-> x, n |-> total - pending + j]
<1>1. ops[x].out \in Nat
  BY DEF IInv, TypeOK, Op
<1>2. \A j \in 1..k : total - pending + j \in Nat
  OBVIOUS
<1> QED
  BY <1>1, <1>2 DEF Release, Written

\* The packets that a step adds, and those that were there.
LEMMA Appended ==
    ASSUME IInv, NEW x \in Streams, NEW total \in Nat, NEW pending \in 0..total,
           NEW k \in 0..pending, written' = written \o Release(x, total, pending, k)
    PROVE  /\ written' \in Seq(Written)
           /\ Len(written) \in Nat /\ Len(written') = Len(written) + k
           /\ \A i \in 1..Len(written) : written'[i] = written[i]
           /\ \A i \in (Len(written) + 1)..Len(written') :
                 written'[i] = [out |-> ops[x].out, from |-> x,
                                n |-> total - pending + (i - Len(written))]
<1> DEFINE r == Release(x, total, pending, k)
<1>1. written \in Seq(Written)
  BY DEF IInv, TypeOK
<1>2. r \in Seq(Written) /\ Len(r) = k
  BY ReleaseTyped
<1>3. \A j \in 1..k : r[j] = [out |-> ops[x].out, from |-> x, n |-> total - pending + j]
  BY ReleaseTyped
<1>4. written' = written \o r
  OBVIOUS
<1> HIDE DEF r
<1>5. /\ written \o r \in Seq(Written) /\ Len(written \o r) = Len(written) + Len(r)
      /\ \A i \in 1..Len(written) : (written \o r)[i] = written[i]
      /\ \A i \in (Len(written) + 1)..(Len(written) + Len(r)) :
            (written \o r)[i] = r[i - Len(written)]
  BY <1>1, <1>2, ConcatParts
<1>6. Len(written) \in Nat
  BY <1>1
<1>7. ASSUME NEW i \in (Len(written) + 1)..Len(written')
      PROVE  written'[i] = r[i - Len(written)] /\ i - Len(written) \in 1..k
  BY <1>2, <1>4, <1>5, <1>6
<1>8. ASSUME NEW i \in (Len(written) + 1)..Len(written')
      PROVE  written'[i] = [out |-> ops[x].out, from |-> x,
                            n |-> total - pending + (i - Len(written))]
  BY <1>3, <1>7
<1> QED
  BY <1>2, <1>4, <1>5, <1>6, <1>8

\* An operation lets go of k of its pending packets: what is written stays the
\* packets that have gone, in order.
LEMMA LetsGo ==
    ASSUME IInv, NEW x \in Streams, NEW total \in Nat, NEW pending \in 0..total,
           NEW k \in 0..pending, UNCHANGED <<job, ops>>,
           ops[x].what = "skip" => k = 0,
           ops[x].what # "skip" => total - pending = Gone(x),
           read' = [read EXCEPT ![x] = total], held' = [held EXCEPT ![x] = pending - k],
           written' = written \o Release(x, total, pending, k)
    PROVE  WrittenInv'
<1>1. /\ Streams' = Streams
      /\ read \in [Streams -> 0..MaxPackets] /\ held \in [Streams -> 0..MaxPackets]
  BY Known DEF IInv, TypeOK
<1> DEFINE gone == [y \in Streams |-> read'[y] - held'[y]]
<1>2. /\ gone[x] = total - pending + k
      /\ \A y \in Streams : y # x => gone[y] = Gone(y)
      /\ \A y \in Streams : Gone(y)' = gone[y]
  BY <1>1 DEF Gone
<1> HIDE DEF gone
<1>3. \A y \in Streams : Gone(y) \in Int
  BY <1>1, JobAssumption DEF Gone
<1>4. \A y \in Streams : ops[y].what # "skip" => gone[y] >= Gone(y) /\ gone[y] \in Int
  BY <1>2, <1>3
<1> DEFINE old == 1..Len(written)
           new == (Len(written) + 1)..Len(written')
<1>5. /\ Len(written) \in Nat /\ Len(written') = Len(written) + k
      /\ \A i \in old : written'[i] = written[i]
      /\ \A i \in new : /\ written'[i].out = ops[x].out /\ written'[i].from = x
                        /\ written'[i].n = total - pending + (i - Len(written))
  <2>1. /\ Len(written) \in Nat /\ Len(written') = Len(written) + k
        /\ \A i \in 1..Len(written) : written'[i] = written[i]
        /\ \A i \in (Len(written) + 1)..Len(written') :
              written'[i] = [out |-> ops[x].out, from |-> x,
                             n |-> total - pending + (i - Len(written))]
    BY Appended
  <2>2. ASSUME NEW i \in new
        PROVE  /\ written'[i].out = ops[x].out /\ written'[i].from = x
               /\ written'[i].n = total - pending + (i - Len(written))
    <3>1. written'[i] = [out |-> ops[x].out, from |-> x,
                         n |-> total - pending + (i - Len(written))]
      BY <2>1
    <3> QED
      BY <3>1
  <2> QED
    BY <2>1, <2>2
<1>6. \A i \in 1..Len(written') : i \in old \/ i \in new
  BY <1>5
<1>7. \A i \in old : written[i].from \in Streams /\ written[i].n \in Nat
  <2>1. written \in Seq(Written)
    BY DEF IInv, TypeOK
  <2>2. \A i \in old : written[i] \in Written
    BY <2>1
  <2> QED
    BY <2>2 DEF Written
<1>8. \A i \in old : /\ ops[written[i].from].what # "skip"
                     /\ ops[written[i].from].out = written[i].out
                     /\ written[i].n \in 1..Gone(written[i].from)
  BY DEF IInv, WrittenInv
<1>9. k > 0 => ops[x].what # "skip"
  OBVIOUS
<1>10. \A i \in new : k > 0
  BY <1>5
<1>11. ASSUME NEW i \in 1..Len(written')
       PROVE  /\ ops[written'[i].from].what # "skip"
              /\ ops[written'[i].from].out = written'[i].out
              /\ written'[i].n \in 1..gone[written'[i].from]
  <2>1. CASE i \in old
    <3>1. gone[written[i].from] >= Gone(written[i].from) /\ gone[written[i].from] \in Int
      BY <1>4, <1>7, <1>8, <2>1
    <3> QED
      BY <1>3, <1>5, <1>7, <1>8, <2>1, <3>1
  <2>2. CASE i \in new
    <3>1. total - pending + (i - Len(written)) \in 1..(total - pending + k)
      BY <1>5, <2>2
    <3> QED
      BY <1>2, <1>5, <1>9, <1>10, <2>2, <3>1
  <2> QED
    BY <1>6, <2>1, <2>2
<1>12. ASSUME NEW i \in 1..Len(written'), NEW j \in 1..Len(written'), i < j,
              written'[i].from = written'[j].from
       PROVE  written'[i].n < written'[j].n
  <2>1. CASE i \in old /\ j \in old
    BY <1>5, <1>12, <2>1 DEF IInv, WrittenInv
  <2>2. CASE i \in old /\ j \in new
    <3>1. written[i].from = x /\ written[i].n \in 1..Gone(x)
      BY <1>5, <1>8, <1>12, <2>2
    <3>2. Gone(x) = total - pending
      BY <1>9, <1>10, <2>2
    <3> QED
      BY <1>5, <2>2, <3>1, <3>2
  <2>3. CASE i \in new /\ j \in new
    BY <1>5, <1>12, <2>3
  <2> QED
    BY <1>5, <1>6, <1>12, <2>1, <2>2, <2>3
<1>13. ASSUME NEW y \in Streams, ops[y].what # "skip", NEW n \in 1..gone[y]
       PROVE  \E i \in 1..Len(written') : written'[i].from = y /\ written'[i].n = n
  <2>1. CASE n \in 1..Gone(y)
    <3>1. PICK i \in old : written[i].from = y /\ written[i].n = n
      BY <1>13, <2>1 DEF IInv, WrittenInv
    <3> QED
      BY <1>5, <3>1
  <2>2. CASE n \notin 1..Gone(y)
    <3>1. y = x /\ n > total - pending /\ n <= total - pending + k
      BY <1>2, <1>3, <1>13, <2>2
    <3> DEFINE i == Len(written) + (n - (total - pending))
    <3>2. i \in new /\ i \in 1..Len(written') /\ n = total - pending + (i - Len(written))
      BY <1>5, <3>1
    <3>3. written'[i].from = x /\ written'[i].n = n
      BY <1>5, <3>2
    <3> QED
      BY <3>1, <3>2, <3>3
  <2> QED
    BY <2>1, <2>2
<1> QED
  <2>1. \A i \in 1..Len(written') : written'[i].from \in Streams
    BY <1>5, <1>6, <1>7 DEF old, new
  <2> HIDE DEF old, new
  <2>2. \A y \in Streams : read'[y] - held'[y] = gone[y]
    BY DEF gone
  <2>3. \A i \in 1..Len(written') :
            /\ ops'[written'[i].from].what # "skip"
            /\ ops'[written'[i].from].out = written'[i].out
            /\ written'[i].n \in 1..(read'[written'[i].from] - held'[written'[i].from])
    BY <1>11, <2>1, <2>2
  <2>4. ASSUME NEW y \in Streams', ops'[y].what # "skip",
               NEW n \in 1..(read'[y] - held'[y])
        PROVE  \E i \in 1..Len(written') : written'[i].from = y /\ written'[i].n = n
    <3>1. y \in Streams /\ ops[y].what # "skip"
      BY <1>1, <2>4
    <3>2. n \in 1..gone[y]
      BY <2>2, <3>1
    <3> QED
      BY <1>13, <3>1, <3>2
  <2>5. \A i, j \in 1..Len(written') :
            i < j /\ written'[i].from = written'[j].from => written'[i].n < written'[j].n
    BY <1>12
  <2> QED
    BY <2>3, <2>4, <2>5 DEF WrittenInv, Gone

\* read_packet and process_packet, for a stream with or without an operation.
LEMMA ReadPacketOK ==
    ASSUME IInv, NEW x \in Streams, ReadPacket(x)
    PROVE  IInv'
<1>1. UNCHANGED <<job, opened, selection, planned, ops, phase, sink, cur, flushed>>
  BY DEF ReadPacket, planVars
<1>2. /\ job \in Jobs /\ Inputs' = Inputs /\ Streams' = Streams /\ Kept' = Kept
      /\ HasOverlay' = HasOverlay /\ MaxPackets \in Nat
  BY <1>1, Known
<1>3. /\ read \in [Streams -> 0..MaxPackets] /\ held \in [Streams -> 0..MaxPackets]
      /\ ops \in [Streams -> Op] /\ phase = "read"
      /\ held[x] <= read[x] /\ read[x] < MaxPackets /\ x[1] = cur
      /\ ops[x].what # "transcode" => held[x] = 0
  BY DEF IInv, TypeOK, DriveInv, ReadPacket
<1> DEFINE total == read[x] + 1
           pending == IF ops[x].what = "skip" THEN 0 ELSE held[x] + 1
<1>4. total \in Nat /\ pending \in 0..total /\ total <= MaxPackets
  BY <1>2, <1>3
<1>5. PICK k \in MayRelease(x, pending) :
          /\ written' = written \o Release(x, total, pending, k)
          /\ held' = [held EXCEPT ![x] = pending - k]
          /\ read' = [read EXCEPT ![x] = total]
  BY DEF ReadPacket
<1>6. /\ k \in 0..pending /\ (ops[x].what = "skip" => k = 0)
      /\ ops[x].what # "transcode" => pending - k = 0
  <2>1. ops[x].what \in {"skip", "copy", "transcode"}
    BY <1>3 DEF Op
  <2> QED
    BY <1>4, <2>1 DEF MayRelease
<1>7. ops[x].what # "skip" => total - pending = Gone(x)
  BY <1>3 DEF Gone
<1>8. pending - k \in 0..total
  BY <1>4, <1>6
<1> HIDE DEF total, pending
<1>9. /\ held' \in [Streams -> 0..MaxPackets] /\ read' \in [Streams -> 0..MaxPackets]
      /\ held'[x] = pending - k /\ read'[x] = total
      /\ \A y \in Streams : y # x => held'[y] = held[y] /\ read'[y] = read[y]
  BY <1>2, <1>3, <1>4, <1>5, <1>8
<1>10. TypeOK'
  <2>1. written' \in Seq(Written)
    BY <1>4, <1>5, <1>6, Appended
  <2> QED
    BY <1>1, <1>2, <1>9, <2>1 DEF IInv, TypeOK, Written
<1>11. PlanInv'
  <2>1. HasCarrier' = HasCarrier
    BY <1>1, <1>2 DEF HasCarrier
  <2> QED
    BY <1>1, <1>2, <2>1 DEF IInv, PlanInv, PlannedBeforeTouched
<1>12. DriveInv'
  <2>1. \A y \in Streams : held'[y] <= read'[y]
    BY <1>4, <1>6, <1>8, <1>9 DEF IInv, DriveInv
  <2>2. \A y \in Streams : ops[y].what # "transcode" => held'[y] = 0
    BY <1>6, <1>9 DEF IInv, DriveInv
  <2>3. \A y \in Streams : y[1] < cur => held'[y] = 0
    <3>1. cur \in Nat
      BY <1>2, JobTyped DEF IInv, TypeOK
    <3> QED
      BY <1>3, <1>9, <3>1 DEF IInv, DriveInv, Running
  <2>4. phase' \notin Planning \cup {"flush", "trailer", "done"}
    BY <1>1, <1>3 DEF Planning
  <2> QED
    BY <1>1, <1>2, <2>1, <2>2, <2>3, <2>4 DEF DriveInv
<1>13. WrittenInv'
  BY <1>1, <1>4, <1>5, <1>6, <1>7, LetsGo
<1> QED
  BY <1>1, <1>10, <1>11, <1>12, <1>13, OpsStay DEF IInv

\* finish() of a transcoded stream gives up what is held; others hold nothing.
LEMMA FlushStreamOK == ASSUME IInv, FlushStream PROVE IInv'
<1> DEFINE x == <<cur, flushed + 1>>
           k == IF Finishes(x) THEN held[x] ELSE 0
<1>1. UNCHANGED <<job, opened, selection, planned, ops, phase, sink, cur, read>>
  BY DEF FlushStream, planVars
<1>2. /\ job \in Jobs /\ Inputs' = Inputs /\ Streams' = Streams /\ Kept' = Kept
      /\ HasOverlay' = HasOverlay /\ MaxPackets \in Nat
  BY <1>1, Known
<1>3. /\ cur \in 1..Len(Inputs) /\ flushed \in Nat /\ flushed < Len(Inputs[cur])
      /\ Len(Inputs[cur]) \in Nat /\ Len(Inputs) \in Nat
      /\ flushed' = flushed + 1 /\ phase = "flush"
  BY <1>2, JobTyped DEF IInv, TypeOK, FlushStream
<1>4. x \in Streams
  <2>1. flushed + 1 \in 1..Len(Inputs[cur])
    BY <1>3
  <2> QED
    BY <1>2, <1>3, <2>1, StreamPlaces
<1>5. /\ read \in [Streams -> 0..MaxPackets] /\ held \in [Streams -> 0..MaxPackets]
      /\ held[x] <= read[x] /\ (ops[x].what # "transcode" => held[x] = 0)
  BY <1>4 DEF IInv, TypeOK, DriveInv
<1>6. /\ k = held[x] /\ k \in 0..held[x] /\ (ops[x].what = "skip" => k = 0)
      /\ held[x] \in 0..read[x] /\ read[x] \in Nat
  BY <1>2, <1>4, <1>5 DEF Finishes
<1>7. /\ written' = written \o Release(x, read[x], held[x], k)
      /\ held' = [held EXCEPT ![x] = held[x] - k]
      /\ read' = [read EXCEPT ![x] = read[x]]
  BY <1>4, <1>5 DEF FlushStream
<1>8. x[1] = cur /\ x[2] = flushed + 1
  OBVIOUS
<1> HIDE DEF x, k
<1>9. /\ held' \in [Streams -> 0..MaxPackets] /\ held'[x] = 0
      /\ \A y \in Streams : y # x => held'[y] = held[y]
  BY <1>2, <1>4, <1>5, <1>6, <1>7
<1>10. TypeOK'
  <2>1. written' \in Seq(Written)
    BY <1>4, <1>6, <1>7, Appended
  <2> QED
    BY <1>1, <1>2, <1>3, <1>9, <2>1 DEF IInv, TypeOK, Written
<1>11. PlanInv'
  <2>1. HasCarrier' = HasCarrier
    BY <1>1, <1>2 DEF HasCarrier
  <2> QED
    BY <1>1, <1>2, <2>1 DEF IInv, PlanInv, PlannedBeforeTouched
<1>12. DriveInv'
  <2>1. \A y \in Streams : held'[y] = held[y] \/ held'[y] = 0
    BY <1>9
  <2>2. \A y \in Streams : /\ held'[y] <= read[y]
                           /\ ops[y].what # "transcode" => held'[y] = 0
    BY <1>5, <1>9 DEF IInv, DriveInv
  <2>3. \A y \in Streams : y[1] < cur => held'[y] = 0
    BY <1>3, <2>1 DEF IInv, DriveInv, Running
  <2>4. ASSUME NEW y \in Streams, y[1] = cur, y[2] <= flushed + 1 PROVE held'[y] = 0
    <3>1. y = <<y[1], y[2]>> /\ y[2] \in Nat
      BY <1>2, <1>3, <2>4, StreamPlaces
    <3>2. CASE y[2] = flushed + 1
      BY <1>9, <2>4, <3>1, <3>2 DEF x
    <3>3. CASE y[2] # flushed + 1
      <4>1. held[y] = 0
        BY <1>3, <2>4, <3>1, <3>3 DEF IInv, DriveInv
      <4> QED
        BY <2>1, <4>1
    <3> QED
      BY <3>2, <3>3
  <2>5. phase' \notin Planning \cup {"trailer", "done"} /\ flushed' <= Len(Inputs[cur])
    BY <1>1, <1>3 DEF Planning
  <2> QED
    BY <1>1, <1>2, <1>3, <2>2, <2>3, <2>4, <2>5 DEF DriveInv
<1>13. WrittenInv'
  <2>1. read[x] - held[x] = Gone(x)
    BY DEF Gone
  <2> QED
    BY <1>1, <1>4, <1>6, <1>7, <2>1, LetsGo
<1> QED
  BY <1>1, <1>10, <1>11, <1>12, <1>13, OpsStay DEF IInv

\* Every packet written is one that its stream's operation let go, in the output
\* that the stream was selected for.
LEMMA PacketWritten ==
    ASSUME IInv, NEW i \in 1..Len(written)
    PROVE  /\ written[i].from \in Streams /\ ops[written[i].from].what # "skip"
           /\ ops[written[i].from].out = written[i].out
           /\ written[i].out \in 1..planned
           /\ selection[written[i].out] = written[i].from
           /\ written[i].n \in 1..Gone(written[i].from)
<1>1. written \in Seq(Written)
  BY DEF IInv, TypeOK
<1>2. written[i] \in Written
  BY <1>1
<1>3. written[i].from \in Streams
  BY <1>2 DEF Written
<1>4. /\ ops[written[i].from].what # "skip"
      /\ ops[written[i].from].out = written[i].out
      /\ written[i].n \in 1..Gone(written[i].from)
  BY DEF IInv, WrittenInv
<1>5. /\ written[i].out \in 1..planned
      /\ selection[written[i].out] = written[i].from
  BY <1>3, <1>4 DEF IInv, OpsInv
<1> QED
  BY <1>3, <1>4, <1>5

-----------------------------------------------------------------------------
(* The theorems *)

\* The invariant is inductive.
LEMMA Inductive == IInv /\ [Next]_vars => IInv'
<1> SUFFICES ASSUME IInv, [Next]_vars PROVE IInv'
  OBVIOUS
<1>1. CASE Select
  BY <1>1, SelectOK
<1>2. CASE BuildOp
  BY <1>2, BuildOpOK
<1>3. CASE DecodeOverlay
  BY <1>3, DecodeOverlayOK
<1>4. CASE \E x \in Streams : ReadPacket(x)
  BY <1>4, ReadPacketOK
<1>5. CASE FlushStream
  BY <1>5, FlushStreamOK
<1>6. CASE NextInput
  BY <1>6, NextInputOK
<1>7. CASE OpenInput \/ PlanDone \/ CreateSink \/ WriteHeader \/ EndOfInput
               \/ WriteTrailer \/ Fail \/ UNCHANGED vars
  BY <1>7, PhasePasses
<1> QED
  BY <1>1, <1>2, <1>3, <1>4, <1>5, <1>6, <1>7 DEF Next

\* It holds of every job.
LEMMA Invariance == Spec => []IInv
<1>1. Init => IInv
  BY InitOK
<1>2. IInv /\ [Next]_vars => IInv'
  BY Inductive
<1> QED
  BY <1>1, <1>2, PTL DEF Spec

\* Every variable keeps its type (Transcode, TypeOK).
THEOREM TypeCorrect == Spec => []TypeOK
<1>1. IInv => TypeOK
  BY DEF IInv
<1> QED
  BY <1>1, Invariance, PTL

\* The output is only created when every input is open, every selected stream
\* has its operation and the overlay its carrier ("failures are reported before
\* any output file is touched", transcode.rs, run).
THEOREM PlansFirst == Spec => []PlannedBeforeTouched
<1>1. IInv => PlannedBeforeTouched
  BY DEF IInv, PlanInv
<1> QED
  BY <1>1, Invariance, PTL

\* Every packet in output stream k is one of the k-th selected stream, which is
\* not one of the overlay input (transcode.rs, process_packet).
THEOREM RoutesAsSelected == Spec => []RoutedAsSelected
<1>1. IInv => RoutedAsSelected
  <2> SUFFICES ASSUME IInv, NEW i \in 1..Len(written)
               PROVE  /\ written[i].out \in 1..Len(selection)
                      /\ selection[written[i].out] = written[i].from
                      /\ written[i].from[1] # OverlayInput
    BY DEF RoutedAsSelected
  <2>1. written[i].out \in 1..planned /\ selection[written[i].out] = written[i].from
    BY PacketWritten
  <2>2. written[i].out \in 1..Len(selection)
    BY <2>1 DEF IInv, TypeOK
  <2>3. written[i].from \in Kept
    BY <2>1, <2>2 DEF IInv, OpsInv
  <2> QED
    BY <2>1, <2>2, <2>3 DEF Kept
<1> QED
  BY <1>1, Invariance, PTL

\* When a job has succeeded, each output stream has every packet of its selected
\* stream, once and in order; one whose stream is named again later has none
\* (transcode.rs, select_streams and flush_streams).
THEOREM ServesEveryOutput == Spec => []EveryOutputServed
<1>1. ASSUME IInv, NEW i \in 1..Len(written), NEW j \in 1..Len(written), i < j,
             written[i].out = written[j].out
      PROVE  written[i].n < written[j].n
  <2>1. written[i].from = written[j].from
    BY <1>1, PacketWritten
  <2> QED
    BY <1>1, <2>1 DEF IInv, WrittenInv
<1>2. ASSUME IInv, phase = "done", NEW k \in 1..Len(selection)
      PROVE  PacketsOf(k) = IF Superseded(k) THEN {} ELSE 1..read[selection[k]]
  <2>1. planned = Len(selection) /\ Len(selection) \in Nat /\ k \in 1..planned
    BY <1>2 DEF IInv, PlanInv, TypeOK, Selecting
  <2> DEFINE x == selection[k]
  <2>2. /\ x \in Streams /\ ops[x].what # "skip" /\ k <= ops[x].out
        /\ ops[x].out \in 1..planned /\ selection[ops[x].out] = x
    <3>1. x \in Streams
      BY <1>2 DEF IInv, TypeOK
    <3>2. ops[x].what # "skip" /\ k <= ops[x].out
      BY <1>2, <2>1 DEF IInv, OpsInv
    <3> QED
      BY <1>2, <3>1, <3>2 DEF IInv, OpsInv
  <2>3. Gone(x) = read[x] /\ read[x] \in Nat
    BY <1>2, <2>2, JobAssumption DEF IInv, DriveInv, TypeOK, Gone
  <2>4. CASE Superseded(k)
    <3>1. PICK j \in (k + 1)..Len(selection) : selection[j] = x
      BY <2>4 DEF Superseded
    <3>2. j <= ops[x].out
      BY <1>2, <2>1, <3>1 DEF IInv, OpsInv
    <3>3. \A i \in 1..Len(written) : written[i].out # k
      BY <1>2, <2>1, <2>2, <3>1, <3>2, PacketWritten
    <3> QED
      BY <2>4, <3>3 DEF PacketsOf
  <2>5. CASE ~Superseded(k)
    <3>1. ops[x].out = k
      BY <2>1, <2>2, <2>5 DEF Superseded
    <3>2. \A i \in 1..Len(written) : written[i].out = k => written[i].n \in 1..read[x]
      BY <1>2, <2>3, PacketWritten
    <3>3. ASSUME NEW n \in 1..read[x]
          PROVE  \E i \in 1..Len(written) : written[i].out = k /\ written[i].n = n
      <4>1. \A m \in 1..Gone(x) :
                \E i \in 1..Len(written) : written[i].from = x /\ written[i].n = m
        BY <1>2, <2>2 DEF IInv, WrittenInv
      <4>2. PICK i \in 1..Len(written) : written[i].from = x /\ written[i].n = n
        BY <2>3, <4>1
      <4>3. written[i].out = k
        BY <1>2, <3>1, <4>2, PacketWritten
      <4> QED
        BY <4>2, <4>3
    <3> QED
      BY <2>5, <3>2, <3>3 DEF PacketsOf
  <2> QED
    BY <2>4, <2>5
<1>3. IInv => EveryOutputServed
  BY <1>1, <1>2 DEF EveryOutputServed
<1> QED
  BY <1>3, Invariance, PTL

=============================================================================
