---------------------------- MODULE StreamOpProofs ----------------------------
(***************************************************************************)
(* Proofs about the streams of a job.                                      *)
(*                                                                         *)
(* First the transcode path, for every stream kind, trim window, frame     *)
(* rate, limit and bound.  IInv: what is in flight between encoder and     *)
(* muxer is what was accepted and not yet muxed, in order, with the        *)
(* timestamp queue beside it.  So each packet carries its own frame's      *)
(* timestamp and the stream implements StreamPipe.  LoopsNest, Identified: *)
(* where the loops stand and what the counters count.  On them rest        *)
(* WindowSoFar (what was accepted and is due is what the window keeps),    *)
(* SlotsSoFar (slots are given out in order) and ShownSoFar (each shows    *)
(* the latest frame).                                                      *)
(*                                                                         *)
(* Then the copies, for every set of windows.  CopyInv: a copy has started *)
(* when a keyframe of the window was sent, and what is muxed lists, in     *)
(* ascending order, the packets from there on that lie in the window.      *)
(* GopsAreClosed is what the demuxer's packets are.                        *)
(*                                                                         *)
(* Last, the first part holds of the streams of StreamOp.                  *)
(***************************************************************************)
EXTENDS StreamOp, SequenceFacts

\* The timestamp queue mirrors the frames inside the encoder.
QueueMirrors ==
    IsVideo => /\ Len(pendingPts) = Len(encBuf)
               /\ \A i \in 1..Len(encBuf) : pendingPts[i] = encBuf[i].pts

\* What was accepted is what was muxed followed by what the encoder holds.
Accounted == accepted = muxed \o encBuf

\* The last drain runs after the encoder was flushed, and empties it.
Flushed == stage = "end" => encEof
Drained == pc = "done" => encBuf = <<>>

IInv == TypeOK /\ QueueMirrors /\ Accounted /\ Flushed /\ Drained

-----------------------------------------------------------------------------
(* What the fields of the setup are, and that they stay. *)

LEMMA SetupTyped ==
    ASSUME setup \in Setups
    PROVE  /\ IsVideo \in BOOLEAN /\ Trimming \in BOOLEAN /\ Cfr \in BOOLEAN
           /\ Resamples \in BOOLEAN /\ Atrim \in BOOLEAN
           /\ Cfr => IsVideo
           /\ Resamples \/ Atrim => ~IsVideo
           /\ TrimStart \in Nat /\ TrimEnd \in Nat \cup {None}
           /\ SlotTicks \in Nat \ {0}
           /\ Limit \in Nat \cup {None}
BY SetupAssumption
   DEF IsVideo, Trimming, Cfr, Resamples, Atrim, TrimStart, TrimEnd, SlotTicks, Limit

LEMMA SetupFixed ==
    ASSUME UNCHANGED setup
    PROVE  UNCHANGED <<IsVideo, Trimming, TrimStart, TrimEnd, Cfr, SlotTicks, Limit,
                       Resamples, Atrim>>
BY DEF IsVideo, Trimming, TrimStart, TrimEnd, Cfr, SlotTicks, Limit, Resamples, Atrim

-----------------------------------------------------------------------------
(* The arithmetic of the CFR grid. *)

LEMMA QuotientReaches ==
    ASSUME NEW t \in Int, NEW k \in Nat, NEW S \in Nat \ {0}, t > k * S
    PROVE  (t - 1) \div S >= k
<1> DEFINE q == (t - 1) \div S
<1> DEFINE r == (t - 1) % S
<1>1. q \in Int /\ r \in 0..(S - 1) /\ t - 1 = S * q + r
  OBVIOUS
<1>2. SUFFICES ASSUME q < k PROVE FALSE
  BY <1>1
<1> HIDE DEF q, r
<1>3. k - q - 1 \in Nat
  BY <1>1, <1>2
<1>4. (k - q - 1) * S >= 0
  BY <1>3
<1>5. (k - q - 1) * S = k * S - S * q - S
  BY <1>1
<1>6. t - 1 >= k * S /\ k * S \in Int /\ S * q \in Int
  BY <1>1
<1> QED BY <1>1, <1>4, <1>5, <1>6

LEMMA SlotCount ==
    ASSUME NEW t \in Int, nextSlot \in Nat, setup \in Setups
    PROVE  SlotsBefore(t) \in Nat
<1>1. CASE t > nextSlot * SlotTicks
  <2>1. (t - 1) \div SlotTicks >= nextSlot /\ (t - 1) \div SlotTicks \in Int
    BY <1>1, QuotientReaches, SetupTyped
  <2> QED BY <1>1, <2>1 DEF SlotsBefore
<1>2. CASE ~(t > nextSlot * SlotTicks)
  BY <1>2 DEF SlotsBefore
<1> QED BY <1>1, <1>2

LEMMA FrameParts ==
    /\ \A f \in Frame : f.id \in Ids /\ f.pts \in Int \cup {None}
    /\ \A f \in Frame, p \in Int \cup {None} :
          /\ [f EXCEPT !.pts = p] \in Frame
          /\ [f EXCEPT !.pts = p].pts = p
          /\ [f EXCEPT !.pts = p].id = f.id
    /\ \A f, g \in Frame : f.id = g.id /\ f.pts = g.pts => f = g
    /\ NoFrame \in Frame
BY NumberAssumption DEF Frame, NoFrame, Ids

LEMMA TimesAreInts ==
    ASSUME TypeOK, NEW f \in Frame
    PROVE  /\ FrameTime(f) \in Int \cup {None}
           /\ Shifted(f) \in Frame
           /\ ShiftTicks \in Int
<1>1. ShiftTicks \in Int
  BY SetupTyped DEF ShiftTicks, TypeOK
<1>2. f.pts \in Int \cup {None}
  BY FrameParts
<1>3. FrameTime(f) \in Int \cup {None}
  BY <1>2 DEF TypeOK, FrameTime
<1>4. CASE f.pts = None
  BY <1>1, <1>3, <1>4 DEF Shifted
<1>5. CASE f.pts # None
  <2>1. f.pts - ShiftTicks \in Int
    BY <1>1, <1>2, <1>5
  <2>2. Shifted(f) = [f EXCEPT !.pts = f.pts - ShiftTicks]
    BY <1>5 DEF Shifted
  <2> QED BY <1>1, <1>3, <2>1, <2>2, FrameParts
<1> QED BY <1>4, <1>5

\* What the CFR stage leaves due is well-formed.
LEMMA DueTyped ==
    ASSUME TypeOK, NEW n \in Nat
    PROVE  [i \in 1..n |-> [last EXCEPT !.pts = nextSlot + i - 1]] \in Seq(Frame)
<1>1. \A i \in 1..n : [last EXCEPT !.pts = nextSlot + i - 1] \in Frame
  <2> TAKE i \in 1..n
  <2>1. nextSlot + i - 1 \in Int /\ last \in Frame
    BY DEF TypeOK
  <2> QED BY <2>1, FrameParts
<1> QED BY <1>1

-----------------------------------------------------------------------------
LEMMA InitInv == Init => IInv
<1> SUFFICES ASSUME Init PROVE IInv
  OBVIOUS
<1>1. <<>> \in Seq(Frame) /\ <<>> \in Seq(Int \cup {None})
  OBVIOUS
<1>2. TypeOK
  <2>1. setup \in Setups /\ read \in 0..MaxPackets /\ (Limit # None => 0 <= Limit)
    BY NumberAssumption, SetupTyped DEF Init
  <2>2. report \in [decoded : Nat, written : Nat] /\ last \in Frame
    BY FrameParts DEF Init
  <2> QED BY <1>1, <2>1, <2>2 DEF Init, TypeOK, Steps, Stages
<1>3. QueueMirrors /\ Accounted /\ Flushed /\ Drained
  BY DEF Init, QueueMirrors, Accounted, Flushed, Drained
<1> QED BY <1>2, <1>3 DEF IInv

\* The packet loop and the CFR bookkeeping do not touch the encoder's side.
LEMMA EncoderUntouched ==
    ASSUME IInv, UNCHANGED <<setup, encVars, outVars>>,
           stage' = "end" => stage = "end", pc' = "done" => FALSE
    PROVE  QueueMirrors' /\ Accounted' /\ Flushed' /\ Drained'
BY SetupFixed DEF IInv, encVars, outVars, QueueMirrors, Accounted, Flushed, Drained

LEMMA ReadPacketInv ==
    ASSUME IInv, NEW p \in (0..MaxPts) \cup {None}, ReadPacket(p)
    PROVE  IInv'
<1>1. [id |-> read + 1, pts |-> p] \in Frame
  BY NumberAssumption DEF IInv, TypeOK, ReadPacket, Frame, Ids
<1>2. TypeOK'
  BY <1>1, NumberAssumption, SetupFixed
     DEF IInv, TypeOK, ReadPacket, cfrVars, encVars, outVars, Steps
<1>3. UNCHANGED <<setup, encVars, outVars>> /\ stage' = stage /\ pc' # "done"
  BY DEF ReadPacket
<1> QED BY <1>2, <1>3, EncoderUntouched DEF IInv

LEMMA EndOfInputInv == IInv /\ EndOfInput => IInv'
<1> SUFFICES ASSUME IInv, EndOfInput PROVE IInv'
  OBVIOUS
<1>1. TypeOK'
  BY SetupFixed DEF IInv, TypeOK, EndOfInput, cfrVars, encVars, outVars, Steps, Stages
<1>2. UNCHANGED <<setup, encVars, outVars>> /\ stage' # "end" /\ pc' # "done"
  BY DEF EndOfInput
<1> QED BY <1>1, <1>2, EncoderUntouched DEF IInv

\* What NoteDecoded does to the decoder's side.
LEMMA NoteDecodedTyped ==
    ASSUME TypeOK, decBuf # <<>>, NoteDecoded
    PROVE  /\ decBuf' \in Seq(Frame) /\ decoded' \in Seq(Frame)
           /\ report' \in [decoded : Nat, written : Nat]
           /\ Head(decBuf) \in Frame
<1>1. Head(decBuf) \in Frame /\ Tail(decBuf) \in Seq(Frame)
  BY DEF TypeOK
<1>2. Append(decoded, Head(decBuf)) \in Seq(Frame)
  BY <1>1 DEF TypeOK
<1>3. report' \in [decoded : Nat, written : Nat]
  <2>1. report \in [decoded : Nat, written : Nat] /\ report.decoded + 1 \in Nat
    BY DEF TypeOK
  <2>2. report' = [report EXCEPT !.decoded = report.decoded + 1]
    BY DEF NoteDecoded
  <2> QED BY <2>1, <2>2
<1> QED BY <1>1, <1>2, <1>3 DEF NoteDecoded

LEMMA ClockTyped ==
    ASSUME TypeOK PROVE \A kept \in BOOLEAN : ClockAfter(kept) \in Nat
BY DEF TypeOK, ClockAfter

LEMMA DropFrameInv == IInv /\ DropFrame => IInv'
<1> SUFFICES ASSUME IInv, DropFrame PROVE IInv'
  OBVIOUS
<1>1. TypeOK /\ decBuf # <<>> /\ NoteDecoded /\ clock' = ClockAfter(FALSE)
  BY DEF IInv, DropFrame
<1>2. clock' \in Nat
  BY <1>1, ClockTyped
<1>3. TypeOK'
  BY <1>1, <1>2, NoteDecodedTyped, SetupFixed
     DEF TypeOK, DropFrame, cfrVars, encVars, outVars
<1>4. UNCHANGED <<setup, encVars, outVars>> /\ stage' = stage /\ pc' # "done"
  BY DEF DropFrame
<1> QED BY <1>3, <1>4, EncoderUntouched DEF IInv

LEMMA HandleFrameInv == IInv /\ HandleFrame => IInv'
<1> SUFFICES ASSUME IInv, HandleFrame PROVE IInv'
  OBVIOUS
<1> DEFINE f == Head(decBuf)
<1> DEFINE t == FrameTime(f)
<1>1. TypeOK /\ decBuf # <<>> /\ NoteDecoded /\ clock' = ClockAfter(TRUE)
  BY DEF IInv, HandleFrame
<1>2. f \in Frame
  BY <1>1, NoteDecodedTyped
<1>3. /\ NeedsTime => t # None
      /\ IF Cfr THEN Conform(Shifted(f), t - ShiftTicks)
         ELSE due' = <<Shifted(f)>> /\ UNCHANGED cfrVars
  BY DEF HandleFrame
<1> HIDE DEF f, t
<1>4. Shifted(f) \in Frame /\ FrameTime(f) \in Int \cup {None} /\ ShiftTicks \in Int
  BY <1>1, <1>2, TimesAreInts
<1>5. due' \in Seq(Frame) /\ nextSlot' \in Nat /\ last' \in Frame
  <2>1. CASE Cfr
    <3>1. t - ShiftTicks \in Int
      BY <1>3, <1>4, <2>1 DEF NeedsTime, t
    <3>2. Conform(Shifted(f), t - ShiftTicks)
      BY <1>3, <2>1
    <3> DEFINE n == IF last = NoFrame THEN 0 ELSE SlotsBefore(t - ShiftTicks)
    <3>3. n \in Nat
      BY <1>1, <3>1, SlotCount DEF TypeOK
    <3>4. /\ due' = [i \in 1..n |-> [last EXCEPT !.pts = nextSlot + i - 1]]
          /\ nextSlot' = nextSlot + n
          /\ last' = Shifted(f)
      BY <3>2 DEF Conform, InSlot
    <3> HIDE DEF n
    <3>5. due' \in Seq(Frame)
      BY <1>1, <3>3, <3>4, DueTyped
    <3>6. nextSlot' \in Nat
      BY <1>1, <3>3, <3>4 DEF TypeOK
    <3> QED BY <1>4, <3>4, <3>5, <3>6
  <2>2. CASE ~Cfr
    <3>1. due' = <<Shifted(f)>> /\ nextSlot' = nextSlot /\ last' = last
      BY <1>3, <2>2 DEF cfrVars
    <3>2. <<Shifted(f)>> \in Seq(Frame)
      BY <1>4
    <3> QED BY <1>1, <3>1, <3>2 DEF TypeOK
  <2> QED BY <2>1, <2>2
<1>6. clock' \in Nat
  BY <1>1, ClockTyped
<1>7. TypeOK'
  BY <1>1, <1>5, <1>6, NoteDecodedTyped, SetupFixed
     DEF TypeOK, HandleFrame, encVars, outVars, Steps
<1>8. UNCHANGED <<setup, encVars, outVars>> /\ stage' = stage /\ pc' # "done"
  BY DEF HandleFrame
<1> QED BY <1>7, <1>8, EncoderUntouched DEF IInv

LEMMA UntimedInv == IInv /\ Untimed => IInv'
<1> SUFFICES ASSUME IInv, Untimed PROVE IInv'
  OBVIOUS
<1>1. TypeOK /\ decBuf # <<>> /\ NoteDecoded
  BY DEF IInv, Untimed
<1>2. TypeOK'
  BY <1>1, NoteDecodedTyped, SetupFixed
     DEF TypeOK, Untimed, cfrVars, encVars, outVars, Steps
<1>3. UNCHANGED <<setup, encVars, outVars>> /\ stage' = stage /\ pc' # "done"
  BY DEF Untimed
<1> QED BY <1>2, <1>3, EncoderUntouched DEF IInv

LEMMA DecoderEmptyInv == IInv /\ DecoderEmpty => IInv'
<1> SUFFICES ASSUME IInv, DecoderEmpty PROVE IInv'
  OBVIOUS
<1>1. TypeOK'
  BY SetupFixed DEF IInv, TypeOK, DecoderEmpty, AfterDecoder, decVars, cfrVars, encVars,
         outVars, Steps
<1>2. UNCHANGED <<setup, encVars, outVars>> /\ stage' = stage /\ pc' # "done"
  BY DEF DecoderEmpty, AfterDecoder
<1> QED BY <1>1, <1>2, EncoderUntouched DEF IInv

-----------------------------------------------------------------------------
(* The steps around the encoder. *)

LEMMA EmitFrameInv == IInv /\ EmitFrame => IInv'
<1> SUFFICES ASSUME IInv, EmitFrame PROVE IInv'
  OBVIOUS
<1> DEFINE f == Head(due)
<1>1. f \in Frame /\ Tail(due) \in Seq(Frame)
  BY DEF IInv, TypeOK, EmitFrame
<1>2. /\ pendingPts' = IF IsVideo THEN Append(pendingPts, f.pts) ELSE pendingPts
      /\ encBuf' = Append(encBuf, f)
      /\ accepted' = Append(accepted, f)
      /\ muxed' = muxed /\ stage' = stage /\ pc' = "drain" /\ encEof' = encEof
      /\ UNCHANGED setup
  BY DEF EmitFrame, outVars
<1>3. f.pts \in Int \cup {None}
  BY <1>1, FrameParts
<1>4. videoSent' \in Nat /\ (Limit # None => videoSent' <= Limit)
  <2>1. Limit # None => Limit \in Nat
    BY SetupTyped DEF IInv, TypeOK
  <2>2. videoSent \in Nat /\ (Limit # None => videoSent <= Limit)
    BY DEF IInv, TypeOK
  <2>3. CASE IsVideo /\ Limit # None
    BY <2>1, <2>2, <2>3 DEF EmitFrame, UnderLimit
  <2>4. CASE ~(IsVideo /\ Limit # None)
    BY <2>2, <2>4 DEF EmitFrame
  <2> QED BY <2>3, <2>4
<1> HIDE DEF f
<1>5. TypeOK'
  <2>1. /\ UNCHANGED <<setup, stage, clock, report, encEof, decVars, cfrVars, outVars>>
        /\ due' = Tail(due)
    BY DEF EmitFrame
  <2>2. /\ pendingPts' \in Seq(Int \cup {None})
        /\ encBuf' \in Seq(Frame) /\ accepted' \in Seq(Frame)
    BY <1>1, <1>2, <1>3 DEF IInv, TypeOK
  <2>3. Limit' # None => videoSent' <= Limit'
    BY <1>2, <1>4, SetupFixed
  <2> QED BY <1>1, <1>2, <1>4, <2>1, <2>2, <2>3
          DEF IInv, TypeOK, decVars, cfrVars, outVars, Steps
<1>6. QueueMirrors'
  <2> SUFFICES ASSUME IsVideo PROVE QueueMirrors'
    BY <1>2, SetupFixed DEF QueueMirrors
  <2>1. Len(pendingPts') = Len(encBuf')
    BY <1>1, <1>2, <1>3 DEF IInv, TypeOK, QueueMirrors
  <2>2. ASSUME NEW i \in 1..Len(encBuf') PROVE pendingPts'[i] = encBuf'[i].pts
    <3>1. /\ encBuf \in Seq(Frame) /\ pendingPts \in Seq(Int \cup {None})
          /\ Len(pendingPts) = Len(encBuf)
          /\ \A j \in 1..Len(encBuf) : pendingPts[j] = encBuf[j].pts
      BY DEF IInv, TypeOK, QueueMirrors
    <3>2. /\ Len(encBuf') = Len(encBuf) + 1
          /\ \A j \in 1..Len(encBuf) : encBuf'[j] = encBuf[j]
          /\ encBuf'[Len(encBuf) + 1] = f
      BY <1>1, <1>2, <3>1, AppendProperties
    <3>3. /\ \A j \in 1..Len(pendingPts) : pendingPts'[j] = pendingPts[j]
          /\ pendingPts'[Len(pendingPts) + 1] = f.pts
      BY <1>2, <1>3, <3>1, AppendProperties
    <3> QED BY <3>1, <3>2, <3>3, LenProperties
  <2> QED BY <2>1, <2>2 DEF QueueMirrors
<1>7. Accounted'
  <2>1. muxed \in Seq(Frame) /\ encBuf \in Seq(Frame) /\ accepted = muxed \o encBuf
    BY DEF IInv, TypeOK, Accounted
  <2>2. \A e \in Frame : muxed \o Append(encBuf, e) = Append(muxed \o encBuf, e)
    BY <2>1, ConcatAppend
  <2>3. muxed' = muxed
    BY <1>2
  <2> QED BY <1>1, <1>2, <2>1, <2>2, <2>3 DEF Accounted
<1>8. Flushed' /\ Drained'
  BY <1>2 DEF IInv, Flushed, Drained
<1> QED BY <1>5, <1>6, <1>7, <1>8 DEF IInv

\* Frames dropped before the encoder, and the end of emit().
LEMMA DroppedInv == IInv /\ (FilterOut \/ OverLimit \/ EmittedAll) => IInv'
<1> SUFFICES ASSUME IInv, FilterOut \/ OverLimit \/ EmittedAll PROVE IInv'
  OBVIOUS
<1>1. UNCHANGED <<setup, encVars, outVars>> /\ stage' = stage
  BY DEF FilterOut, OverLimit, EmittedAll
<1>2. due' \in Seq(Frame)
  <2>1. due \in Seq(Frame)
    BY DEF IInv, TypeOK
  <2>2. due # <<>> => Tail(due) \in Seq(Frame)
    BY <2>1
  <2> QED BY <2>1, <2>2 DEF FilterOut, OverLimit, EmittedAll
<1>3. pc' \in Steps /\ pc' # "done"
  <2>1. CASE FilterOut \/ OverLimit
    BY <2>1 DEF FilterOut, OverLimit, Steps
  <2>2. CASE EmittedAll
    BY <2>2 DEF EmittedAll, Steps
  <2> QED BY <2>1, <2>2
<1>4. TypeOK'
  BY <1>1, <1>2, <1>3, SetupFixed
     DEF IInv, TypeOK, FilterOut, OverLimit, EmittedAll, decVars, cfrVars,
         encVars, outVars
<1> QED BY <1>1, <1>3, <1>4, EncoderUntouched DEF IInv

\* The packet taken from the encoder is stamped with its own frame's time.
LEMMA StampIsFramePts ==
    ASSUME IInv, encBuf # <<>>, NEW stamped \in BOOLEAN
    PROVE  /\ PacketPts(Head(encBuf), stamped) = Head(encBuf).pts
           /\ [Head(encBuf) EXCEPT !.pts = PacketPts(Head(encBuf), stamped)] = Head(encBuf)
<1>1. Head(encBuf) \in Frame /\ Head(encBuf) = encBuf[1] /\ Len(encBuf) > 0
  BY DEF IInv, TypeOK
<1>2. PacketPts(Head(encBuf), stamped) = Head(encBuf).pts
  <2>1. CASE stamped \/ ~IsVideo
    BY <2>1 DEF PacketPts
  <2>2. CASE ~(stamped \/ ~IsVideo)
    <3>1. /\ pendingPts \in Seq(Int \cup {None}) /\ Len(pendingPts) > 0
          /\ pendingPts[1] = encBuf[1].pts
      BY <1>1, <2>2 DEF IInv, TypeOK, QueueMirrors
    <3>2. pendingPts # <<>> /\ Head(pendingPts) = pendingPts[1]
      BY <3>1
    <3> QED BY <1>1, <2>2, <3>1, <3>2 DEF PacketPts
  <2> QED BY <2>1, <2>2
<1>3. [Head(encBuf) EXCEPT !.pts = Head(encBuf).pts] = Head(encBuf)
  BY <1>1 DEF Frame
<1> QED BY <1>2, <1>3

LEMMA MuxPacketInv ==
    ASSUME IInv, NEW stamped \in BOOLEAN, MuxPacket(stamped)
    PROVE  IInv'
<1>1. encBuf # <<>> /\ pc' = pc /\ pc = "drain" /\ stage' = stage /\ encEof' = encEof
      /\ UNCHANGED setup
  BY DEF MuxPacket
<1>2. /\ muxed' = Append(muxed, Head(encBuf))
      /\ encBuf' = Tail(encBuf)
      /\ pendingPts' = PoppedPts(stamped)
      /\ accepted' = accepted
  BY <1>1, StampIsFramePts DEF MuxPacket
<1>3. Head(encBuf) \in Frame /\ Tail(encBuf) \in Seq(Frame) /\ Len(encBuf) > 0
  BY <1>1 DEF IInv, TypeOK
<1>4. PoppedPts(stamped) \in Seq(Int \cup {None})
  BY DEF IInv, TypeOK, PoppedPts
<1>5. report' \in [decoded : Nat, written : Nat]
  <2>1. report \in [decoded : Nat, written : Nat] /\ report.written + 1 \in Nat
    BY DEF IInv, TypeOK
  <2>2. report' = [report EXCEPT !.written = report.written + 1]
    BY DEF MuxPacket
  <2> QED BY <2>1, <2>2
<1>6. TypeOK'
  <2>1. muxed' \in Seq(Frame)
    BY <1>2, <1>3, AppendProperties DEF IInv, TypeOK
  <2> QED BY <1>1, <1>2, <1>3, <1>4, <1>5, <2>1, SetupFixed
             DEF IInv, TypeOK, MuxPacket, decVars, cfrVars
<1>7. QueueMirrors'
  <2> SUFFICES ASSUME IsVideo PROVE QueueMirrors'
    BY <1>1, SetupFixed DEF QueueMirrors
  <2>1. /\ encBuf \in Seq(Frame) /\ pendingPts \in Seq(Int \cup {None})
        /\ Len(pendingPts) = Len(encBuf)
        /\ \A i \in 1..Len(encBuf) : pendingPts[i] = encBuf[i].pts
    BY DEF IInv, TypeOK, QueueMirrors
  <2>2. pendingPts' = Tail(pendingPts)
    BY <1>2, <1>3, <2>1 DEF PoppedPts
  <2> QED BY <1>2, <1>3, <2>1, <2>2 DEF QueueMirrors
<1>8. Accounted'
  BY <1>1, <1>2, HeadMoves DEF IInv, TypeOK, Accounted
<1>9. Flushed' /\ Drained'
  BY <1>1 DEF IInv, Flushed, Drained
<1> QED BY <1>6, <1>7, <1>8, <1>9 DEF IInv

LEMMA EncoderEmptyInv == IInv /\ EncoderEmpty => IInv'
<1> SUFFICES ASSUME IInv, EncoderEmpty PROVE IInv'
  OBVIOUS
<1>1. TypeOK'
  BY SetupFixed DEF IInv, TypeOK, EncoderEmpty, decVars, cfrVars, encVars, outVars, Steps
<1>2. QueueMirrors' /\ Accounted' /\ Flushed' /\ Drained'
  BY SetupFixed DEF IInv, EncoderEmpty, encVars, outVars, QueueMirrors, Accounted, Flushed,
         Drained
<1> QED BY <1>1, <1>2 DEF IInv

LEMMA ReleaseHeldInv == IInv /\ ReleaseHeld => IInv'
<1> SUFFICES ASSUME IInv, ReleaseHeld PROVE IInv'
  OBVIOUS
<1>1. UNCHANGED <<setup, encVars, outVars>> /\ stage' = "held" /\ pc' = "emit"
  BY DEF ReleaseHeld
<1>2. due' \in Seq(Frame) /\ nextSlot' \in Nat /\ last' \in Frame
  <2>1. [last EXCEPT !.pts = nextSlot] \in Frame /\ NoFrame \in Frame
    BY FrameParts DEF IInv, TypeOK
  <2>2. <<[last EXCEPT !.pts = nextSlot]>> \in Seq(Frame)
    BY <2>1
  <2>3. CASE Cfr /\ last # NoFrame
    <3>1. /\ due' = <<[last EXCEPT !.pts = nextSlot]>>
          /\ nextSlot' = nextSlot + 1 /\ last' = NoFrame
      BY <2>3 DEF ReleaseHeld, InSlot
    <3> QED BY <2>1, <2>2, <3>1 DEF IInv, TypeOK
  <2>4. CASE ~(Cfr /\ last # NoFrame)
    BY <2>4 DEF IInv, TypeOK, ReleaseHeld, cfrVars
  <2> QED BY <2>3, <2>4
<1>3. TypeOK'
  BY <1>1, <1>2, SetupFixed
     DEF IInv, TypeOK, ReleaseHeld, decVars, encVars, outVars, Steps, Stages
<1> QED BY <1>1, <1>3, EncoderUntouched DEF IInv

LEMMA FlushResamplerInv == IInv /\ FlushResampler => IInv'
<1> SUFFICES ASSUME IInv, FlushResampler PROVE IInv'
  OBVIOUS
<1>1. stage' = "tail" /\ pc' \in {"drain", "flush"} /\ muxed' = muxed
      /\ UNCHANGED setup
  BY DEF FlushResampler, outVars
<1>2. CASE UNCHANGED encVars
  <2>1. TypeOK'
    BY <1>1, <1>2, SetupFixed
       DEF IInv, TypeOK, FlushResampler, decVars, cfrVars, encVars, outVars,
           Steps, Stages
  <2>2. UNCHANGED <<setup, encVars, outVars>>
    BY <1>1, <1>2 DEF outVars
  <2> QED BY <1>1, <2>1, <2>2, EncoderUntouched DEF IInv
<1>3. CASE /\ Resamples
           /\ encBuf' = Append(encBuf, NoFrame)
           /\ accepted' = Append(accepted, NoFrame)
           /\ UNCHANGED <<encEof, pendingPts, videoSent>>
  <2>1. NoFrame \in Frame /\ ~IsVideo
    BY <1>3, FrameParts, SetupTyped DEF IInv, TypeOK
  <2>2. TypeOK'
    BY <1>1, <1>3, <2>1, SetupFixed
       DEF IInv, TypeOK, FlushResampler, decVars, cfrVars, Steps, Stages
  <2>3. Accounted'
    <3>1. muxed \in Seq(Frame) /\ encBuf \in Seq(Frame) /\ accepted = muxed \o encBuf
      BY DEF IInv, TypeOK, Accounted
    <3>2. muxed \o Append(encBuf, NoFrame) = Append(muxed \o encBuf, NoFrame)
      BY <2>1, <3>1, ConcatAppend
    <3> QED BY <1>1, <1>3, <3>1, <3>2 DEF Accounted
  <2>4. QueueMirrors' /\ Flushed' /\ Drained'
    BY <1>1, <2>1, SetupFixed DEF QueueMirrors, Flushed, Drained
  <2> QED BY <2>2, <2>3, <2>4 DEF IInv
<1> QED BY <1>2, <1>3 DEF FlushResampler

LEMMA FlushEncoderInv == IInv /\ FlushEncoder => IInv'
<1> SUFFICES ASSUME IInv, FlushEncoder PROVE IInv'
  OBVIOUS
<1>1. TypeOK'
  BY SetupFixed DEF IInv, TypeOK, FlushEncoder, decVars, cfrVars, outVars, Steps, Stages
<1>2. QueueMirrors' /\ Accounted' /\ Flushed' /\ Drained'
  BY SetupFixed DEF IInv, FlushEncoder, outVars, QueueMirrors, Accounted, Flushed, Drained
<1> QED BY <1>1, <1>2 DEF IInv

LEMMA FailInv == IInv /\ Fail => IInv'
<1> SUFFICES ASSUME IInv, Fail PROVE IInv'
  OBVIOUS
<1>1. TypeOK'
  BY SetupFixed DEF IInv, TypeOK, Fail, decVars, cfrVars, encVars, outVars, Steps
<1>2. UNCHANGED <<setup, encVars, outVars>> /\ stage' = stage /\ pc' # "done"
  BY DEF Fail
<1> QED BY <1>1, <1>2, EncoderUntouched DEF IInv

LEMMA StutterInv == IInv /\ UNCHANGED vars => IInv'
BY SetupFixed
   DEF IInv, TypeOK, QueueMirrors, Accounted, Flushed, Drained, vars, decVars,
       cfrVars, encVars, outVars

LEMMA NextInv == IInv /\ [Next]_vars => IInv'
BY ReadPacketInv, EndOfInputInv, DropFrameInv, HandleFrameInv, UntimedInv,
   DecoderEmptyInv, EmitFrameInv, DroppedInv, MuxPacketInv, EncoderEmptyInv,
   ReleaseHeldInv, FlushResamplerInv, FlushEncoderInv, FailInv, StutterInv
   DEF Next

THEOREM Invariance == Spec => []IInv
BY InitInv, NextInv, PTL DEF Spec

\* Type correctness of the stream's state.
THEOREM TypeCorrect == Spec => []TypeOK
<1>1. IInv => TypeOK
  BY DEF IInv
<1> QED BY <1>1, Invariance, PTL

\* Every muxed packet carries the timestamp of the frame it encodes, whatever
\* the encoder holds back and whichever packets it stamps itself
\* (TranscodeOp::drain and its pending_pts queue).
THEOREM PacketsCarryTheirStamp == Spec => []StampsMatch
<1>1. IInv => StampsMatch
  <2> SUFFICES ASSUME IInv, NEW i \in 1..Len(muxed) PROVE muxed[i] = accepted[i]
    BY DEF StampsMatch
  <2>1. muxed \in Seq(Frame) /\ encBuf \in Seq(Frame) /\ accepted = muxed \o encBuf
    BY DEF IInv, TypeOK, Accounted
  <2> QED BY <2>1, ConcatProperties, LenProperties
<1> QED BY <1>1, Invariance, PTL

-----------------------------------------------------------------------------
(* The stream implements StreamPipe. *)

LEMMA PipeInit == Init => Pipe!Init
BY DEF Init, Pipe!Init, Running

\* A step that leaves the encoder's side alone and does not end the job
\* stutters, one that fails is the pipe's failure.
LEMMA PipeQuiet ==
    ASSUME UNCHANGED <<setup, encVars, outVars>>, pc \notin {"done", "failed"}, pc' # "done"
    PROVE  Pipe!Fail \/ UNCHANGED Pipe!vars
BY DEF encVars, outVars, Pipe!Fail, Pipe!vars, Running

LEMMA PipeAccept ==
    ASSUME IInv, NEW f \in Frame, accepted' = Append(accepted, f), muxed' = muxed,
           pc \notin {"done", "failed"}, pc' \notin {"done", "failed"}
    PROVE  Pipe!Accept
<1>1. accepted \in Seq(Frame)
  BY DEF IInv, TypeOK
<1>2. /\ Len(accepted') = Len(accepted) + 1
      /\ \A i \in 1..Len(accepted) : accepted'[i] = accepted[i]
  BY <1>1, AppendProperties
<1> QED BY <1>2 DEF Pipe!Accept, Running

LEMMA PipeMux ==
    ASSUME IInv, NEW stamped \in BOOLEAN, MuxPacket(stamped)
    PROVE  Pipe!Mux
<1>1. encBuf # <<>> /\ pc = "drain" /\ pc' = "drain" /\ accepted' = accepted
  BY DEF MuxPacket
<1>2. muxed' = Append(muxed, Head(encBuf))
  BY <1>1, StampIsFramePts DEF MuxPacket
<1>3. muxed \in Seq(Frame) /\ encBuf \in Seq(Frame) /\ accepted = muxed \o encBuf
  BY DEF IInv, TypeOK, Accounted
<1>4. Len(encBuf) > 0 /\ Head(encBuf) = encBuf[1]
  BY <1>1, <1>3
<1>5. Len(muxed) < Len(accepted) /\ accepted[Len(muxed) + 1] = encBuf[1]
  BY <1>3, <1>4, ConcatProperties, LenProperties
<1> QED BY <1>1, <1>2, <1>4, <1>5 DEF Pipe!Mux, Running

LEMMA PipeEncoderEmpty ==
    ASSUME IInv, EncoderEmpty
    PROVE  Pipe!Next \/ UNCHANGED Pipe!vars
<1>1. UNCHANGED <<setup, encVars, outVars>> /\ pc = "drain"
  BY DEF EncoderEmpty
<1>2. CASE stage = "end"
  <2>1. encBuf = <<>> /\ pc' = "done"
    BY <1>2 DEF IInv, Flushed, EncoderEmpty
  <2>2. Len(muxed) = Len(accepted)
    BY <2>1, ConcatEmptySeq DEF IInv, TypeOK, Accounted
  <2> QED BY <1>1, <2>1, <2>2
             DEF Pipe!Next, Pipe!Finish, Running, encVars, outVars
<1>3. CASE stage # "end"
  BY <1>1, <1>3, PipeQuiet DEF EncoderEmpty, Pipe!Next
<1> QED BY <1>2, <1>3

LEMMA PipeStep == IInv /\ [Next]_vars => [Pipe!Next]_(Pipe!vars)
<1> SUFFICES ASSUME IInv, [Next]_vars PROVE Pipe!Next \/ UNCHANGED Pipe!vars
  OBVIOUS
<1>1. CASE \/ \E p \in (0..MaxPts) \cup {None} : ReadPacket(p)
           \/ EndOfInput \/ DropFrame \/ HandleFrame \/ Untimed
           \/ DecoderEmpty
  <2>1. UNCHANGED <<setup, encVars, outVars>> /\ pc \notin {"done", "failed"} /\ pc' # "done"
    BY <1>1 DEF ReadPacket, EndOfInput, DropFrame, HandleFrame, Untimed,
                DecoderEmpty, AfterDecoder
  <2> QED BY <2>1, PipeQuiet DEF Pipe!Next
<1>2. CASE FilterOut \/ OverLimit \/ EmittedAll \/ ReleaseHeld \/ Fail
  <2>1. UNCHANGED <<setup, encVars, outVars>> /\ pc \notin {"done", "failed"} /\ pc' # "done"
    BY <1>2 DEF FilterOut, OverLimit, EmittedAll, ReleaseHeld, Fail
  <2> QED BY <2>1, PipeQuiet DEF Pipe!Next
<1>3. CASE EmitFrame
  <2>1. Head(due) \in Frame
    BY <1>3 DEF IInv, TypeOK, EmitFrame
  <2>2. /\ accepted' = Append(accepted, Head(due)) /\ muxed' = muxed
        /\ pc \notin {"done", "failed"} /\ pc' \notin {"done", "failed"}
    BY <1>3 DEF EmitFrame, outVars
  <2> QED BY <2>1, <2>2, PipeAccept DEF Pipe!Next
<1>4. CASE \E stamped \in BOOLEAN : MuxPacket(stamped)
  BY <1>4, PipeMux DEF Pipe!Next
<1>5. CASE EncoderEmpty
  BY <1>5, PipeEncoderEmpty
<1>6. CASE FlushResampler
  <2>1. /\ muxed' = muxed
        /\ pc \notin {"done", "failed"} /\ pc' \notin {"done", "failed"}
        /\ accepted' = Append(accepted, NoFrame) \/ UNCHANGED <<setup, encVars, outVars>>
    BY <1>6 DEF FlushResampler, outVars
  <2> QED BY <2>1, FrameParts, PipeAccept, PipeQuiet DEF Pipe!Next
<1>7. CASE FlushEncoder
  <2>1. /\ accepted' = accepted /\ muxed' = muxed
        /\ pc \notin {"done", "failed"} /\ pc' \notin {"done", "failed"}
    BY <1>7 DEF FlushEncoder, outVars
  <2> QED BY <2>1 DEF Pipe!vars, Running
<1>8. CASE UNCHANGED vars
  BY <1>8 DEF vars, encVars, outVars, Pipe!vars, Running
<1> QED BY <1>1, <1>2, <1>3, <1>4, <1>5, <1>6, <1>7, <1>8 DEF Next

\* The transcode path implements the abstract pipe: packets leave in the order
\* in which their frames were accepted, and the stream is done only when every
\* accepted frame's packet was muxed (TranscodeOp::finish).
THEOREM ImplementsPipe == Spec => PipeSpec
<1>1. Init => Pipe!Init
  BY PipeInit
<1>2. IInv /\ [Next]_vars => [Pipe!Next]_(Pipe!vars)
  BY PipeStep
<1> QED BY <1>1, <1>2, Invariance, PTL DEF Spec, PipeSpec, Pipe!Spec
-----------------------------------------------------------------------------
(* Where the loops stand. *)

\* Nothing is due outside emit() and the drain it calls, nor after the held
\* frame was released; the decoder hands out frames before that only.
LoopsNest ==
    /\ pc \notin {"emit", "drain", "failed"} => due = <<>>
    /\ stage \in {"tail", "end"} => due = <<>>
    /\ pc \in {"demux", "decode"} => stage \in {"stream", "flush"}
    /\ pc = "held" => stage = "flush"
    /\ pc = "tail" => stage = "held"
    /\ pc = "flush" => stage \in {"tail", "end"}
    /\ pc = "done" => stage = "end"

\* Frames that were decoded have an identity; the tail comes last, and in a
\* stream of audio.  The counters count what they are for.
Identified ==
    /\ \A i \in 1..Len(decBuf) : decBuf[i].id > 0
    /\ \A i \in 1..Len(decoded) : decoded[i].id > 0
    /\ \A i \in 1..Len(due) : due[i].id > 0
    /\ last.id > 0 \/ last = NoFrame
    /\ \A i \in 1..Len(accepted) :
          \/ accepted[i].id > 0
          \/ i = Len(accepted) /\ stage \in {"tail", "end"} /\ ~IsVideo
    /\ IsVideo /\ Limit # None => videoSent = Len(accepted)
    /\ pc # "failed" /\ ~IsVideo => clock = Len(decoded)
    /\ pc # "failed" /\ IsVideo /\ NeedsTime =>
          \A i \in 1..Len(decoded) : decoded[i].pts # None

\* What was accepted and is due are the frames wanted, until the limit cuts
\* them off.
WindowSoFar ==
    (~Cfr /\ ~Atrim /\ pc # "failed") =>
        /\ UnderLimit => AcceptedFrames \o due = Wanted
        /\ Len(AcceptedFrames) <= Len(Wanted)
        /\ \A i \in 1..Len(AcceptedFrames) : AcceptedFrames[i] = Wanted[i]

\* The slots are given out in order and none twice, until the limit.
SlotsSoFar ==
    Cfr => /\ \A i \in 1..Len(accepted) : accepted[i].pts = i - 1
           /\ UnderLimit => /\ nextSlot = Len(accepted) + Len(due)
                            /\ \A i \in 1..Len(due) : due[i].pts = Len(accepted) + i - 1

\* The frame is shown in a slot given out, and rightly.
Shows(f) == \E s \in 0..(nextSlot - 1) : f.pts = s /\ f.id = ShownIn(s)

\* The slots given out begin before the latest frame, which is the one held;
\* those that begin before it are given out, once there were two frames.
HeldIsLatest ==
    LET n == Len(Kept)
    IN  /\ stage \in {"stream", "flush"} =>
              (last = NoFrame <=> n = 0)
        /\ last # NoFrame =>
              /\ n > 0 /\ last.id = decoded[Kept[n]].id
              /\ nextSlot > 0 => (nextSlot - 1) * SlotTicks < OutTime(n) /\ n > 1
              /\ n > 1 => OutTime(n) <= nextSlot * SlotTicks
        /\ n = 0 => nextSlot = 0

\* After the last frame was released it is the last one to be encoded.
LastIsReleased ==
    (stage \in {"held", "tail", "end"} /\ UnderLimit /\ Kept # <<>>) =>
        LET given == accepted \o due
        IN  given # <<>> /\ Last(given).id = decoded[Last(Kept)].id

ShownSoFar ==
    (Cfr /\ pc # "failed" /\ Monotone) =>
        /\ \A i \in 1..Len(accepted) : Shows(accepted[i])
        /\ \A i \in 1..Len(due) : Shows(due[i])
        /\ HeldIsLatest /\ LastIsReleased

LEMMA LoopsInit == Init => LoopsNest
BY DEF Init, LoopsNest

LEMMA LoopsStep == TypeOK /\ LoopsNest /\ [Next]_vars => LoopsNest'
<1> SUFFICES ASSUME TypeOK, LoopsNest, [Next]_vars PROVE LoopsNest'
  OBVIOUS
<1> USE DEF LoopsNest
<1>1. ASSUME NEW p \in (0..MaxPts) \cup {None}, ReadPacket(p) PROVE LoopsNest'
  BY <1>1 DEF ReadPacket
<1>2. CASE EndOfInput
  BY <1>2 DEF EndOfInput
<1>3. CASE DropFrame \/ HandleFrame \/ Untimed
  <2>1. CASE DropFrame
    BY <2>1 DEF DropFrame
  <2>2. CASE HandleFrame
    BY <2>2 DEF HandleFrame
  <2>3. CASE Untimed
    BY <2>3 DEF Untimed
  <2> QED BY <1>3, <2>1, <2>2, <2>3
<1>4. CASE DecoderEmpty
  BY <1>4 DEF DecoderEmpty, AfterDecoder
<1>5. CASE EmitFrame
  BY <1>5 DEF EmitFrame
<1>6. CASE FilterOut \/ OverLimit \/ EmittedAll
  BY <1>6 DEF FilterOut, OverLimit, EmittedAll, TypeOK, Stages
<1>7. ASSUME NEW stamped \in BOOLEAN, MuxPacket(stamped) PROVE LoopsNest'
  BY <1>7 DEF MuxPacket
<1>8. CASE EncoderEmpty
  BY <1>8 DEF EncoderEmpty
<1>9. CASE ReleaseHeld
  BY <1>9 DEF ReleaseHeld
<1>10. CASE FlushResampler
  BY <1>10 DEF FlushResampler
<1>11. CASE FlushEncoder
  BY <1>11 DEF FlushEncoder
<1>12. CASE Fail
  BY <1>12 DEF Fail
<1>13. CASE UNCHANGED vars
  BY <1>13 DEF vars
<1> QED BY <1>1, <1>2, <1>3, <1>4, <1>5, <1>6, <1>7, <1>8, <1>9, <1>10, <1>11, <1>12,
           <1>13 DEF Next

\* What a frame that is kept leaves due and held.
LEMMA Handled ==
    ASSUME TypeOK, HandleFrame,
           NEW f, f = Head(decBuf), NEW t, t = FrameTime(f),
           NEW n, n = IF last = NoFrame THEN 0 ELSE SlotsBefore(t - ShiftTicks)
    PROVE  /\ f \in Frame /\ decoded' = Append(decoded, f) /\ decBuf' = Tail(decBuf)
           /\ f = decBuf[1] /\ Len(decBuf) > 0
           /\ Shifted(f) \in Frame /\ Shifted(f).id = f.id /\ ShiftTicks \in Int
           /\ Cfr => /\ t \in Int /\ n \in Nat
                     /\ due' \in Seq(Frame) /\ Len(due') = n
                     /\ \A i \in 1..n : /\ due'[i].id = last.id
                                        /\ due'[i].pts = nextSlot + i - 1
                     /\ nextSlot' = nextSlot + n /\ last' = Shifted(f)
           /\ ~Cfr => due' = <<Shifted(f)>> /\ last' = last /\ nextSlot' = nextSlot
<1>1. /\ f \in Frame /\ decoded' = Append(decoded, f) /\ decBuf' = Tail(decBuf)
      /\ f = decBuf[1] /\ Len(decBuf) > 0
  <2>1. decBuf # <<>> /\ NoteDecoded /\ decBuf \in Seq(Frame)
    BY DEF HandleFrame, TypeOK
  <2> QED BY <2>1, HeadAndTail DEF NoteDecoded
<1>2. /\ NeedsTime => t # None
      /\ IF Cfr THEN Conform(Shifted(f), t - ShiftTicks)
         ELSE due' = <<Shifted(f)>> /\ UNCHANGED cfrVars
  BY DEF HandleFrame
<1>3. Shifted(f) \in Frame /\ t \in Int \cup {None} /\ ShiftTicks \in Int
  BY <1>1, TimesAreInts
<1>4. Shifted(f).id = f.id
  BY <1>1, FrameParts DEF Shifted, Frame
<1>5. ASSUME Cfr
      PROVE  /\ t \in Int /\ n \in Nat
             /\ due' \in Seq(Frame) /\ Len(due') = n
             /\ \A i \in 1..n : /\ due'[i].id = last.id
                                /\ due'[i].pts = nextSlot + i - 1
             /\ nextSlot' = nextSlot + n /\ last' = Shifted(f)
  <2>1. t \in Int /\ t - ShiftTicks \in Int
    BY <1>2, <1>3, <1>5 DEF NeedsTime
  <2>2. n \in Nat
    BY <2>1, SlotCount DEF TypeOK
  <2>3. /\ due' = [i \in 1..n |-> [last EXCEPT !.pts = nextSlot + i - 1]]
        /\ nextSlot' = nextSlot + n /\ last' = Shifted(f)
    BY <1>2, <1>5 DEF Conform, InSlot
  <2>4. due' \in Seq(Frame)
    BY <2>2, <2>3, DueTyped
  <2>5. ASSUME NEW i \in 1..n
        PROVE  due'[i].id = last.id /\ due'[i].pts = nextSlot + i - 1
    <3>1. last \in Frame /\ nextSlot + i - 1 \in Int
      BY <2>2 DEF TypeOK
    <3> QED BY <2>3, <3>1, FrameParts
  <2>6. Len(due') = n
    BY <2>2, <2>3
  <2> QED BY <2>1, <2>2, <2>3, <2>4, <2>5, <2>6
<1> QED BY <1>1, <1>2, <1>3, <1>4, <1>5 DEF cfrVars

LEMMA IdentifiedInit == Init => Identified
BY DEF Init, Identified

\* Steps that only move between the loops.
LEMMA IdentifiedQuiet ==
    ASSUME Identified,
           UNCHANGED <<setup, decBuf, decoded, due, last, accepted, videoSent, clock>>,
           stage \in {"tail", "end"} => stage' \in {"tail", "end"},
           pc = "failed" => pc' = "failed"
    PROVE  Identified'
BY SetupFixed DEF Identified, NeedsTime

LEMMA IdentifiedHandled ==
    ASSUME TypeOK, LoopsNest, Identified, HandleFrame
    PROVE  Identified'
<1> DEFINE f == Head(decBuf)
           t == FrameTime(f)
           n == IF last = NoFrame THEN 0 ELSE SlotsBefore(t - ShiftTicks)
<1>1. /\ f \in Frame /\ decoded' = Append(decoded, f) /\ decBuf' = Tail(decBuf)
      /\ f = decBuf[1] /\ Len(decBuf) > 0
      /\ Shifted(f) \in Frame /\ Shifted(f).id = f.id
      /\ Cfr => /\ t \in Int /\ n \in Nat
                /\ due' \in Seq(Frame) /\ Len(due') = n
                /\ \A i \in 1..n : due'[i].id = last.id
                /\ last' = Shifted(f)
      /\ ~Cfr => due' = <<Shifted(f)>> /\ last' = last
  BY Handled
<1>2. /\ pc = "decode" /\ UNCHANGED <<setup, stage, accepted, videoSent>>
      /\ clock' = IF IsVideo THEN clock ELSE clock + 1
      /\ NeedsTime => t # None
  BY DEF HandleFrame, encVars, ClockAfter
<1>3. n = 0 \/ last.id > 0
  BY DEF Identified
<1>4. NeedsTime /\ IsVideo => f.pts # None
  BY <1>2 DEF FrameTime
<1> HIDE DEF f, t, n
<1>5. f.id > 0 /\ f.id \in Int
  BY <1>1, FrameParts DEF Identified, Ids
<1>6. /\ decBuf \in Seq(Frame) /\ decoded \in Seq(Frame)
      /\ clock \in Nat /\ decoded' \in Seq(Frame)
      /\ Len(decoded') = Len(decoded) + 1
      /\ \A i \in 1..Len(decoded) : decoded'[i] = decoded[i]
      /\ decoded'[Len(decoded) + 1] = f
  BY <1>1, AppendProperties DEF TypeOK
<1>7. \A i \in 1..Len(decBuf') : decBuf'[i].id > 0
  BY <1>1, <1>6 DEF Identified
<1>8. \A i \in 1..Len(decoded') : decoded'[i].id > 0
  BY <1>5, <1>6 DEF Identified
<1>9. \A i \in 1..Len(due') : due'[i].id > 0
  BY <1>1, <1>3, <1>5
<1>10. last'.id > 0 \/ last' = NoFrame
  BY <1>1, <1>5 DEF Identified
<1>11. ~IsVideo => clock' = Len(decoded')
  BY <1>2, <1>6 DEF Identified
<1>12. IsVideo /\ NeedsTime => \A i \in 1..Len(decoded') : decoded'[i].pts # None
  BY <1>2, <1>4, <1>6 DEF Identified
<1>13. UNCHANGED <<IsVideo, Limit, Trimming, Cfr>>
  BY <1>2, SetupFixed
<1> QED BY <1>2, <1>7, <1>8, <1>9, <1>10, <1>11, <1>12, <1>13 DEF Identified, NeedsTime

\* A frame outside the window and one without a time are only counted.
LEMMA IdentifiedDropped ==
    ASSUME TypeOK, Identified, DropFrame \/ Untimed
    PROVE  Identified'
<1> DEFINE f == Head(decBuf)
<1>1. /\ decBuf # <<>> /\ NoteDecoded /\ pc = "decode"
      /\ UNCHANGED <<setup, stage, due, last, accepted, videoSent>>
      /\ decBuf \in Seq(Frame) /\ decoded \in Seq(Frame)
  BY DEF DropFrame, Untimed, cfrVars, encVars, TypeOK
<1>2. /\ decBuf' = Tail(decBuf) /\ decoded' = Append(decoded, f)
      /\ decBuf \in Seq(Frame) /\ decoded \in Seq(Frame)
      /\ f \in Frame /\ f = decBuf[1] /\ Len(decBuf) > 0
  BY <1>1, HeadAndTail DEF NoteDecoded
<1>3. pc' # "failed" => clock' = IF IsVideo THEN clock ELSE clock + 1
  BY DEF DropFrame, Untimed, ClockAfter
<1>4. pc' # "failed" /\ IsVideo /\ NeedsTime => f.pts # None
  BY DEF DropFrame, Untimed, FrameTime
<1> HIDE DEF f
<1>5. f.id > 0
  BY <1>2 DEF Identified
<1>6. /\ Len(decoded') = Len(decoded) + 1 /\ Len(decoded) \in Nat
      /\ \A i \in 1..Len(decoded) : decoded'[i] = decoded[i]
      /\ decoded'[Len(decoded) + 1] = f
  BY <1>2, AppendProperties
<1>7. \A i \in 1..Len(decBuf') : decBuf'[i].id > 0
  BY <1>2 DEF Identified
<1>8. \A i \in 1..Len(decoded') : decoded'[i].id > 0
  BY <1>5, <1>6 DEF Identified
<1>9. pc' # "failed" /\ ~IsVideo => clock' = Len(decoded')
  BY <1>1, <1>3, <1>6 DEF Identified
<1>10. pc' # "failed" /\ IsVideo /\ NeedsTime =>
           \A i \in 1..Len(decoded') : decoded'[i].pts # None
  BY <1>1, <1>4, <1>6 DEF Identified
<1>11. UNCHANGED <<IsVideo, Limit, Trimming, Cfr>>
  BY <1>1, SetupFixed
<1> QED BY <1>1, <1>7, <1>8, <1>9, <1>10, <1>11 DEF Identified, NeedsTime

\* A frame that is accepted is due, and so no tail was accepted yet.
LEMMA IdentifiedEmitted ==
    ASSUME TypeOK, LoopsNest, Identified, EmitFrame
    PROVE  /\ Identified'
           /\ \A i \in 1..Len(accepted) : accepted[i].id > 0
           /\ Head(due) \in Frame /\ Head(due) = due[1] /\ Head(due).id > 0
<1> DEFINE f == Head(due)
<1>1. /\ due # <<>> /\ pc = "emit" /\ pc' = "drain"
      /\ UNCHANGED <<setup, stage, decBuf, decoded, last, clock>>
      /\ due' = Tail(due) /\ accepted' = Append(accepted, f)
      /\ videoSent' = IF IsVideo /\ Limit # None THEN videoSent + 1 ELSE videoSent
  BY DEF EmitFrame, decVars, cfrVars
<1>2. /\ due \in Seq(Frame) /\ accepted \in Seq(Frame) /\ videoSent \in Nat
      /\ f \in Frame /\ f = due[1] /\ Len(due) > 0
  BY <1>1 DEF TypeOK
<1>3. stage \notin {"tail", "end"}
  BY <1>1 DEF LoopsNest
<1> HIDE DEF f
<1>4. f.id > 0
  BY <1>2 DEF Identified
<1>5. \A i \in 1..Len(accepted) : accepted[i].id > 0
  BY <1>3 DEF Identified
<1>6. /\ Len(accepted') = Len(accepted) + 1 /\ Len(accepted) \in Nat
      /\ \A i \in 1..Len(accepted) : accepted'[i] = accepted[i]
      /\ accepted'[Len(accepted) + 1] = f
  BY <1>1, <1>2, AppendProperties
<1>7. \A i \in 1..Len(accepted') : accepted'[i].id > 0
  BY <1>4, <1>5, <1>6
<1>8. \A i \in 1..Len(due') : due'[i].id > 0
  BY <1>1, <1>2 DEF Identified
<1>9. IsVideo /\ Limit # None => videoSent' = Len(accepted')
  BY <1>1, <1>6 DEF Identified
<1>10. UNCHANGED <<IsVideo, Limit, Trimming, Cfr>>
  BY <1>1, SetupFixed
<1>11. Identified'
  BY <1>1, <1>7, <1>8, <1>9, <1>10 DEF Identified, NeedsTime
<1> QED BY <1>2, <1>4, <1>5, <1>11 DEF f

LEMMA IdentifiedStep ==
    TypeOK /\ LoopsNest /\ Identified /\ [Next]_vars => Identified'
<1> SUFFICES ASSUME TypeOK, LoopsNest, Identified, [Next]_vars PROVE Identified'
  OBVIOUS
<1>1. ASSUME NEW p \in (0..MaxPts) \cup {None}, ReadPacket(p) PROVE Identified'
  <2> DEFINE g == [id |-> read + 1, pts |-> p]
  <2>1. /\ UNCHANGED <<setup, decoded, due, last, accepted, videoSent, clock, stage>>
        /\ decBuf' = Append(decBuf, g) /\ pc = "demux"
    BY <1>1 DEF ReadPacket, cfrVars, encVars
  <2>2. g.id > 0 /\ decBuf \in Seq(Frame) /\ read \in Nat
    BY NumberAssumption DEF TypeOK
  <2>3. g \in Frame
    BY <1>1, NumberAssumption DEF ReadPacket, TypeOK, Frame, Ids
  <2> HIDE DEF g
  <2>4. \A i \in 1..Len(decBuf') : decBuf'[i].id > 0
    BY <2>1, <2>2, <2>3 DEF Identified
  <2> QED BY <2>1, <2>4, SetupFixed DEF Identified, NeedsTime
<1>2. CASE DecoderEmpty \/ EndOfInput
  <2>1. /\ UNCHANGED <<setup, decBuf, decoded, due, last, accepted, videoSent, clock>>
        /\ pc \in {"demux", "decode"}
    BY <1>2 DEF DecoderEmpty, EndOfInput, decVars, cfrVars, encVars
  <2>2. stage \notin {"tail", "end"} /\ pc # "failed"
    BY <2>1 DEF LoopsNest
  <2> QED BY <2>1, <2>2, IdentifiedQuiet
<1>3. CASE EncoderEmpty \/ FlushEncoder \/ EmittedAll \/ Fail
  <2>1. /\ UNCHANGED <<setup, decBuf, decoded, due, last, accepted, videoSent, clock>>
        /\ pc # "failed" /\ stage' \in {stage, "end"}
    BY <1>3 DEF EncoderEmpty, FlushEncoder, EmittedAll, Fail, decVars, cfrVars, encVars
  <2> QED BY <2>1, IdentifiedQuiet
<1>4. ASSUME NEW stamped \in BOOLEAN, MuxPacket(stamped) PROVE Identified'
  <2>1. /\ UNCHANGED <<setup, decBuf, decoded, due, last, accepted, videoSent, clock>>
        /\ pc' = pc /\ stage' = stage
    BY <1>4 DEF MuxPacket, decVars, cfrVars
  <2> QED BY <2>1, IdentifiedQuiet
<1>5. CASE FilterOut \/ OverLimit
  <2>1. /\ due # <<>> /\ due' = Tail(due)
        /\ UNCHANGED <<setup, pc, stage, decBuf, decoded, last, accepted, videoSent, clock>>
    BY <1>5 DEF FilterOut, OverLimit, decVars, cfrVars, encVars
  <2>2. \A i \in 1..Len(due') : due'[i].id > 0
    BY <2>1 DEF Identified, TypeOK
  <2> QED BY <2>1, <2>2, SetupFixed DEF Identified, NeedsTime
<1>6. CASE ReleaseHeld
  <2>1. /\ UNCHANGED <<setup, decBuf, decoded, accepted, videoSent, clock>>
        /\ pc = "held" /\ pc' = "emit" /\ stage' = "held"
        /\ due = <<>> /\ stage = "flush"
    BY <1>6 DEF ReleaseHeld, decVars, encVars, LoopsNest
  <2>2. CASE Cfr /\ last # NoFrame
    <3> DEFINE g == [last EXCEPT !.pts = nextSlot]
    <3>1. due' = <<g>> /\ last' = NoFrame
      BY <1>6, <2>2 DEF ReleaseHeld, InSlot
    <3>2. g.id > 0
      BY <2>2, FrameParts DEF TypeOK, Identified
    <3> HIDE DEF g
    <3>3. \A i \in 1..Len(due') : due'[i].id > 0
      BY <3>1, <3>2
    <3> QED BY <2>1, <3>1, <3>3, SetupFixed DEF Identified, NeedsTime
  <2>3. CASE ~(Cfr /\ last # NoFrame)
    <3>1. due' = due /\ last' = last
      BY <1>6, <2>3 DEF ReleaseHeld, cfrVars
    <3> QED BY <2>1, <3>1, SetupFixed DEF Identified, NeedsTime
  <2> QED BY <2>2, <2>3
<1>7. CASE FlushResampler
  <2>1. /\ UNCHANGED <<setup, decBuf, decoded, due, last, clock>>
        /\ pc = "tail" /\ pc' # "failed" /\ stage' = "tail" /\ stage = "held"
    BY <1>7 DEF FlushResampler, decVars, cfrVars, LoopsNest
  <2>2. CASE UNCHANGED encVars
    <3>1. UNCHANGED <<accepted, videoSent>>
      BY <2>2 DEF encVars
    <3> QED BY <2>1, <3>1, IdentifiedQuiet
  <2>3. CASE Resamples /\ accepted' = Append(accepted, NoFrame) /\ videoSent' = videoSent
    <3>1. ~IsVideo
      BY <2>3, SetupTyped DEF TypeOK
    <3>2. \A i \in 1..Len(accepted) : accepted[i].id > 0
      BY <2>1 DEF Identified
    <3>3. /\ Len(accepted') = Len(accepted) + 1 /\ Len(accepted) \in Nat
          /\ \A i \in 1..Len(accepted) : accepted'[i] = accepted[i]
      BY <2>3, FrameParts, AppendProperties DEF TypeOK
    <3>4. \A i \in 1..Len(accepted') : accepted'[i].id > 0 \/ i = Len(accepted')
      BY <3>2, <3>3
    <3> QED BY <2>1, <2>3, <3>1, <3>4, SetupFixed DEF Identified, NeedsTime
  <2> QED BY <1>7, <2>2, <2>3 DEF FlushResampler
<1>8. CASE UNCHANGED vars
  <2>1. /\ UNCHANGED <<setup, decBuf, decoded, due, last, accepted, videoSent, clock>>
        /\ pc' = pc /\ stage' = stage
    BY <1>8 DEF vars, decVars, cfrVars, encVars
  <2> QED BY <2>1, IdentifiedQuiet
<1>9. CASE HandleFrame
  BY <1>9, IdentifiedHandled
<1>10. CASE DropFrame \/ Untimed
  BY <1>10, IdentifiedDropped
<1>11. CASE EmitFrame
  BY <1>11, IdentifiedEmitted
<1> QED BY <1>1, <1>2, <1>3, <1>4, <1>5, <1>6, <1>7, <1>8, <1>9, <1>10, <1>11 DEF Next

-----------------------------------------------------------------------------
(* The slots of the constant frame rate. *)

\* The gate of the limit depends on the setup and on videoSent.
LEMMA GateStays ==
    ASSUME UNCHANGED <<setup, videoSent>>
    PROVE  UnderLimit' = UnderLimit
BY SetupFixed DEF UnderLimit

LEMMA SlotsInit == Init => SlotsSoFar
BY DEF Init, SlotsSoFar

LEMMA SlotsQuiet ==
    ASSUME SlotsSoFar, UNCHANGED <<setup, videoSent, due, nextSlot, accepted>>
    PROVE  SlotsSoFar'
BY SetupFixed, GateStays DEF SlotsSoFar

LEMMA SlotsEmitted ==
    ASSUME TypeOK, SlotsSoFar, Cfr, EmitFrame
    PROVE  SlotsSoFar'
<1> DEFINE f == Head(due)
<1>1. /\ due # <<>> /\ UnderLimit /\ due' = Tail(due) /\ nextSlot' = nextSlot
      /\ accepted' = Append(accepted, f) /\ UNCHANGED setup
  BY DEF EmitFrame, cfrVars
<1>2. /\ due \in Seq(Frame) /\ accepted \in Seq(Frame) /\ f \in Frame
      /\ f = due[1] /\ Len(due) > 0
  BY <1>1 DEF TypeOK
<1>3. /\ nextSlot = Len(accepted) + Len(due) /\ f.pts = Len(accepted)
      /\ \A i \in 1..Len(due) : due[i].pts = Len(accepted) + i - 1
      /\ \A i \in 1..Len(accepted) : accepted[i].pts = i - 1
  BY <1>1, <1>2 DEF SlotsSoFar
<1> HIDE DEF f
<1>4. /\ Len(accepted') = Len(accepted) + 1 /\ Len(accepted) \in Nat
      /\ \A i \in 1..Len(accepted) : accepted'[i] = accepted[i]
      /\ accepted'[Len(accepted) + 1] = f
  BY <1>1, <1>2, AppendProperties
<1>5. /\ Len(due') = Len(due) - 1 /\ Len(due) \in Nat
      /\ \A i \in 1..Len(due') : due'[i] = due[i + 1]
  BY <1>1, <1>2
<1>6. \A i \in 1..Len(accepted') : accepted'[i].pts = i - 1
  BY <1>3, <1>4
<1>7. nextSlot' = Len(accepted') + Len(due')
  BY <1>1, <1>3, <1>4, <1>5
<1>8. \A i \in 1..Len(due') : due'[i].pts = Len(accepted') + i - 1
  <2> TAKE i \in 1..Len(due')
  <2>1. i + 1 \in 1..Len(due) /\ due'[i] = due[i + 1]
    BY <1>5
  <2>2. due[i + 1].pts = Len(accepted) + (i + 1) - 1
    BY <1>3, <2>1
  <2> QED BY <1>4, <2>1, <2>2
<1> QED BY <1>1, <1>6, <1>7, <1>8, SetupFixed DEF SlotsSoFar

LEMMA SlotsStep ==
    TypeOK /\ LoopsNest /\ SlotsSoFar /\ [Next]_vars => SlotsSoFar'
<1> SUFFICES ASSUME TypeOK, LoopsNest, SlotsSoFar, [Next]_vars PROVE SlotsSoFar'
  OBVIOUS
<1>0. UNCHANGED setup
  BY DEF Next, vars, ReadPacket, EndOfInput, DropFrame, HandleFrame, Untimed, DecoderEmpty,
         EmitFrame, FilterOut, OverLimit, EmittedAll, MuxPacket, EncoderEmpty, ReleaseHeld,
         FlushResampler, FlushEncoder, Fail
<1>1. SUFFICES ASSUME Cfr PROVE SlotsSoFar'
  BY <1>0, SetupFixed DEF SlotsSoFar
<1>2. IsVideo /\ ~Resamples /\ ~Atrim
  BY <1>1, SetupTyped DEF TypeOK
<1>3. CASE \E p \in (0..MaxPts) \cup {None} : ReadPacket(p)
  BY <1>3, SlotsQuiet DEF ReadPacket, cfrVars, encVars
<1>4. CASE EndOfInput \/ DropFrame \/ Untimed \/ DecoderEmpty \/ EmittedAll \/ EncoderEmpty
           \/ FlushEncoder \/ Fail
  <2>1. UNCHANGED <<setup, videoSent, due, nextSlot, accepted>>
    BY <1>4 DEF EndOfInput, DropFrame, Untimed, DecoderEmpty, EmittedAll, EncoderEmpty,
                FlushEncoder, Fail, cfrVars, encVars
  <2> QED BY <2>1, SlotsQuiet
<1>5. CASE \E stamped \in BOOLEAN : MuxPacket(stamped)
  BY <1>5, SlotsQuiet DEF MuxPacket, cfrVars
<1>6. CASE FlushResampler
  BY <1>2, <1>6, SlotsQuiet DEF FlushResampler, cfrVars, encVars
<1>7. CASE UNCHANGED vars
  BY <1>7, SlotsQuiet DEF vars, cfrVars, encVars
<1>8. CASE FilterOut \/ OverLimit
  <2>1. ~UnderLimit /\ UNCHANGED <<setup, videoSent, accepted>>
    BY <1>2, <1>8 DEF FilterOut, OverLimit, encVars
  <2> QED BY <2>1, GateStays, SetupFixed DEF SlotsSoFar
<1>9. CASE EmitFrame
  BY <1>1, <1>9, SlotsEmitted
<1>10. CASE HandleFrame
  <2> DEFINE f == Head(decBuf)
             t == FrameTime(f)
             n == IF last = NoFrame THEN 0 ELSE SlotsBefore(t - ShiftTicks)
  <2>1. /\ n \in Nat /\ Len(due') = n /\ nextSlot' = nextSlot + n
        /\ \A i \in 1..n : due'[i].pts = nextSlot + i - 1
    BY <1>1, <1>10, Handled
  <2>2. due = <<>> /\ UNCHANGED <<setup, videoSent, accepted>>
    BY <1>10 DEF HandleFrame, encVars, LoopsNest
  <2> HIDE DEF n
  <2>3. Len(accepted) \in Nat /\ Len(due) = 0
    BY <2>2 DEF TypeOK
  <2>4. UnderLimit' => nextSlot = Len(accepted)
    <3>1. UnderLimit => nextSlot = Len(accepted) + Len(due)
      BY <1>1 DEF SlotsSoFar
    <3>2. UnderLimit => nextSlot = Len(accepted)
      BY <2>3, <3>1
    <3> QED BY <2>2, <3>2, GateStays
  <2>5. /\ \A i \in 1..Len(due') : due'[i].pts = nextSlot + i - 1
        /\ nextSlot' = nextSlot + Len(due') /\ Len(accepted') = Len(accepted)
    BY <2>1, <2>2
  <2> QED BY <2>2, <2>4, <2>5, SetupFixed DEF SlotsSoFar
<1>11. CASE ReleaseHeld
  <2>1. /\ due = <<>> /\ UNCHANGED <<setup, videoSent, accepted>>
        /\ Len(accepted) \in Nat /\ Len(due) = 0
    BY <1>11 DEF ReleaseHeld, encVars, LoopsNest, TypeOK
  <2>2. CASE last # NoFrame
    <3> DEFINE g == InSlot(last, nextSlot)
    <3>1. due' = <<g>> /\ nextSlot' = nextSlot + 1
      BY <1>1, <1>11, <2>2 DEF ReleaseHeld
    <3>2. g.pts = nextSlot
      BY FrameParts DEF InSlot, TypeOK
    <3> HIDE DEF g
    <3>3. Len(due') = 1 /\ due'[1] = g
      BY <3>1
    <3>4. UnderLimit' => nextSlot = Len(accepted)
      <4>1. UnderLimit => nextSlot = Len(accepted) + Len(due)
        BY <1>1 DEF SlotsSoFar
      <4>2. UnderLimit => nextSlot = Len(accepted)
        BY <2>1, <4>1
      <4> QED BY <2>1, <4>2, GateStays
    <3>5. /\ \A i \in 1..Len(due') : due'[i].pts = nextSlot + i - 1
          /\ nextSlot' = nextSlot + Len(due') /\ Len(accepted') = Len(accepted)
          /\ nextSlot \in Nat
      BY <2>1, <3>1, <3>2, <3>3 DEF TypeOK
    <3> QED BY <2>1, <3>4, <3>5, SetupFixed DEF SlotsSoFar
  <2>3. CASE last = NoFrame
    BY <1>11, <2>1, <2>3, SlotsQuiet DEF ReleaseHeld, cfrVars
  <2> QED BY <2>2, <2>3
<1> QED BY <1>3, <1>4, <1>5, <1>6, <1>7, <1>8, <1>9, <1>10, <1>11 DEF Next

-----------------------------------------------------------------------------
(* The frames of the window. *)

\* Kept lists numbers of decoded frames, each inside the window.
LEMMA KeptTyped ==
    ASSUME decoded \in Seq(Frame)
    PROVE  /\ Kept \in Seq(1..Len(decoded)) /\ Len(Kept) \in Nat
           /\ \A k \in 1..Len(Kept) : Kept[k] \in 1..Len(decoded) /\ decoded[Kept[k]] \in Frame
           /\ decoded = <<>> => Kept = <<>>
<1> DEFINE S == {i \in 1..Len(decoded) : InWindow(i)}
<1>1. Len(decoded) \in Nat /\ S \subseteq 1..Len(decoded)
  OBVIOUS
<1>2. Kept = Ascending(S)
  BY DEF Kept
<1>3. decoded = <<>> => S = {}
  OBVIOUS
<1> HIDE DEF S
<1>4. /\ Ascending(S) \in Seq(1..Len(decoded))
      /\ S = {} => Ascending(S) = <<>>
  BY <1>1, AscendingLists
<1>5. Kept \in Seq(1..Len(decoded)) /\ (decoded = <<>> => Kept = <<>>)
  BY <1>2, <1>3, <1>4
<1>6. Len(Kept) \in Nat /\ \A k \in 1..Len(Kept) : Kept[k] \in 1..Len(decoded)
  BY <1>5, ElementOfSeq, LenProperties
<1>7. \A i \in 1..Len(decoded) : decoded[i] \in Frame
  BY ElementOfSeq
<1> QED BY <1>5, <1>6, <1>7

\* One more frame was decoded.
LEMMA DecodedGrows ==
    ASSUME decoded \in Seq(Frame), NEW f \in Frame, decoded' = Append(decoded, f),
           UNCHANGED setup, NEW n, n = Len(decoded) + 1
    PROVE  /\ decoded' \in Seq(Frame) /\ Len(decoded') = n /\ n \in Nat \ {0}
           /\ decoded'[n] = f
           /\ \A i \in 1..Len(decoded) : decoded'[i] = decoded[i]
           /\ \A i \in 1..Len(decoded) : TrueTime(i)' = TrueTime(i)
           /\ TrueTime(n)' = IF f.pts # None THEN f.pts ELSE n - 1
           /\ \A i \in 1..Len(decoded) : InWindow(i)' <=> InWindow(i)
<1>1. /\ decoded' \in Seq(Frame) /\ Len(decoded') = n /\ n \in Nat \ {0}
      /\ decoded'[n] = f
      /\ \A i \in 1..Len(decoded) : decoded'[i] = decoded[i]
  BY AppendProperties, LenProperties
<1>2. \A i \in 1..Len(decoded) : TrueTime(i)' = TrueTime(i)
  BY <1>1 DEF TrueTime
<1>3. TrueTime(n)' = IF f.pts # None THEN f.pts ELSE n - 1
  BY <1>1 DEF TrueTime
<1>4. \A i \in 1..Len(decoded) : InWindow(i)' <=> InWindow(i)
  BY <1>2, SetupFixed DEF InWindow
<1> QED BY <1>1, <1>2, <1>3, <1>4

\* It is kept if it is inside the window, after those kept before.
LEMMA KeptGrows ==
    ASSUME decoded \in Seq(Frame), NEW f \in Frame, decoded' = Append(decoded, f),
           UNCHANGED setup, NEW n, n = Len(decoded) + 1
    PROVE  /\ InWindow(n)' => Kept' = Append(Kept, n)
           /\ ~InWindow(n)' => Kept' = Kept
<1> DEFINE S == {i \in 1..Len(decoded) : InWindow(i)}
           T == {i \in 1..n : InWindow(i)'}
<1>1. /\ Len(decoded') = n /\ n \in Nat \ {0}
      /\ \A i \in 1..Len(decoded) : InWindow(i)' <=> InWindow(i)
      /\ Len(decoded) \in Nat
  BY DecodedGrows, LenProperties
<1>2. Kept = Ascending(S) /\ Kept' = Ascending(T)
  BY <1>1 DEF Kept
<1>3. S \subseteq 1..Len(decoded) /\ n \in Int /\ n > Len(decoded)
  BY <1>1
<1>4. InWindow(n)' => T = S \cup {n}
  BY <1>1
<1>5. ~InWindow(n)' => T = S
  BY <1>1
<1> HIDE DEF S, T
<1>6. Ascending(S \cup {n}) = Append(Ascending(S), n)
  <2>1. PICK m \in Nat : S \subseteq 1..m /\ n > m
    BY <1>1, <1>3
  <2>2. n \in Int
    BY <1>3
  <2> QED BY <2>1, <2>2, AscendingAppend
<1> QED BY <1>2, <1>4, <1>5, <1>6

\* The gate on a frame's time decides as the window does.
LEMMA WindowDecides ==
    ASSUME TypeOK, Identified, pc = "decode", decBuf # <<>>,
           NEW f, f = Head(decBuf), NEW t, t = FrameTime(f), NeedsTime => t # None,
           decoded' = Append(decoded, f), UNCHANGED setup, NEW n, n = Len(decoded) + 1
    PROVE  /\ NeedsTime => TrueTime(n)' = t /\ (InWindow(n)' <=> Keeps(t))
           /\ ~NeedsTime => InWindow(n)'
<1>1. f \in Frame /\ decoded \in Seq(Frame) /\ Len(decoded) \in Nat
  BY DEF TypeOK
<1>2. TrueTime(n)' = IF f.pts # None THEN f.pts ELSE n - 1
  BY <1>1, DecodedGrows
<1>3. ~IsVideo => clock = n - 1
  BY <1>1 DEF Identified
<1>4. NeedsTime => TrueTime(n)' = t
  BY <1>2, <1>3 DEF FrameTime
<1>5. UNCHANGED <<Trimming, TrimStart, TrimEnd>>
  BY SetupFixed
<1>6. NeedsTime => (InWindow(n)' <=> Keeps(t))
  BY <1>4, <1>5 DEF InWindow, Keeps
<1>7. ~NeedsTime => InWindow(n)'
  BY <1>5 DEF InWindow, NeedsTime
<1> QED BY <1>4, <1>6, <1>7

\* The k-th frame wanted.
LEMMA WantedTyped ==
    ASSUME TypeOK
    PROVE  /\ Wanted \in Seq(Frame) /\ Len(Wanted) = Len(Kept) /\ WindowStart = ShiftTicks
           /\ \A k \in 1..Len(Kept) : Wanted[k] = Shifted(decoded[Kept[k]])
<1>1. Len(Kept) \in Nat /\ \A k \in 1..Len(Kept) : decoded[Kept[k]] \in Frame
  BY KeptTyped DEF TypeOK
<1>2. WindowStart = ShiftTicks
  BY DEF WindowStart, ShiftTicks
<1>3. Wanted = [k \in 1..Len(Kept) |-> Shifted(decoded[Kept[k]])]
  BY <1>2 DEF Wanted, Shifted
<1>4. \A k \in 1..Len(Kept) : Shifted(decoded[Kept[k]]) \in Frame
  BY <1>1, TimesAreInts
<1>5. Wanted \in [1..Len(Kept) -> Frame]
  BY <1>3, <1>4
<1>6. Wanted \in Seq(Frame) /\ Len(Wanted) = Len(Kept)
  BY <1>1, <1>5
<1> QED BY <1>2, <1>3, <1>6

\* A frame that is kept is wanted, after those before it.
LEMMA WantedGrows ==
    ASSUME TypeOK, TypeOK', NEW f \in Frame, decoded' = Append(decoded, f),
           UNCHANGED setup, NEW n, n = Len(decoded) + 1
    PROVE  /\ InWindow(n)' => Wanted' = Append(Wanted, Shifted(f))
           /\ ~InWindow(n)' => Wanted' = Wanted
<1>0. decoded \in Seq(Frame)
  BY DEF TypeOK
<1>1. /\ InWindow(n)' => Kept' = Append(Kept, n)
      /\ ~InWindow(n)' => Kept' = Kept
  BY <1>0, KeptGrows
<1>2. /\ decoded'[n] = f
      /\ \A i \in 1..Len(decoded) : decoded'[i] = decoded[i]
  BY <1>0, DecodedGrows
<1>3. /\ Wanted \in Seq(Frame) /\ Len(Wanted) = Len(Kept) /\ Len(Kept) \in Nat
      /\ \A k \in 1..Len(Kept) : Wanted[k] = Shifted(decoded[Kept[k]])
      /\ \A k \in 1..Len(Kept) : Kept[k] \in 1..Len(decoded)
      /\ Kept \in Seq(Int)
  <2>1. Kept \in Seq(1..Len(decoded)) /\ \A k \in 1..Len(Kept) : Kept[k] \in 1..Len(decoded)
    BY <1>0, KeptTyped
  <2>2. Kept \in Seq(Int)
    BY <2>1, SeqOverElements
  <2> QED BY <1>0, <2>1, <2>2, WantedTyped, KeptTyped
<1>4. UNCHANGED <<Trimming, TrimStart>> /\ \A g : Shifted(g)' = Shifted(g)
  BY SetupFixed DEF Shifted, ShiftTicks
<1>5. /\ Wanted' = [k \in 1..Len(Kept') |-> Shifted(decoded'[Kept'[k]])]
      /\ Wanted = [k \in 1..Len(Kept) |-> Shifted(decoded[Kept[k]])]
  BY <1>4 DEF Wanted, Shifted, WindowStart, ShiftTicks
<1>6. ASSUME ~InWindow(n)' PROVE Wanted' = Wanted
  BY <1>1, <1>2, <1>3, <1>5, <1>6
<1>7. ASSUME InWindow(n)' PROVE Wanted' = Append(Wanted, Shifted(f))
  <2>1. n \in Int /\ Kept' = Append(Kept, n)
    BY <1>0, <1>1, <1>7, LenProperties
  <2>2. /\ Len(Kept') = Len(Kept) + 1 /\ Kept'[Len(Kept) + 1] = n
        /\ \A k \in 1..Len(Kept) : Kept'[k] = Kept[k]
    BY <1>3, <2>1, AppendProperties
  <2>3. Shifted(f) \in Frame
    BY TimesAreInts
  <2>4. /\ Append(Wanted, Shifted(f)) \in Seq(Frame)
        /\ Len(Append(Wanted, Shifted(f))) = Len(Kept) + 1
        /\ \A k \in 1..Len(Kept) : Append(Wanted, Shifted(f))[k] = Wanted[k]
        /\ Append(Wanted, Shifted(f))[Len(Kept) + 1] = Shifted(f)
    BY <1>3, <2>3, AppendProperties
  <2>5. ASSUME NEW k \in 1..(Len(Kept) + 1)
        PROVE  Append(Wanted, Shifted(f))[k] = Shifted(decoded'[Kept'[k]])
    <3>1. CASE k = Len(Kept) + 1
      BY <1>2, <2>2, <2>4, <3>1
    <3>2. CASE k \in 1..Len(Kept)
      <4>1. Kept'[k] = Kept[k] /\ Kept[k] \in 1..Len(decoded)
        BY <1>3, <2>2, <3>2
      <4> QED BY <1>2, <1>3, <2>4, <3>2, <4>1
    <3>3. k = Len(Kept) + 1 \/ k \in 1..Len(Kept)
      BY <1>3
    <3> QED BY <3>1, <3>2, <3>3
  <2> DEFINE w == Append(Wanted, Shifted(f))
  <2>6. w \in Seq(Frame) /\ Len(w) = Len(Kept) + 1
    BY <2>4
  <2> HIDE DEF w
  <2>7. w = [k \in 1..(Len(Kept) + 1) |-> w[k]]
    BY <2>6, LenProperties
  <2>8. \A k \in 1..(Len(Kept) + 1) : w[k] = Shifted(decoded'[Kept'[k]])
    BY <2>5 DEF w
  <2>9. Wanted' = w
    BY <1>5, <2>2, <2>7, <2>8
  <2> QED BY <2>9 DEF w
<1> QED BY <1>6, <1>7

-----------------------------------------------------------------------------
(* The encoder is given the frames wanted. *)

\* Without a tail, all frames accepted are decoded ones.
LEMMA NoTail ==
    ASSUME accepted \in Seq(Frame), \A i \in 1..Len(accepted) : accepted[i].id > 0
    PROVE  AcceptedFrames = accepted
<1>1. CASE accepted = <<>>
  BY <1>1 DEF AcceptedFrames, HasTail
<1>2. CASE accepted # <<>>
  <2>1. Len(accepted) \in 1..Len(accepted) /\ Last(accepted) = accepted[Len(accepted)]
    BY <1>2 DEF Last
  <2>2. Last(accepted).id # 0
    BY <2>1
  <2> QED BY <2>2 DEF AcceptedFrames, HasTail
<1> QED BY <1>1, <1>2

LEMMA GivenTyped ==
    ASSUME accepted \in Seq(Frame)
    PROVE  AcceptedFrames \in Seq(Frame)
<1>1. accepted # <<>> => SubSeq(accepted, 1, Len(accepted) - 1) \in Seq(Frame)
  BY LenProperties
<1> QED BY <1>1 DEF AcceptedFrames, HasTail, Front

\* What was accepted of what is wanted.
SomeOf(given, wanted) ==
    /\ Len(given) <= Len(wanted)
    /\ \A i \in 1..Len(given) : given[i] = wanted[i]

LEMMA SomeOfAppend ==
    ASSUME NEW S, NEW s \in Seq(S), NEW t \in Seq(S), NEW e \in S, SomeOf(s, t)
    PROVE  SomeOf(s, Append(t, e))
BY AppendProperties, LenProperties DEF SomeOf

LEMMA SomeOfConcat ==
    ASSUME NEW S, NEW s \in Seq(S), NEW t \in Seq(S)
    PROVE  SomeOf(s, s \o t)
BY ConcatParts, LenProperties DEF SomeOf

LEMMA WindowInit == Init => WindowSoFar
<1> SUFFICES ASSUME Init PROVE WindowSoFar
  OBVIOUS
<1>1. /\ decoded = <<>> /\ accepted = <<>> /\ due = <<>> /\ decoded \in Seq(Frame)
      /\ accepted \in Seq(Frame)
  BY DEF Init
<1>2. Kept = <<>>
  BY <1>1, KeptTyped
<1>3. Wanted = <<>>
  BY <1>2 DEF Wanted
<1>4. AcceptedFrames = <<>>
  BY <1>1, NoTail
<1> QED BY <1>1, <1>3, <1>4 DEF WindowSoFar

LEMMA WantedStays ==
    ASSUME UNCHANGED <<setup, decoded>>
    PROVE  Kept' = Kept /\ Wanted' = Wanted
<1>1. Kept' = Kept
  BY SetupFixed DEF Kept, InWindow, TrueTime
<1>2. Wanted' = Wanted
  BY <1>1, SetupFixed DEF Wanted, WindowStart
<1> QED BY <1>1, <1>2

LEMMA WindowQuiet ==
    ASSUME WindowSoFar, UNCHANGED <<setup, videoSent, due, decoded, accepted>>,
           pc = "failed" => pc' = "failed"
    PROVE  WindowSoFar'
<1>1. Wanted' = Wanted
  BY WantedStays
<1>2. AcceptedFrames' = AcceptedFrames
  BY DEF AcceptedFrames, HasTail
<1> QED BY <1>1, <1>2, SetupFixed, GateStays DEF WindowSoFar

LEMMA WindowEmitted ==
    ASSUME TypeOK, TypeOK', LoopsNest, Identified, Identified', WindowSoFar,
           ~Cfr, ~Atrim, EmitFrame
    PROVE  WindowSoFar'
<1>1. /\ due # <<>> /\ UnderLimit /\ due' = Tail(due) /\ pc # "failed"
      /\ accepted' = Append(accepted, Head(due)) /\ UNCHANGED <<setup, decoded>>
      /\ stage' = stage
  BY DEF EmitFrame, decVars
<1>2. due \in Seq(Frame) /\ accepted \in Seq(Frame) /\ accepted' \in Seq(Frame)
      /\ due' \in Seq(Frame)
  BY DEF TypeOK
<1>3. /\ \A i \in 1..Len(accepted) : accepted[i].id > 0
      /\ Head(due) \in Frame /\ Head(due).id > 0
  BY IdentifiedEmitted
<1>4. \A i \in 1..Len(accepted') : accepted'[i].id > 0
  <2>1. stage \notin {"tail", "end"}
    BY <1>1 DEF LoopsNest
  <2> QED BY <1>1, <2>1 DEF Identified
<1>5. AcceptedFrames = accepted
  BY <1>2, <1>3, NoTail
<1>6. AcceptedFrames' = accepted'
  <2>1. accepted' = <<>> \/ Last(accepted').id # 0
    <3>1. accepted' # <<>> => Len(accepted') \in 1..Len(accepted')
      BY <1>2
    <3> QED BY <1>4, <3>1 DEF Last
  <2> QED BY <2>1 DEF AcceptedFrames, HasTail
<1>7. accepted' \o due' = accepted \o due
  BY <1>1, <1>2, HeadMoves
<1>8. Wanted' = Wanted
  BY <1>1, WantedStays
<1>9. accepted' \o due' = Wanted'
  BY <1>1, <1>5, <1>7, <1>8 DEF WindowSoFar
<1>10. SomeOf(accepted', Wanted')
  <2>1. SomeOf(accepted', accepted' \o due')
    BY <1>2, SomeOfConcat
  <2> QED BY <1>9, <2>1
<1> QED BY <1>6, <1>9, <1>10 DEF WindowSoFar, SomeOf

\* A frame leaves the decoder and is kept, or dropped by the gate.
LEMMA WindowDecoded ==
    ASSUME TypeOK, TypeOK', LoopsNest, Identified, WindowSoFar, ~Cfr, ~Atrim,
           HandleFrame \/ DropFrame
    PROVE  WindowSoFar'
<1> DEFINE f == Head(decBuf)
           t == FrameTime(f)
<1>0. PICK n \in Int : n = Len(decoded) + 1
  BY LenProperties DEF TypeOK
<1>1. /\ pc = "decode" /\ decBuf # <<>> /\ decoded' = Append(decoded, f)
      /\ UNCHANGED <<setup, videoSent, accepted>> /\ (NeedsTime => t # None)
  BY DEF HandleFrame, DropFrame, NoteDecoded, encVars
<1>2. f \in Frame /\ due = <<>> /\ decoded \in Seq(Frame)
  BY <1>1 DEF LoopsNest, TypeOK
<1>3. /\ NeedsTime => (InWindow(n)' <=> Keeps(t))
      /\ ~NeedsTime => InWindow(n)'
  BY <1>0, <1>1, WindowDecides
<1>4. /\ InWindow(n)' => Wanted' = Append(Wanted, Shifted(f))
      /\ ~InWindow(n)' => Wanted' = Wanted
  BY <1>0, <1>1, <1>2, WantedGrows
<1>5. Wanted \in Seq(Frame) /\ Shifted(f) \in Frame
  BY <1>2, WantedTyped, TimesAreInts
<1>6. AcceptedFrames' = AcceptedFrames
  BY <1>1 DEF AcceptedFrames, HasTail
<1>7. CASE HandleFrame
  <2>1. InWindow(n)' /\ due' = <<Shifted(f)>>
    BY <1>3, <1>7 DEF HandleFrame
  <2> HIDE DEF f, t
  <2>2. Wanted' = Append(Wanted, Shifted(f))
    BY <1>4, <2>1
  <2>3. /\ UnderLimit => AcceptedFrames \o due = Wanted
        /\ SomeOf(AcceptedFrames, Wanted)
    BY <1>1 DEF WindowSoFar, SomeOf
  <2>4. AcceptedFrames \in Seq(Frame)
    BY GivenTyped DEF TypeOK
  <2>5. UnderLimit => AcceptedFrames \o due' = Wanted'
    <3>1. UnderLimit => AcceptedFrames = Wanted
      BY <1>2, <2>3, <2>4, ConcatEmptySeq
    <3>2. Append(Wanted, Shifted(f)) = Wanted \o <<Shifted(f)>>
      BY <1>5, AppendIsConcat
    <3> QED BY <2>1, <2>2, <3>1, <3>2
  <2>6. SomeOf(AcceptedFrames, Wanted')
    BY <1>5, <2>2, <2>3, <2>4, SomeOfAppend
  <2> QED BY <1>1, <1>6, <2>5, <2>6, GateStays DEF WindowSoFar, SomeOf
<1>8. CASE DropFrame
  <2>1. ~InWindow(n)' /\ due' = due
    BY <1>3, <1>8 DEF DropFrame
  <2> HIDE DEF f, t
  <2>2. Wanted' = Wanted
    BY <1>4, <2>1
  <2> QED BY <1>1, <1>6, <2>1, <2>2, GateStays DEF WindowSoFar
<1> QED BY <1>7, <1>8

LEMMA WindowStep ==
    /\ TypeOK /\ TypeOK' /\ LoopsNest /\ Identified /\ Identified'
    /\ WindowSoFar /\ [Next]_vars
    => WindowSoFar'
<1> SUFFICES ASSUME TypeOK, TypeOK', LoopsNest, Identified, Identified', WindowSoFar,
                    [Next]_vars
             PROVE  WindowSoFar'
  OBVIOUS
<1>0. UNCHANGED setup
  BY DEF Next, vars, ReadPacket, EndOfInput, DropFrame, HandleFrame, Untimed, DecoderEmpty,
         EmitFrame, FilterOut, OverLimit, EmittedAll, MuxPacket, EncoderEmpty, ReleaseHeld,
         FlushResampler, FlushEncoder, Fail
<1>1. SUFFICES ASSUME ~Cfr, ~Atrim PROVE WindowSoFar'
  BY <1>0, SetupFixed DEF WindowSoFar
<1>2. CASE \E p \in (0..MaxPts) \cup {None} : ReadPacket(p)
  BY <1>2, WindowQuiet DEF ReadPacket, encVars
<1>3. CASE EndOfInput \/ DecoderEmpty \/ EmittedAll \/ EncoderEmpty \/ FlushEncoder \/ Fail
  <2>1. UNCHANGED <<setup, videoSent, due, decoded, accepted>> /\ pc # "failed"
    BY <1>3 DEF EndOfInput, DecoderEmpty, EmittedAll, EncoderEmpty, FlushEncoder, Fail,
                decVars, encVars
  <2> QED BY <2>1, WindowQuiet
<1>4. CASE \E stamped \in BOOLEAN : MuxPacket(stamped)
  BY <1>4, WindowQuiet DEF MuxPacket, decVars
<1>5. CASE Untimed
  BY <1>5 DEF Untimed, WindowSoFar
<1>6. CASE UNCHANGED vars
  BY <1>6, WindowQuiet DEF vars, decVars, encVars
<1>7. CASE FilterOut \/ OverLimit
  <2>1. /\ ~UnderLimit /\ UNCHANGED <<setup, videoSent, decoded, accepted>> /\ pc # "failed"
    BY <1>1, <1>7 DEF FilterOut, OverLimit, decVars, encVars
  <2>2. Wanted' = Wanted
    BY <2>1, WantedStays
  <2>3. AcceptedFrames' = AcceptedFrames /\ ~UnderLimit'
    BY <2>1, GateStays DEF AcceptedFrames, HasTail
  <2> QED BY <1>1, <2>1, <2>2, <2>3 DEF WindowSoFar
<1>8. CASE HandleFrame \/ DropFrame
  BY <1>1, <1>8, WindowDecoded
<1>9. CASE EmitFrame
  BY <1>1, <1>9, WindowEmitted
<1>10. CASE ReleaseHeld
  <2>1. UNCHANGED <<setup, videoSent, due, decoded, accepted>> /\ pc # "failed"
    BY <1>1, <1>10 DEF ReleaseHeld, decVars, encVars
  <2> QED BY <2>1, WindowQuiet
<1>11. CASE FlushResampler
  <2>1. UNCHANGED <<setup, due, decoded>> /\ pc = "tail" /\ stage = "held"
    BY <1>11 DEF FlushResampler, decVars, LoopsNest
  <2>2. CASE UNCHANGED encVars
    BY <2>1, <2>2, WindowQuiet DEF encVars
  <2>3. CASE accepted' = Append(accepted, NoFrame) /\ videoSent' = videoSent
    <3>1. accepted \in Seq(Frame) /\ \A i \in 1..Len(accepted) : accepted[i].id > 0
      BY <2>1 DEF TypeOK, Identified
    <3>2. AcceptedFrames = accepted
      BY <3>1, NoTail
    <3>3. AcceptedFrames' = accepted
      <4>1. NoFrame \in Frame /\ NoFrame.id = 0
        BY FrameParts DEF NoFrame
      <4>2. /\ accepted' \in Seq(Frame) /\ Len(accepted') = Len(accepted) + 1
            /\ accepted'[Len(accepted) + 1] = NoFrame
            /\ \A i \in 1..Len(accepted) : accepted'[i] = accepted[i]
        BY <2>3, <3>1, <4>1, AppendProperties
      <4>3. accepted' # <<>> /\ Last(accepted') = NoFrame
        BY <4>2 DEF Last
      <4>4. SubSeq(accepted', 1, Len(accepted)) = accepted
        BY <3>1, <4>2
      <4>5. Front(accepted') = accepted
        BY <3>1, <4>2, <4>4 DEF Front
      <4> QED BY <4>1, <4>3, <4>5 DEF AcceptedFrames, HasTail
    <3>4. Wanted' = Wanted
      BY <2>1, WantedStays
    <3> QED BY <1>1, <2>1, <2>3, <3>2, <3>3, <3>4, GateStays DEF WindowSoFar
  <2> QED BY <1>11, <2>2, <2>3 DEF FlushResampler
<1> QED BY <1>2, <1>3, <1>4, <1>5, <1>6, <1>7, <1>8, <1>9, <1>10, <1>11 DEF Next

\* At the end nothing is due, and the limit cuts off what is left.
LEMMA WindowIsExact ==
    TypeOK /\ LoopsNest /\ Identified /\ WindowSoFar => WindowExact
<1> SUFFICES ASSUME TypeOK, LoopsNest, Identified, WindowSoFar, pc = "done", ~Cfr, ~Atrim
             PROVE  AcceptedFrames = Truncated(Wanted)
  BY DEF WindowExact
<1> DEFINE given == AcceptedFrames
           wanted == Wanted
<1>1. /\ due = <<>> /\ given \in Seq(Frame) /\ wanted \in Seq(Frame)
  BY WantedTyped, GivenTyped DEF LoopsNest, TypeOK
<1>2. UnderLimit => given \o due = wanted
  BY DEF WindowSoFar
<1>3. Len(given) <= Len(wanted) /\ \A i \in 1..Len(given) : given[i] = wanted[i]
  BY DEF WindowSoFar
<1>4. IsVideo /\ Limit # None =>
          Limit \in Nat /\ Len(given) = videoSent /\ videoSent <= Limit
  <2> SUFFICES ASSUME IsVideo, Limit # None
               PROVE  Limit \in Nat /\ Len(given) = videoSent /\ videoSent <= Limit
    OBVIOUS
  <2>1. given = accepted
    BY NoTail DEF TypeOK, Identified
  <2> QED BY <2>1, SetupTyped DEF TypeOK, Identified
<1> HIDE DEF given, wanted
<1>5. CASE UnderLimit
  <2>1. given = wanted
    BY <1>1, <1>2, <1>5, ConcatEmptySeq
  <2>2. Truncated(wanted) = wanted
    BY <1>4, <1>5, <2>1 DEF Truncated, UnderLimit
  <2> QED BY <2>1, <2>2 DEF given, wanted
<1>6. CASE ~UnderLimit
  <2>1. Limit \in Nat /\ Len(given) = Limit /\ IsVideo /\ Limit # None
    BY <1>4, <1>6 DEF UnderLimit, TypeOK
  <2>2. CASE Len(wanted) <= Limit
    <3>1. Len(wanted) = Len(given)
      BY <1>1, <1>3, <2>1, <2>2
    <3>2. wanted = given
      BY <1>1, <1>3, <3>1, SeqEqual
    <3> QED BY <2>2, <3>2 DEF Truncated, given, wanted
  <2>3. CASE Len(wanted) > Limit
    <3>1. Truncated(wanted) = SubSeq(wanted, 1, Limit)
      BY <1>1, <2>1, <2>3 DEF Truncated
    <3>2. SubSeq(wanted, 1, Limit) = given
      BY <1>1, <1>3, <2>1, <2>3
    <3> QED BY <3>1, <3>2 DEF given, wanted
  <2> QED BY <1>1, <2>1, <2>2, <2>3
<1> QED BY <1>5, <1>6

-----------------------------------------------------------------------------
(* Every slot shows the latest frame. *)

LEMMA ProductsRise ==
    ASSUME NEW a \in Int, NEW b \in Int, NEW c \in Nat, a <= b
    PROVE  a * c <= b * c
<1>1. b - a \in Nat
  OBVIOUS
<1>2. (b - a) * c \in Nat /\ (b - a) * c = b * c - a * c
  BY <1>1
<1>3. a * c \in Int /\ b * c \in Int
  OBVIOUS
<1> QED BY <1>2, <1>3

\* A frame at time x fills the slots that begin before x, and only those.
LEMMA SlotsReach ==
    ASSUME nextSlot \in Nat, setup \in Setups, NEW x \in Int, NEW m, m = SlotsBefore(x)
    PROVE  /\ m \in Nat /\ x <= (nextSlot + m) * SlotTicks
           /\ \A s \in nextSlot..(nextSlot + m - 1) : s * SlotTicks < x
<1>1. m \in Nat /\ SlotTicks \in Nat \ {0}
  BY SlotCount, SetupTyped
<1>2. CASE ~(x > nextSlot * SlotTicks)
  <2>1. m = 0
    BY <1>2 DEF SlotsBefore
  <2>2. nextSlot * SlotTicks \in Int
    BY <1>1
  <2> QED BY <1>1, <1>2, <2>1, <2>2
<1>3. CASE x > nextSlot * SlotTicks
  <2> DEFINE q == (x - 1) \div SlotTicks
             r == (x - 1) % SlotTicks
             S == SlotTicks
  <2>1. q \in Int /\ r \in 0..(S - 1) /\ x - 1 = S * q + r
    BY <1>1
  <2>2. nextSlot + m = q + 1
    BY <1>1, <1>3, <2>1 DEF SlotsBefore
  <2>3. S \in Nat
    BY <1>1
  <2> HIDE DEF q, r, S
  <2>4. S * q \in Int /\ (q + 1) * S = S * q + S
    BY <2>1, <2>3
  <2>5. x <= (q + 1) * S
    BY <2>1, <2>3, <2>4
  <2>6. ASSUME NEW s \in nextSlot..(nextSlot + m - 1) PROVE s * S < x
    <3>1. s \in Int /\ s <= q
      BY <1>1, <2>1, <2>2
    <3>2. s * S <= q * S /\ s * S \in Int /\ q * S = S * q
      BY <2>1, <2>3, <3>1, ProductsRise
    <3> QED BY <2>1, <2>4, <3>2
  <2> QED BY <1>1, <2>2, <2>5, <2>6 DEF S
<1> QED BY <1>2, <1>3

LEMMA OutTimeTyped ==
    ASSUME TypeOK
    PROVE  \A k \in 1..Len(Kept) : OutTime(k) \in Int
<1>1. WindowStart \in Int
  BY SetupTyped DEF TypeOK, WindowStart
<1>2. ASSUME NEW k \in 1..Len(Kept) PROVE OutTime(k) \in Int
  <2>1. Kept[k] \in 1..Len(decoded) /\ decoded[Kept[k]] \in Frame
    BY KeptTyped DEF TypeOK
  <2>2. Kept[k] \in Int /\ decoded[Kept[k]].pts \in Int \cup {None}
    BY <2>1, FrameParts
  <2>3. TrueTime(Kept[k]) \in Int
    BY <2>2 DEF TrueTime
  <2> QED BY <1>1, <2>3 DEF OutTime
<1> QED BY <1>2

\* Slots that no earlier frame took show the latest frame.
LEMMA ShownHeld ==
    ASSUME TypeOK, NEW n, n = Len(Kept), n > 0, NEW s \in Int, s >= nextSlot,
           n > 1 => OutTime(n) <= nextSlot * SlotTicks
    PROVE  ShownIn(s) = decoded[Kept[n]].id
<1>1. /\ n \in Nat /\ n \in 1..n /\ SlotTicks \in Nat /\ nextSlot \in Nat
      /\ \A k \in 1..n : OutTime(k) \in Int
  BY KeptTyped, OutTimeTyped, SetupTyped DEF TypeOK
<1> DEFINE T == Started(s)
<1>2. T \subseteq 1..n
  BY DEF Started
<1>3. CASE n = 1
  <2>1. T = {} \/ T = {1}
    BY <1>2, <1>3
  <2>2. T = {1} => Max(T) = 1
    <3>1. \A N \in Nat : T \subseteq 1..N /\ T # {} => Max(T) \in T
      BY GreatestElement
    <3> QED BY <1>2, <1>3, <3>1
  <2> QED BY <1>3, <2>1, <2>2 DEF ShownIn
<1>4. CASE n > 1
  <2>1. nextSlot * SlotTicks <= s * SlotTicks /\ nextSlot * SlotTicks \in Int
        /\ s * SlotTicks \in Int
    BY <1>1, ProductsRise
  <2>2. n \in T
    BY <1>1, <1>4, <2>1 DEF Started
  <2>3. Max(T) \in T /\ \A m \in T : m <= Max(T)
    BY <1>1, <1>2, <2>2, GreatestElement
  <2>4. Max(T) = n
    BY <1>1, <1>2, <2>2, <2>3
  <2> QED BY <2>2, <2>4 DEF ShownIn
<1> QED BY <1>1, <1>3, <1>4

\* The frame a slot shows is one of those kept.
LEMMA ShownIsKept ==
    ASSUME TypeOK, Len(Kept) > 0, NEW s
    PROVE  (IF Started(s) = {} THEN 1 ELSE Max(Started(s))) \in 1..Len(Kept)
<1>1. Len(Kept) \in Nat /\ Started(s) \subseteq 1..Len(Kept)
  BY KeptTyped DEF Started, TypeOK
<1>2. Started(s) # {} => Max(Started(s)) \in Started(s)
  BY <1>1, GreatestElement
<1> QED BY <1>1, <1>2

\* What is known of the frames kept stays when one more is decoded.
LEMMA KeptStays ==
    ASSUME TypeOK, NEW f \in Frame, decoded' = Append(decoded, f), UNCHANGED setup
    PROVE  /\ \A k \in 1..Len(Kept) : /\ Kept'[k] = Kept[k]
                                      /\ decoded'[Kept'[k]] = decoded[Kept[k]]
                                      /\ OutTime(k)' = OutTime(k)
           /\ Len(Kept') \in {Len(Kept), Len(Kept) + 1}
<1>0. PICK d \in Int : d = Len(decoded) + 1
  BY LenProperties DEF TypeOK
<1>1. /\ decoded \in Seq(Frame) /\ Kept \in Seq(Int) /\ Len(Kept) \in Nat
      /\ \A k \in 1..Len(Kept) : Kept[k] \in 1..Len(decoded)
  <2>1. Kept \in Seq(1..Len(decoded)) /\ \A k \in 1..Len(Kept) : Kept[k] \in 1..Len(decoded)
    BY KeptTyped DEF TypeOK
  <2>2. Kept \in Seq(Int)
    BY <2>1, SeqOverElements
  <2> QED BY <2>1, <2>2, LenProperties DEF TypeOK
<1>2. /\ \A i \in 1..Len(decoded) : decoded'[i] = decoded[i]
      /\ \A i \in 1..Len(decoded) : TrueTime(i)' = TrueTime(i)
  BY <1>0, <1>1, DecodedGrows
<1>3. Kept' = Kept \/ Kept' = Append(Kept, d)
  BY <1>0, <1>1, KeptGrows
<1>4. /\ \A k \in 1..Len(Kept) : Kept'[k] = Kept[k]
      /\ Len(Kept') \in {Len(Kept), Len(Kept) + 1}
  <2>1. CASE Kept' = Kept
    BY <2>1, <1>1
  <2>2. CASE Kept' = Append(Kept, d)
    <3>1. \A s \in Seq(Int), e \in Int : /\ Len(Append(s, e)) = Len(s) + 1
                                        /\ \A k \in 1..Len(s) : Append(s, e)[k] = s[k]
      OBVIOUS
    <3> QED BY <3>1, <2>2, <1>0, <1>1
  <2> QED BY <2>1, <2>2, <1>3
<1>5. WindowStart' = WindowStart
  BY SetupFixed DEF WindowStart
<1>6. ASSUME NEW k \in 1..Len(Kept)
      PROVE  decoded'[Kept'[k]] = decoded[Kept[k]] /\ OutTime(k)' = OutTime(k)
  <2>1. Kept'[k] = Kept[k] /\ Kept[k] \in 1..Len(decoded)
    BY <1>1, <1>4
  <2>2. PICK i \in 1..Len(decoded) : i = Kept[k]
    BY <2>1
  <2>3. TrueTime(i)' = TrueTime(i) /\ i = Kept'[k]
    BY <1>2, <2>1, <2>2
  <2>4. OutTime(k)' = TrueTime(i)' - WindowStart'
    BY <2>3 DEF OutTime, TrueTime
  <2> QED BY <1>2, <1>5, <2>1, <2>2, <2>3, <2>4 DEF OutTime
<1> QED BY <1>4, <1>6

LEMMA ShownInit == Init => ShownSoFar
<1> SUFFICES ASSUME Init PROVE ShownSoFar
  OBVIOUS
<1>1. /\ decoded = <<>> /\ accepted = <<>> /\ due = <<>> /\ decoded \in Seq(Frame)
      /\ last = NoFrame /\ nextSlot = 0 /\ stage = "stream"
  BY DEF Init
<1>2. Kept = <<>>
  BY <1>1, KeptTyped
<1>3. HeldIsLatest /\ LastIsReleased
  BY <1>1, <1>2 DEF HeldIsLatest, LastIsReleased
<1> QED BY <1>1, <1>3 DEF ShownSoFar

\* What is shown is fixed by the frames decoded.
LEMMA ShownStays ==
    ASSUME UNCHANGED setup, Kept' = Kept,
           \A k \in 1..Len(Kept) : /\ decoded'[Kept[k]] = decoded[Kept[k]]
                                   /\ OutTime(k)' = OutTime(k),
           Len(Kept) \in Nat
    PROVE  /\ \A s : Started(s)' = Started(s)
           /\ Monotone' <=> Monotone
<1>1. SlotTicks' = SlotTicks
  BY SetupFixed
<1>2. \A s : Started(s)' = Started(s)
  BY <1>1 DEF Started
<1>3. Monotone' <=> Monotone
  <2>1. \A k \in 1..(Len(Kept) - 1) : k \in 1..Len(Kept) /\ k + 1 \in 1..Len(Kept)
    OBVIOUS
  <2> QED BY <2>1 DEF Monotone
<1> QED BY <1>2, <1>3

\* While no frame is decoded, the same frames are kept and shown.
LEMMA ShownFixed ==
    ASSUME UNCHANGED <<setup, decoded>>
    PROVE  /\ SlotTicks' = SlotTicks /\ Kept' = Kept
           /\ \A k : OutTime(k)' = OutTime(k)
           /\ \A s : ShownIn(s)' = ShownIn(s)
           /\ Monotone' <=> Monotone
<1>1. SlotTicks' = SlotTicks /\ Kept' = Kept /\ WindowStart' = WindowStart
  BY WantedStays, SetupFixed DEF WindowStart
<1>2. \A k : OutTime(k)' = OutTime(k)
  BY <1>1 DEF OutTime, TrueTime
<1>3. \A s : Started(s)' = Started(s)
  BY <1>1, <1>2 DEF Started
<1>4. \A s : ShownIn(s)' = ShownIn(s)
  BY <1>1, <1>3 DEF ShownIn
<1>5. Monotone' <=> Monotone
  BY <1>1, <1>2 DEF Monotone
<1> QED BY <1>1, <1>2, <1>4, <1>5

LEMMA ShownMoves ==
    ASSUME TypeOK, Len(Kept) > 0,
           \A k \in 1..Len(Kept) : decoded'[Kept'[k]] = decoded[Kept[k]],
           NEW s \in Int, Started(s)' = Started(s)
    PROVE  ShownIn(s)' = ShownIn(s)
<1> DEFINE m == IF Started(s) = {} THEN 1 ELSE Max(Started(s))
<1>1. m \in 1..Len(Kept)
  BY ShownIsKept
<1>2. ShownIn(s) = decoded[Kept[m]].id /\ ShownIn(s)' = decoded'[Kept'[m]].id
  BY DEF ShownIn
<1> QED BY <1>1, <1>2

\* A step that neither keeps a frame nor gives out a slot.
LEMMA ShownQuiet ==
    ASSUME TypeOK, ShownSoFar,
           UNCHANGED <<setup, videoSent, due, accepted, nextSlot, last>>,
           stage \in {"stream", "flush"} <=> stage' \in {"stream", "flush"},
           stage \in {"held", "tail", "end"} <=> stage' \in {"held", "tail", "end"},
           pc = "failed" => pc' = "failed",
           Kept' = Kept,
           \A k \in 1..Len(Kept) : /\ decoded'[Kept[k]] = decoded[Kept[k]]
                                   /\ OutTime(k)' = OutTime(k)
    PROVE  ShownSoFar'
<1>1. Len(Kept) \in Nat /\ Kept \in Seq(1..Len(decoded))
  BY KeptTyped DEF TypeOK
<1>2. (\A s : Started(s)' = Started(s)) /\ (Monotone' <=> Monotone)
  BY <1>1, ShownStays
<1> SUFFICES ASSUME Cfr', pc' # "failed", Monotone'
             PROVE  /\ \A i \in 1..Len(accepted') : Shows(accepted[i])'
                    /\ \A i \in 1..Len(due') : Shows(due[i])'
                    /\ HeldIsLatest' /\ LastIsReleased'
  BY DEF ShownSoFar
<1>3. /\ \A i \in 1..Len(accepted) : Shows(accepted[i])
      /\ \A i \in 1..Len(due) : Shows(due[i])
      /\ HeldIsLatest /\ LastIsReleased
  BY <1>2, SetupFixed DEF ShownSoFar
<1>4. HeldIsLatest'
  <2>1. Len(Kept) > 0 => decoded'[Kept'[Len(Kept)]] = decoded[Kept[Len(Kept)]]
                         /\ OutTime(Len(Kept))' = OutTime(Len(Kept))
    BY <1>1
  <2>2. SlotTicks' = SlotTicks
    BY SetupFixed
  <2> QED BY <1>1, <1>3, <2>1, <2>2 DEF HeldIsLatest
<1>5. LastIsReleased'
  <2>1. Kept # <<>> => Last(Kept) = Kept[Len(Kept)] /\ Len(Kept) \in 1..Len(Kept)
    BY <1>1 DEF Last
  <2>2. Kept # <<>> => decoded'[Last(Kept)] = decoded[Last(Kept)]
    BY <2>1
  <2> QED BY <1>3, <2>2, GateStays DEF LastIsReleased
<1>6. ASSUME NEW s \in 0..(nextSlot - 1) PROVE ShownIn(s)' = ShownIn(s)
  <2>1. Len(Kept) > 0
    BY <1>1, <1>3, <1>6 DEF HeldIsLatest, TypeOK
  <2> QED BY <1>2, <2>1, ShownMoves
<1>7. /\ \A i \in 1..Len(accepted') : Shows(accepted[i])'
      /\ \A i \in 1..Len(due') : Shows(due[i])'
  BY <1>3, <1>6 DEF Shows
<1> QED BY <1>4, <1>5, <1>7

\* What was accepted and is due is the same after a frame went to the encoder.
LEMMA ShownEmitted ==
    ASSUME TypeOK, ShownSoFar, EmitFrame, Cfr
    PROVE  ShownSoFar'
<1> DEFINE f == Head(due)
<1>1. /\ due # <<>> /\ UnderLimit /\ due' = Tail(due) /\ pc # "failed"
      /\ accepted' = Append(accepted, f)
      /\ UNCHANGED <<setup, stage, decoded, nextSlot, last>>
  BY DEF EmitFrame, decVars, cfrVars
<1>2. /\ due \in Seq(Frame) /\ accepted \in Seq(Frame) /\ f \in Frame
      /\ f = due[1] /\ Len(due) > 0
  BY <1>1 DEF TypeOK
<1>3. Kept' = Kept /\ Len(Kept) \in Nat
  BY <1>1, WantedStays, KeptTyped DEF TypeOK
<1>4. /\ UNCHANGED <<SlotTicks, Cfr>>
      /\ \A k : OutTime(k)' = OutTime(k)
      /\ \A s : ShownIn(s)' = ShownIn(s)
  BY <1>1, ShownFixed, SetupFixed
<1>5. Monotone' <=> Monotone
  BY <1>1, ShownFixed
<1> SUFFICES ASSUME Monotone
             PROVE  /\ \A i \in 1..Len(accepted') : Shows(accepted[i])'
                    /\ \A i \in 1..Len(due') : Shows(due[i])'
                    /\ HeldIsLatest' /\ LastIsReleased'
  BY <1>5 DEF ShownSoFar
<1>6. /\ \A i \in 1..Len(accepted) : Shows(accepted[i])
      /\ \A i \in 1..Len(due) : Shows(due[i])
      /\ HeldIsLatest /\ LastIsReleased
  BY <1>1 DEF ShownSoFar
<1>7. HeldIsLatest'
  BY <1>1, <1>3, <1>4, <1>6 DEF HeldIsLatest
<1>8. accepted' \o due' = accepted \o due
  BY <1>1, <1>2, HeadMoves
<1>9. LastIsReleased'
  BY <1>1, <1>3, <1>6, <1>8 DEF LastIsReleased
<1>10. Shows(f)
  <2>1. 1 \in 1..Len(due)
    BY <1>2
  <2>2. Shows(due[1])
    BY <1>6, <2>1
  <2> QED BY <1>2, <2>2
<1> HIDE DEF f
<1>11. \A i \in 1..Len(accepted') :
          (i \in 1..Len(accepted) /\ accepted'[i] = accepted[i]) \/ accepted'[i] = f
  BY <1>1, <1>2, AppendProperties
<1>12. \A i \in 1..Len(accepted') : Shows(accepted[i])'
  BY <1>1, <1>4, <1>6, <1>10, <1>11 DEF Shows
<1>13. \A i \in 1..Len(due') : due'[i] = due[i + 1] /\ i + 1 \in 1..Len(due)
  BY <1>1, <1>2
<1>14. \A i \in 1..Len(due') : Shows(due[i])'
  BY <1>1, <1>4, <1>6, <1>13 DEF Shows
<1> QED BY <1>7, <1>9, <1>12, <1>14

\* The frame held at the end takes the next slot, as the last frame kept.
LEMMA ShownReleased ==
    ASSUME TypeOK, LoopsNest, ShownSoFar, ReleaseHeld, Cfr
    PROVE  ShownSoFar'
<1>1. /\ due = <<>> /\ stage = "flush" /\ stage' = "held" /\ pc # "failed"
      /\ UNCHANGED <<setup, decoded, accepted, videoSent>>
  BY DEF ReleaseHeld, LoopsNest, decVars, encVars
<1>2. accepted \in Seq(Frame) /\ last \in Frame /\ nextSlot \in Nat
  BY DEF TypeOK
<1>3. Kept' = Kept /\ Len(Kept) \in Nat /\ Kept \in Seq(1..Len(decoded))
  BY <1>1, WantedStays, KeptTyped DEF TypeOK
<1>4. /\ UNCHANGED <<SlotTicks, Cfr>>
      /\ \A k : OutTime(k)' = OutTime(k)
      /\ \A s : ShownIn(s)' = ShownIn(s)
  BY <1>1, ShownFixed, SetupFixed
<1>5. Monotone' <=> Monotone
  BY <1>1, ShownFixed
<1> SUFFICES ASSUME Monotone
             PROVE  /\ \A i \in 1..Len(accepted') : Shows(accepted[i])'
                    /\ \A i \in 1..Len(due') : Shows(due[i])'
                    /\ HeldIsLatest' /\ LastIsReleased'
  BY <1>5 DEF ShownSoFar
<1>6. /\ \A i \in 1..Len(accepted) : Shows(accepted[i])
      /\ HeldIsLatest
  BY <1>1 DEF ShownSoFar
<1>7. CASE last = NoFrame
  <2>1. Len(Kept) = 0 /\ Kept = <<>>
    BY <1>1, <1>3, <1>6, <1>7 DEF HeldIsLatest
  <2>2. UNCHANGED <<due, nextSlot, last>>
    BY <1>7 DEF ReleaseHeld, cfrVars
  <2>3. HeldIsLatest' /\ LastIsReleased'
    BY <1>1, <1>3, <1>4, <1>6, <1>7, <2>1, <2>2 DEF HeldIsLatest, LastIsReleased
  <2>4. \A i \in 1..Len(accepted') : Shows(accepted[i])'
    BY <1>1, <1>4, <1>6, <2>2 DEF Shows
  <2> QED BY <1>1, <2>2, <2>3, <2>4
<1>8. CASE last # NoFrame
  <2> DEFINE g == InSlot(last, nextSlot)
  <2>1. due' = <<g>> /\ nextSlot' = nextSlot + 1 /\ last' = NoFrame
    BY <1>8 DEF ReleaseHeld
  <2>2. g \in Frame /\ g.pts = nextSlot /\ g.id = last.id
    BY <1>2, FrameParts DEF InSlot
  <2> HIDE DEF g
  <2>3. PICK n \in Nat : n = Len(Kept)
    BY <1>3
  <2>4. /\ n > 0 /\ last.id = decoded[Kept[n]].id
        /\ n > 1 => OutTime(n) <= nextSlot * SlotTicks
    BY <1>6, <1>8, <2>3 DEF HeldIsLatest
  <2>5. ShownIn(nextSlot) = last.id
    BY <1>2, <2>3, <2>4, ShownHeld
  <2>6. HeldIsLatest'
    BY <1>1, <1>3, <2>1, <2>3, <2>4 DEF HeldIsLatest
  <2>7. LastIsReleased'
    <3>1. Last(Kept) = Kept[n]
      BY <1>3, <2>3 DEF Last
    <3>2. due' = <<g>> /\ <<g>> \in Seq(Frame) /\ Len(<<g>>) = 1 /\ <<g>>[1] = g
      BY <2>1, <2>2
    <3>3. accepted' \o due' = accepted \o <<g>>
      BY <1>1, <2>1
    <3>4. accepted \o <<g>> = Append(accepted, g)
      BY <1>2, <2>2, AppendIsConcat
    <3>5. /\ Append(accepted, g) # <<>>
          /\ Last(Append(accepted, g)) = g
      BY <1>2, <2>2, AppendProperties DEF Last
    <3> QED BY <1>1, <1>3, <2>2, <2>4, <3>1, <3>3, <3>4, <3>5 DEF LastIsReleased
  <2>8. \A i \in 1..Len(accepted') : Shows(accepted[i])'
    BY <1>1, <1>2, <1>4, <1>6, <2>1 DEF Shows
  <2>9. \A i \in 1..Len(due') : Shows(due[i])'
    <3>1. \A i \in 1..Len(due') : due'[i] = g
      BY <2>1
    <3>2. \E s \in 0..(nextSlot' - 1) : g.pts = s /\ g.id = ShownIn(s)'
      <4>1. nextSlot \in 0..(nextSlot' - 1)
        BY <1>2, <2>1
      <4>2. PICK s \in 0..(nextSlot' - 1) : s = nextSlot
        BY <4>1
      <4>3. ShownIn(s) = last.id
        BY <2>5, <4>2
      <4> QED BY <1>4, <2>2, <4>2, <4>3
    <3> QED BY <3>1, <3>2 DEF Shows
  <2> QED BY <2>6, <2>7, <2>8, <2>9
<1> QED BY <1>7, <1>8

\* A frame that is kept is held; the frame held before it is shown in the
\* slots that begin before the new one.
LEMMA ShownHandled ==
    ASSUME TypeOK, LoopsNest, Identified, ShownSoFar, HandleFrame, Cfr
    PROVE  ShownSoFar'
<1> DEFINE f == Head(decBuf)
           t == FrameTime(f)
           x == t - ShiftTicks
           m == IF last = NoFrame THEN 0 ELSE SlotsBefore(x)
<1>0. PICK d \in Int : d = Len(decoded) + 1
  BY LenProperties DEF TypeOK
<1>1. /\ pc = "decode" /\ decBuf # <<>> /\ decoded' = Append(decoded, f) /\ f \in Frame
      /\ UNCHANGED <<setup, stage, accepted>> /\ stage \in {"stream", "flush"}
      /\ (NeedsTime => t # None) /\ (NeedsTime => Keeps(t)) /\ NeedsTime
  <2>1. decoded' = Append(decoded, f) /\ f \in Frame
    BY Handled
  <2>2. /\ pc = "decode" /\ decBuf # <<>> /\ UNCHANGED <<setup, stage, accepted>>
        /\ (NeedsTime => t # None) /\ (NeedsTime => Keeps(t)) /\ NeedsTime
    BY DEF HandleFrame, encVars, NeedsTime
  <2> QED BY <2>1, <2>2 DEF LoopsNest
<1>2. /\ t \in Int /\ x \in Int /\ m \in Nat /\ Len(due') = m
      /\ \A i \in 1..m : due'[i].id = last.id /\ due'[i].pts = nextSlot + i - 1
      /\ nextSlot' = nextSlot + m /\ last' = Shifted(f) /\ Shifted(f).id = f.id
  BY Handled
<1>3. f.id > 0
  <2>1. f = decBuf[1] /\ Len(decBuf) > 0
    BY Handled
  <2> QED BY <2>1 DEF Identified, TypeOK
<1>4. TrueTime(d)' = t /\ InWindow(d)'
  BY <1>0, <1>1, WindowDecides
<1>5. decoded \in Seq(Frame) /\ nextSlot \in Nat /\ setup \in Setups
  BY DEF TypeOK
<1>6. decoded'[d] = f /\ Kept' = Append(Kept, d)
  BY <1>0, <1>1, <1>4, <1>5, DecodedGrows, KeptGrows
<1> HIDE DEF f, t
<1>7. PICK n \in Nat : n = Len(Kept)
  BY <1>5, KeptTyped
<1>8. PICK k \in Nat : k = n + 1
  OBVIOUS
<1>9. Len(Kept') = k /\ Kept'[k] = d
  <2>1. Kept \in Seq(1..Len(decoded))
    BY <1>5, KeptTyped
  <2>2. Kept \in Seq(Int)
    BY <1>5, <2>1, KeptTyped, SeqOverElements
  <2> QED BY <1>6, <1>7, <1>8, <2>2, AppendProperties
<1>10. \A j \in 1..n : /\ decoded'[Kept'[j]] = decoded[Kept[j]]
                       /\ OutTime(j)' = OutTime(j) /\ OutTime(j) \in Int
  BY <1>1, <1>7, KeptStays, OutTimeTyped
<1>11. OutTime(k)' = x
  <2>1. WindowStart' = ShiftTicks
    BY <1>1, SetupFixed DEF WindowStart, ShiftTicks
  <2>2. TrueTime(Kept[k])' = t
    BY <1>4, <1>9 DEF TrueTime
  <2> QED BY <2>1, <2>2 DEF OutTime
<1> SUFFICES ASSUME Monotone'
             PROVE  /\ \A i \in 1..Len(accepted') : Shows(accepted[i])'
                    /\ \A i \in 1..Len(due') : Shows(due[i])'
                    /\ HeldIsLatest' /\ LastIsReleased'
  BY DEF ShownSoFar
<1>12. /\ \A i \in 1..Len(accepted) : Shows(accepted[i])
       /\ HeldIsLatest
  <2>1. Monotone
    <3>1. ASSUME NEW j \in 1..(n - 1) PROVE OutTime(j) <= OutTime(j + 1)
      <4>1. OutTime(j)' <= OutTime(j + 1)'
        BY <1>8, <1>9 DEF Monotone
      <4>2. PICK i \in 1..n : i = j + 1
        OBVIOUS
      <4> QED BY <1>10, <4>1, <4>2
    <3> QED BY <1>7, <3>1 DEF Monotone
  <2> QED BY <1>1, <2>1 DEF ShownSoFar
<1>13. LastIsReleased'
  BY <1>1 DEF LastIsReleased
<1>14. last' # NoFrame /\ last'.id = decoded'[Kept'[k]].id
  BY <1>2, <1>3, <1>6, <1>9, FrameParts DEF NoFrame
<1>15. SlotTicks' = SlotTicks /\ SlotTicks \in Nat
  BY <1>1, <1>5, SetupFixed, SetupTyped
<1>16. CASE n = 0
  <2>1. last = NoFrame /\ nextSlot = 0
    BY <1>1, <1>7, <1>12, <1>16 DEF HeldIsLatest
  <2>2. nextSlot' = 0 /\ Len(due') = 0
    BY <1>2, <2>1
  <2>3. HeldIsLatest'
    BY <1>8, <1>9, <1>14, <1>16, <2>2 DEF HeldIsLatest
  <2>4. \A i \in 1..Len(accepted) : FALSE
    BY <1>12, <2>1 DEF Shows
  <2>5. \A i \in 1..Len(accepted') : FALSE
    BY <1>1, <2>4
  <2> QED BY <1>13, <2>2, <2>3, <2>5
<1>17. CASE n > 0
  <2>1. /\ last # NoFrame /\ last.id = decoded[Kept[n]].id
        /\ nextSlot > 0 => (nextSlot - 1) * SlotTicks < OutTime(n) /\ n > 1
        /\ n > 1 => OutTime(n) <= nextSlot * SlotTicks
    BY <1>1, <1>7, <1>12, <1>17 DEF HeldIsLatest
  <2>2. /\ x <= (nextSlot + m) * SlotTicks
        /\ \A s \in nextSlot..(nextSlot + m - 1) : s * SlotTicks < x
    BY <1>2, <1>5, <2>1, SlotsReach
  <2>3. OutTime(n) <= x
    <3>1. n \in 1..(k - 1) /\ n \in 1..n
      BY <1>8, <1>17
    <3>2. OutTime(n)' <= OutTime(n + 1)'
      BY <1>9, <3>1 DEF Monotone
    <3> QED BY <1>8, <1>10, <1>11, <3>1, <3>2
  <2> HIDE DEF m, x
  <2>4. PICK e \in Int : e = nextSlot' - 1 /\ e >= nextSlot - 1
    BY <1>2, <1>5
  <2>5. e >= 0 => e * SlotTicks < x
    <3>1. CASE m > 0
      <4>1. nextSlot' - 1 \in nextSlot..(nextSlot + m - 1)
        BY <1>2, <1>5, <3>1
      <4> QED BY <2>2, <2>4, <4>1
    <3>2. CASE m = 0
      <4>1. nextSlot' = nextSlot /\ e = nextSlot - 1
        BY <1>2, <1>5, <2>4, <3>2
      <4>2. e * SlotTicks \in Int /\ OutTime(n) \in Int
        BY <1>10, <1>15, <1>17, <2>4
      <4> QED BY <1>2, <1>5, <2>1, <2>3, <4>1, <4>2
    <3> QED BY <1>2, <3>1, <3>2
  <2>6. ASSUME NEW s \in 0..e PROVE s * SlotTicks < x
    <3>1. s \in Int /\ s <= e
      OBVIOUS
    <3>2. s * SlotTicks <= e * SlotTicks
      BY <1>15, <2>4, <3>1, ProductsRise
    <3>3. s * SlotTicks \in Int /\ e * SlotTicks \in Int
      BY <1>15, <2>4, <3>1
    <3> QED BY <1>2, <2>4, <2>5, <3>1, <3>2, <3>3
  <2>7. ASSUME NEW s \in 0..e PROVE ShownIn(s)' = ShownIn(s)
    <3>1. ~(OutTime(k)' <= (s * SlotTicks)')
      <4>1. s * SlotTicks < x /\ s * SlotTicks \in Int
        BY <1>15, <2>6
      <4> QED BY <1>2, <1>11, <1>15, <4>1
    <3>2. \A j \in 1..k : j = k \/ j \in 1..n
      BY <1>8
    <3>3. \A j \in 1..n : j \in 1..k
      BY <1>8
    <3>4. Started(s)' = Started(s)
      BY <1>7, <1>9, <1>10, <1>15, <3>1, <3>2, <3>3 DEF Started
    <3> QED BY <1>7, <1>10, <1>17, <3>4, ShownMoves
  <2>8. \A i \in 1..Len(accepted') : Shows(accepted[i])'
    <3>1. \A s \in 0..(nextSlot - 1) : s \in 0..e
      BY <1>5, <2>4
    <3> QED BY <1>1, <1>12, <2>4, <2>7, <3>1 DEF Shows
  <2>9. ASSUME NEW i \in 1..Len(due') PROVE Shows(due[i])'
    <3>1. PICK s \in Int : s = nextSlot + i - 1
      BY <1>2, <1>5
    <3>2. s \in 0..e /\ s >= nextSlot
      BY <1>2, <1>5, <2>4, <3>1
    <3>3. ShownIn(s) = decoded[Kept[n]].id
      BY <1>7, <1>17, <2>1, <3>2, ShownHeld
    <3>4. due'[i].id = last.id /\ due'[i].pts = s
      BY <1>2, <3>1
    <3>5. ShownIn(s)' = ShownIn(s)
      BY <2>7, <3>2
    <3>6. due'[i].id = ShownIn(s)'
      BY <2>1, <3>3, <3>4, <3>5
    <3> QED BY <2>4, <3>2, <3>4, <3>6 DEF Shows
  <2>10. HeldIsLatest'
    <3>1. k > 1 /\ k # 0
      BY <1>8, <1>17
    <3>2. OutTime(k)' <= nextSlot' * SlotTicks'
      BY <1>2, <1>11, <1>15, <2>2
    <3>3. nextSlot' > 0 => (nextSlot' - 1) * SlotTicks' < OutTime(k)'
      BY <1>2, <1>5, <1>11, <1>15, <2>4, <2>5
    <3> QED BY <1>9, <1>14, <3>1, <3>2, <3>3 DEF HeldIsLatest
  <2> QED BY <1>13, <2>8, <2>9, <2>10
<1> QED BY <1>16, <1>17

LEMMA ShownStep ==
    /\ TypeOK /\ LoopsNest /\ Identified /\ ShownSoFar /\ [Next]_vars
    => ShownSoFar'
<1> SUFFICES ASSUME TypeOK, LoopsNest, Identified, ShownSoFar, [Next]_vars
             PROVE  ShownSoFar'
  OBVIOUS
<1>0. UNCHANGED setup
  BY DEF Next, vars, ReadPacket, EndOfInput, DropFrame, HandleFrame, Untimed, DecoderEmpty,
         EmitFrame, FilterOut, OverLimit, EmittedAll, MuxPacket, EncoderEmpty, ReleaseHeld,
         FlushResampler, FlushEncoder, Fail
<1>1. SUFFICES ASSUME Cfr PROVE ShownSoFar'
  BY <1>0, SetupFixed DEF ShownSoFar
<1>2. IsVideo /\ ~Resamples /\ ~Atrim
  BY <1>1, SetupTyped DEF TypeOK
<1>3. UNCHANGED decoded =>
          /\ Kept' = Kept
          /\ \A k \in 1..Len(Kept) : /\ decoded'[Kept[k]] = decoded[Kept[k]]
                                     /\ OutTime(k)' = OutTime(k)
  BY <1>0, ShownFixed
<1>4. CASE \E p \in (0..MaxPts) \cup {None} : ReadPacket(p)
  <2>1. UNCHANGED <<setup, videoSent, due, accepted, nextSlot, last, decoded, stage>>
        /\ pc # "failed"
    BY <1>4 DEF ReadPacket, cfrVars, encVars
  <2> QED BY <1>3, <2>1, ShownQuiet
<1>5. CASE EndOfInput \/ DecoderEmpty \/ EmittedAll \/ EncoderEmpty \/ FlushEncoder \/ Fail
  <2>1. UNCHANGED <<setup, videoSent, due, accepted, nextSlot, last, decoded>>
        /\ pc # "failed"
    BY <1>5 DEF EndOfInput, DecoderEmpty, EmittedAll, EncoderEmpty, FlushEncoder, Fail,
                decVars, cfrVars, encVars
  <2>2. \/ stage' = stage
        \/ stage \in {"stream", "flush"} /\ stage' \in {"stream", "flush"}
        \/ stage \in {"held", "tail", "end"} /\ stage' \in {"held", "tail", "end"}
    BY <1>5 DEF EndOfInput, DecoderEmpty, EmittedAll, EncoderEmpty, FlushEncoder, Fail,
                LoopsNest
  <2> QED BY <1>3, <2>1, <2>2, ShownQuiet
<1>6. CASE \E stamped \in BOOLEAN : MuxPacket(stamped)
  <2>1. UNCHANGED <<setup, videoSent, due, accepted, nextSlot, last, decoded, stage>>
        /\ pc # "failed"
    BY <1>6 DEF MuxPacket, decVars, cfrVars
  <2> QED BY <1>3, <2>1, ShownQuiet
<1>7. CASE Untimed
  BY <1>7 DEF Untimed, ShownSoFar
<1>8. CASE UNCHANGED vars
  <2>1. UNCHANGED <<setup, videoSent, due, accepted, nextSlot, last, decoded, stage, pc>>
    BY <1>8 DEF vars, decVars, cfrVars, encVars
  <2> QED BY <1>3, <2>1, ShownQuiet
<1>9. CASE FlushResampler
  <2>1. UNCHANGED <<setup, videoSent, due, accepted, nextSlot, last, decoded>>
        /\ pc # "failed" /\ stage = "held" /\ stage' = "tail"
    BY <1>2, <1>9 DEF FlushResampler, decVars, cfrVars, encVars, LoopsNest
  <2> QED BY <1>3, <2>1, ShownQuiet
<1>10. CASE DropFrame
  <2> DEFINE f == Head(decBuf)
             t == FrameTime(f)
  <2>0. PICK d \in Int : d = Len(decoded) + 1
    BY LenProperties DEF TypeOK
  <2>1. /\ UNCHANGED <<setup, videoSent, due, accepted, nextSlot, last, stage, pc>>
        /\ decoded' = Append(decoded, f) /\ f \in Frame /\ pc = "decode" /\ decBuf # <<>>
        /\ NeedsTime /\ t # None /\ ~Keeps(t)
    <3>1. decBuf # <<>> /\ decBuf \in Seq(Frame)
      BY <1>10 DEF DropFrame, TypeOK
    <3>2. f \in Frame
      BY <3>1, HeadAndTail
    <3> QED BY <1>10, <3>1, <3>2 DEF DropFrame, NoteDecoded, cfrVars, encVars
  <2>2. ~InWindow(d)'
    BY <2>0, <2>1, WindowDecides
  <2> HIDE DEF f, t
  <2>3. Kept' = Kept
    BY <2>0, <2>1, <2>2, KeptGrows DEF TypeOK
  <2>4. \A k \in 1..Len(Kept) : /\ decoded'[Kept[k]] = decoded[Kept[k]]
                                /\ OutTime(k)' = OutTime(k)
    BY <2>1, <2>3, KeptStays
  <2> QED BY <2>1, <2>3, <2>4, ShownQuiet
<1>11. CASE FilterOut \/ OverLimit
  <2>1. /\ ~UnderLimit /\ due # <<>> /\ due' = Tail(due) /\ pc # "failed"
        /\ UNCHANGED <<setup, videoSent, accepted, nextSlot, last, stage, decoded>>
    BY <1>2, <1>11 DEF FilterOut, OverLimit, decVars, cfrVars, encVars
  <2>2. Kept' = Kept /\ Len(Kept) \in Nat
    BY <2>1, WantedStays, KeptTyped DEF TypeOK
  <2>3. /\ SlotTicks' = SlotTicks /\ ~UnderLimit'
        /\ \A k : OutTime(k)' = OutTime(k)
        /\ \A s : ShownIn(s)' = ShownIn(s)
    BY <2>1, GateStays, ShownFixed
  <2>4. Monotone' <=> Monotone
    BY <2>1, ShownFixed
  <2> SUFFICES ASSUME Monotone
               PROVE  /\ \A i \in 1..Len(accepted') : Shows(accepted[i])'
                      /\ \A i \in 1..Len(due') : Shows(due[i])'
                      /\ HeldIsLatest' /\ LastIsReleased'
    BY <2>4 DEF ShownSoFar
  <2>5. /\ \A i \in 1..Len(accepted) : Shows(accepted[i])
        /\ \A i \in 1..Len(due) : Shows(due[i])
        /\ HeldIsLatest
    BY <1>1, <2>1 DEF ShownSoFar
  <2>6. \A i \in 1..Len(due') : due'[i] = due[i + 1] /\ i + 1 \in 1..Len(due)
    BY <2>1 DEF TypeOK
  <2>7. \A i \in 1..Len(due') : Shows(due[i])'
    BY <2>1, <2>3, <2>5, <2>6 DEF Shows
  <2>8. \A i \in 1..Len(accepted') : Shows(accepted[i])'
    BY <2>1, <2>3, <2>5 DEF Shows
  <2>9. HeldIsLatest' /\ LastIsReleased'
    BY <2>1, <2>2, <2>3, <2>5 DEF HeldIsLatest, LastIsReleased
  <2> QED BY <2>7, <2>8, <2>9
<1>12. CASE EmitFrame
  BY <1>1, <1>12, ShownEmitted
<1>13. CASE ReleaseHeld
  BY <1>1, <1>13, ShownReleased
<1>14. CASE HandleFrame
  BY <1>1, <1>14, ShownHandled
<1> QED BY <1>4, <1>5, <1>6, <1>7, <1>8, <1>9, <1>10, <1>11, <1>12, <1>13, <1>14 DEF Next

\* Slot i - 1 was given to the i-th frame, so that frame is the one shown in it.
LEMMA ShownIsLatest ==
    TypeOK /\ LoopsNest /\ SlotsSoFar /\ ShownSoFar => CfrShowsLatest
<1> SUFFICES ASSUME TypeOK, LoopsNest, SlotsSoFar, ShownSoFar, Cfr, pc # "failed", Monotone
             PROVE  /\ \A i \in 1..Len(accepted) : accepted[i].id = ShownIn(i - 1)
                    /\ (pc = "done" /\ Kept # <<>> /\ Limit = None) =>
                           Last(accepted).id = decoded[Last(Kept)].id
  BY DEF CfrShowsLatest
<1>1. /\ \A i \in 1..Len(accepted) : Shows(accepted[i])
      /\ LastIsReleased
  BY DEF ShownSoFar
<1>2. \A i \in 1..Len(accepted) : accepted[i].pts = i - 1
  BY DEF SlotsSoFar
<1>3. \A i \in 1..Len(accepted) : accepted[i].id = ShownIn(i - 1)
  BY <1>1, <1>2 DEF Shows
<1>4. ASSUME pc = "done", Kept # <<>>, Limit = None
      PROVE  Last(accepted).id = decoded[Last(Kept)].id
  <2>1. due = <<>> /\ stage = "end" /\ UnderLimit
    BY <1>4 DEF LoopsNest, UnderLimit
  <2>2. accepted \o due = accepted
    BY <2>1, ConcatEmptySeq DEF TypeOK
  <2> QED BY <1>1, <1>4, <2>1, <2>2 DEF LastIsReleased
<1> QED BY <1>3, <1>4

-----------------------------------------------------------------------------
(* What the encoder is given, in every run. *)

\* The loops nest and the frames are what the counters say, in every run.
LEMMA LoopsAndCounts == Spec => [](TypeOK /\ LoopsNest /\ Identified)
<1>1. Init => LoopsNest /\ Identified
  BY LoopsInit, IdentifiedInit
<1>2. TypeOK /\ LoopsNest /\ Identified /\ [Next]_vars => LoopsNest' /\ Identified'
  BY LoopsStep, IdentifiedStep
<1> QED BY <1>1, <1>2, TypeCorrect, PTL DEF Spec

\* Without a constant frame rate the encoder was given, when the stream is
\* done, exactly the frames of the trim window, in order and on the shifted
\* clock, up to the -frames:v limit (handle_frame, emit).
THEOREM WindowIsGiven == Spec => []WindowExact
<1>1. Init => WindowSoFar
  BY WindowInit
<1>2. /\ TypeOK /\ TypeOK' /\ LoopsNest /\ Identified /\ Identified'
      /\ WindowSoFar /\ [Next]_vars
      => WindowSoFar'
  BY WindowStep
<1>3. TypeOK /\ LoopsNest /\ Identified /\ WindowSoFar => WindowExact
  BY WindowIsExact
<1> QED BY <1>1, <1>2, <1>3, LoopsAndCounts, PTL DEF Spec

\* Under -r the frames that reach the encoder are those of the slots 0, 1, 2
\* and so on, none left out and none twice (FpsConv).
THEOREM SlotsAreFilled == Spec => []CfrTimeline
<1>1. Init => SlotsSoFar
  BY SlotsInit
<1>2. TypeOK /\ LoopsNest /\ SlotsSoFar /\ [Next]_vars => SlotsSoFar'
  BY SlotsStep
<1>3. SlotsSoFar => CfrTimeline
  BY DEF SlotsSoFar, CfrTimeline
<1> QED BY <1>1, <1>2, <1>3, LoopsAndCounts, PTL DEF Spec

\* Under -r, and for input in presentation order, every slot shows the latest
\* frame that has started when the slot begins, and the last frame of the
\* window is the last one shown (FpsConv::push, FpsConv::finish).
THEOREM SlotsShowTheLatest == Spec => []CfrShowsLatest
<1>1. Init => SlotsSoFar /\ ShownSoFar
  BY SlotsInit, ShownInit
<1>2. /\ TypeOK /\ LoopsNest /\ Identified /\ SlotsSoFar /\ ShownSoFar /\ [Next]_vars
      => SlotsSoFar' /\ ShownSoFar'
  BY SlotsStep, ShownStep
<1>3. TypeOK /\ LoopsNest /\ SlotsSoFar /\ ShownSoFar => CfrShowsLatest
  BY ShownIsLatest
<1> QED BY <1>1, <1>2, <1>3, LoopsAndCounts, PTL DEF Spec

-----------------------------------------------------------------------------
(* Copies *)

\* The keyframes of the window, and the packets of a copy of it.
Keys(w) == {i \in 1..Len(sent) : Copy(w)!Inside(i) /\ sent[i].key}
KeptBy(w) == {i \in 1..Len(sent) : w.trimming => Copy(w)!Inside(i) /\ Copy(w)!CutAt <= i}

\* A copy of video has started when a keyframe of the window was sent.
StartsAtKey(w) == started <=> w.trimming /\ w.isVideo /\ Keys(w) # {}

\* What is muxed has the numbers of the packets that are kept, and their times.
CutSoFar(w) ==
    /\ [k \in 1..Len(out) |-> out[k].n] = Ascending(KeptBy(w))
    /\ \A k \in 1..Len(out) :
          out[k].pts = IF w.trimming THEN Copy(w)!Shift(sent[out[k].n].pts)
                       ELSE sent[out[k].n].pts

\* Pictures need those since the last keyframe, and a keyframe needs none.
GopsAreClosed ==
    \A i \in 1..Len(sent) :
        /\ sent[i].key <=> sent[i].needs = {}
        /\ \A j \in sent[i].needs :
              j \in 1..(i - 1) /\ \A k \in (j + 1)..(i - 1) : ~sent[k].key

CopyTypeOK(w) == Copy(w)!TypeOK
CopyInv(w) == CopyTypeOK(w) /\ StartsAtKey(w) /\ CutSoFar(w) /\ GopsAreClosed

CopyIInv == \A w \in CopyWindows : w = window => CopyInv(w)

-----------------------------------------------------------------------------

LEMMA WindowTyped ==
    ASSUME NEW w \in CopyWindows
    PROVE  /\ w.isVideo \in BOOLEAN /\ w.trimming \in BOOLEAN
           /\ w.start \in Nat /\ w.end \in Nat \cup {None}
           /\ CopyPts \in Nat /\ CopyPackets \in Nat /\ None \notin Int
BY CopyAssumption, NumberAssumption

LEMMA CopyTyped ==
    ASSUME NEW w \in CopyWindows, CopyTypeOK(w)
    PROVE  /\ sent \in Seq(Copy(w)!Packet) /\ Len(sent) \in Nat
           /\ out \in Seq([n : 1..CopyPackets, pts : Copy(w)!Stamp, dts : Int \cup {None}])
           /\ Len(out) \in Nat
BY DEF CopyTypeOK, Copy!TypeOK

LEMMA PacketTyped ==
    ASSUME NEW w \in CopyWindows, NEW p \in Copy(w)!Packet
    PROVE  /\ p.pts \in Nat \cup {None} /\ p.dts \in Nat \cup {None}
           /\ p.key \in BOOLEAN /\ Copy(w)!Ts(p) \in Nat
BY WindowTyped DEF Copy!Packet, Copy!Stamp, Copy!Ts

\* The first of some numbers up to n, or else n + 1.
First(K, n) == CHOOSE i \in K \cup {n + 1} : \A k \in K : i <= k

LEMMA FirstIsLeast ==
    ASSUME NEW n \in Nat, NEW K, K \subseteq 1..n
    PROVE  /\ K = {} => First(K, n) = n + 1
           /\ K # {} => First(K, n) \in K /\ \A k \in K : First(K, n) <= k
<1>1. K = {} => First(K, n) = n + 1
  BY DEF First
<1>2. ASSUME K # {} PROVE First(K, n) \in K /\ \A k \in K : First(K, n) <= k
  <2>1. K \subseteq Nat
    OBVIOUS
  <2>2. PICK i \in K : \A k \in K : i <= k
    BY <2>1, <1>2, LeastElement
  <2>3. First(K, n) \in K \cup {n + 1} /\ \A k \in K : First(K, n) <= k
    BY <2>2 DEF First
  <2>4. ASSUME NEW f \in {n + 1}, \A k \in K : f <= k PROVE FALSE
    BY <2>4, <2>2
  <2>5. First(K, n) # n + 1
    BY <2>3, <2>4
  <2> QED BY <2>3, <2>5
<1> QED BY <1>1, <1>2

\* A copy of video is cut at the first keyframe of the window.
LEMMA CutIsFirstKey ==
    ASSUME NEW w \in CopyWindows
    PROVE  /\ Copy(w)!CutAt = IF w.isVideo THEN First(Keys(w), Len(sent)) ELSE 1
           /\ Copy(w)!CutAt' = IF w.isVideo THEN First(Keys(w)', Len(sent')) ELSE 1
BY DEF Copy!CutAt, Keys, First

\* Whether a packet was kept does not change; of the next one it is decided by
\* what has been sent.
LEMMA KeysOfOneMore ==
    ASSUME NEW w \in CopyWindows, CopyTypeOK(w), NEW p \in Copy(w)!Packet,
           sent' = Append(sent, p)
    PROVE  /\ Len(sent') = Len(sent) + 1
           /\ \A i \in 1..Len(sent) : sent'[i] = sent[i]
           /\ sent'[Len(sent) + 1] = p
           /\ Keys(w)' = IF Copy(w)!InWindow(p) /\ p.key
                         THEN Keys(w) \cup {Len(sent) + 1} ELSE Keys(w)
<1> DEFINE n == Len(sent) + 1
<1>1. sent \in Seq(Copy(w)!Packet) /\ Len(sent) \in Nat
  BY CopyTyped
<1>2. /\ Len(sent') = n /\ \A i \in 1..Len(sent) : sent'[i] = sent[i]
      /\ sent'[n] = p
  BY <1>1, AppendProperties
<1>3. \A i \in 1..Len(sent) : Copy(w)!Inside(i)' = Copy(w)!Inside(i)
  BY <1>2 DEF Copy!Inside, Copy!Ts
<1>4. \A i \in {n} : Copy(w)!Inside(i)' = Copy(w)!InWindow(p)
  BY <1>2 DEF Copy!Inside, Copy!InWindow, Copy!Ts
<1>5. \A i \in 1..n : i \in Keys(w)' <=>
           i \in Keys(w) \/ (i = n /\ Copy(w)!InWindow(p) /\ p.key)
  <2> TAKE i \in 1..n
  <2>1. CASE i = n
    BY <2>1, <1>1, <1>2, <1>4 DEF Keys
  <2>2. CASE i \in 1..Len(sent)
    BY <2>2, <1>1, <1>2, <1>3 DEF Keys
  <2> QED BY <2>1, <2>2, <1>1
<1>6. Keys(w)' \subseteq 1..n /\ Keys(w) \subseteq 1..n
  BY <1>1, <1>2 DEF Keys
<1>7. Keys(w)' = IF Copy(w)!InWindow(p) /\ p.key THEN Keys(w) \cup {n} ELSE Keys(w)
  <2>1. n \in 1..n
    BY <1>1
  <2> QED BY <2>1, <1>5, <1>6
<1> QED BY <1>2, <1>7

\* A packet that is kept comes last, one that is not changes nothing.
LEMMA KeptOfOneMore ==
    ASSUME NEW w \in CopyWindows, CopyTypeOK(w), NEW p \in Copy(w)!Packet,
           StartsAtKey(w), sent' = Append(sent, p)
    PROVE  KeptBy(w)' = IF w.trimming => Copy(w)!Passes(p)
                        THEN KeptBy(w) \cup {Len(sent) + 1} ELSE KeptBy(w)
<1> DEFINE n == Len(sent) + 1
           c == Copy(w)!CutAt
           d == Copy(w)!CutAt'
<1>1. /\ Len(sent') = n /\ \A i \in 1..Len(sent) : sent'[i] = sent[i]
      /\ sent'[n] = p
      /\ Keys(w)' = IF Copy(w)!InWindow(p) /\ p.key THEN Keys(w) \cup {n} ELSE Keys(w)
  BY KeysOfOneMore
<1>2. Len(sent) \in Nat /\ w.isVideo \in BOOLEAN /\ w.trimming \in BOOLEAN
  BY CopyTyped, WindowTyped
<1>3. Keys(w) \subseteq 1..Len(sent) /\ Keys(w)' \subseteq 1..n
  BY <1>1 DEF Keys
<1>4. \A i \in 1..Len(sent) : Copy(w)!Inside(i)' = Copy(w)!Inside(i)
  BY <1>1 DEF Copy!Inside, Copy!Ts
<1>5. \A i \in {n} : Copy(w)!Inside(i)' = Copy(w)!InWindow(p)
  BY <1>1 DEF Copy!Inside, Copy!InWindow, Copy!Ts
<1>6. ASSUME \A i \in 1..Len(sent) : w.trimming /\ Copy(w)!Inside(i) => (d <= i <=> c <= i),
             w.trimming /\ Copy(w)!InWindow(p) => (d <= n <=> Copy(w)!Passes(p))
      PROVE  KeptBy(w)' = IF w.trimming => Copy(w)!Passes(p)
                          THEN KeptBy(w) \cup {n} ELSE KeptBy(w)
  <2> HIDE DEF c, d
  <2>1. \A i \in 1..n : i \in KeptBy(w)' <=>
              \/ i \in KeptBy(w)
              \/ i = n /\ (w.trimming => Copy(w)!Passes(p))
    <3> TAKE i \in 1..n
    <3>1. CASE i = n
      <4>1. i \in KeptBy(w)' <=> (w.trimming => Copy(w)!InWindow(p) /\ d <= n)
        BY <3>1, <1>1, <1>5 DEF KeptBy, d
      <4>2. i \notin KeptBy(w)
        BY <3>1, <1>2 DEF KeptBy
      <4>3. Copy(w)!Passes(p) => Copy(w)!InWindow(p)
        BY DEF Copy!Passes
      <4> QED BY <4>1, <4>2, <4>3, <1>6, <3>1
    <3>2. CASE i \in 1..Len(sent)
      <4>1. i \in KeptBy(w)' <=> (w.trimming => Copy(w)!Inside(i) /\ d <= i)
        BY <3>2, <1>1, <1>4 DEF KeptBy, d
      <4>2. i \in KeptBy(w) <=> (w.trimming => Copy(w)!Inside(i) /\ c <= i)
        BY <3>2 DEF KeptBy, c
      <4>3. i # n
        BY <3>2, <1>2
      <4> QED BY <4>1, <4>2, <4>3, <1>6, <3>2
    <3> QED BY <3>1, <3>2, <1>2
  <2>2. KeptBy(w) \subseteq 1..n /\ KeptBy(w)' \subseteq 1..n /\ n \in 1..n
    BY <1>1, <1>2 DEF KeptBy
  <2> QED BY <2>1, <2>2
<1>7. /\ c = IF w.isVideo THEN First(Keys(w), Len(sent)) ELSE 1
      /\ d = IF w.isVideo THEN First(Keys(w)', n) ELSE 1
  BY CutIsFirstKey, <1>1
<1>8. PICK f \in Int, g \in Int : f = First(Keys(w), Len(sent)) /\ g = First(Keys(w)', n)
  BY <1>2, <1>3, FirstIsLeast
<1>9. /\ Keys(w) = {} => f = n
      /\ Keys(w) # {} => f \in Keys(w) /\ \A k \in Keys(w) : f <= k
  BY <1>2, <1>3, <1>8, FirstIsLeast
<1>10. /\ Keys(w)' = {} => g = n + 1
       /\ Keys(w)' # {} => g \in Keys(w)' /\ \A k \in Keys(w)' : g <= k
  BY <1>2, <1>3, <1>8, FirstIsLeast
<1>11. ASSUME Keys(w) # {} PROVE g = f /\ g <= Len(sent)
  <2>1. f \in Keys(w) /\ f \in Keys(w)' /\ f <= Len(sent)
    BY <1>1, <1>2, <1>3, <1>9, <1>11
  <2>2. g <= f /\ g \in Keys(w)'
    BY <2>1, <1>10
  <2>3. g # n /\ g <= Len(sent)
    BY <2>1, <2>2, <1>2
  <2>4. g \in Keys(w)
    BY <2>2, <2>3, <1>1
  <2>5. f <= g
    BY <2>4, <1>9
  <2> QED BY <2>2, <2>3, <2>5
<1>12. ASSUME Keys(w) = {}
       PROVE  f = n /\ g = IF Copy(w)!InWindow(p) /\ p.key THEN n ELSE n + 1
  <2>1. CASE Copy(w)!InWindow(p) /\ p.key
    <3>1. Keys(w)' = {n}
      BY <2>1, <1>12, <1>1
    <3>2. g = n
      BY <3>1, <1>10
    <3> QED BY <3>2, <2>1, <1>12, <1>9
  <2>2. CASE ~(Copy(w)!InWindow(p) /\ p.key)
    <3>1. Keys(w)' = {}
      BY <2>2, <1>12, <1>1
    <3> QED BY <3>1, <2>2, <1>10, <1>12, <1>9
  <2> QED BY <2>1, <2>2
<1>13. Copy(w)!Passes(p) <=> Copy(w)!InWindow(p) /\ (w.isVideo /\ ~started => p.key)
  BY DEF Copy!Passes
<1>14. w.trimming /\ w.isVideo => (started <=> Keys(w) # {})
  BY DEF StartsAtKey
<1>15. CASE ~w.isVideo
  <2>1. c = 1 /\ d = 1
    BY <1>15, <1>7
  <2>2. 1 <= n
    BY <1>2
  <2> QED BY <2>1, <2>2, <1>13, <1>15, <1>6
<1>16. CASE w.isVideo
  <2>1. c = f /\ d = g
    BY <1>16, <1>7, <1>8
  <2> HIDE DEF c, d
  <2>2. \A i \in 1..Len(sent) : d <= i <=> c <= i
    BY <2>1, <1>2, <1>11, <1>12
  <2>3. CASE Keys(w) # {}
    <3>1. d <= n
      BY <2>1, <2>3, <1>2, <1>11
    <3>2. w.trimming => (Copy(w)!Passes(p) <=> Copy(w)!InWindow(p))
      BY <2>3, <1>13, <1>14, <1>16
    <3> QED BY <3>1, <3>2, <2>2, <1>6
  <2>4. CASE Keys(w) = {}
    <3>1. d <= n <=> Copy(w)!InWindow(p) /\ p.key
      BY <2>1, <2>4, <1>2, <1>12
    <3>2. w.trimming => (Copy(w)!Passes(p) <=> Copy(w)!InWindow(p) /\ p.key)
      BY <2>4, <1>13, <1>14, <1>16
    <3> QED BY <3>1, <3>2, <2>2, <1>6
  <2> QED BY <2>3, <2>4
<1> QED BY <1>15, <1>16, <1>2

-----------------------------------------------------------------------------
(* A step of a copy. *)

LEMMA CopyInit ==
    ASSUME NEW w \in CopyWindows, Copy(w)!Init
    PROVE  CopyInv(w)
<1>1. started = FALSE /\ sent = <<>> /\ out = <<>>
  BY DEF Copy!Init
<1>2. CopyTypeOK(w)
  <2>1. started \in BOOLEAN
    BY <1>1
  <2>2. \A S : <<>> \in Seq(S)
    OBVIOUS
  <2> QED BY <1>1, <2>1, <2>2 DEF CopyTypeOK, Copy!TypeOK
<1>3. Keys(w) = {} /\ KeptBy(w) = {}
  BY <1>1 DEF Keys, KeptBy
<1>4. Ascending(KeptBy(w)) = <<>>
  BY <1>3, AscendingLists
<1>5. CutSoFar(w)
  BY <1>1, <1>4 DEF CutSoFar
<1>6. GopsAreClosed
  BY <1>1 DEF GopsAreClosed
<1> QED BY <1>1, <1>2, <1>3, <1>5, <1>6 DEF CopyInv, StartsAtKey

\* What process does with a packet, whatever it decides.
LEMMA ForwardedOrNot ==
    ASSUME NEW w \in CopyWindows, NEW p, Copy(w)!Forward(p) \/ Copy(w)!Drop(p)
    PROVE  \/ /\ w.trimming => Copy(w)!Passes(p)
              /\ Copy(w)!Forward(p)
           \/ /\ ~(w.trimming => Copy(w)!Passes(p))
              /\ started' = started /\ out' = out
BY DEF Copy!Forward, Copy!Drop

LEMMA CopyTypeStep ==
    ASSUME NEW w \in CopyWindows, CopyInv(w), NEW p \in Copy(w)!Packet,
           Copy(w)!Process(p)
    PROVE  CopyTypeOK(w)'
<1> DEFINE n == Len(sent) + 1
<1>1. /\ sent \in Seq(Copy(w)!Packet) /\ Len(sent) \in Nat
      /\ out \in Seq([n : 1..CopyPackets, pts : Copy(w)!Stamp, dts : Int \cup {None}])
      /\ started \in BOOLEAN
  BY CopyTyped DEF CopyInv, CopyTypeOK, Copy!TypeOK
<1>2. /\ sent' = Append(sent, p) /\ n \in 1..CopyPackets
      /\ Copy(w)!Forward(p) \/ Copy(w)!Drop(p)
  BY <1>1, WindowTyped DEF Copy!Process
<1>3. sent' \in Seq(Copy(w)!Packet)
  BY <1>1, <1>2
<1>4. CASE Copy(w)!Forward(p)
  <2> DEFINE x == IF w.trimming THEN Copy(w)!Shift(p.pts) ELSE p.pts
             y == IF w.trimming THEN Copy(w)!Shift(p.dts) ELSE p.dts
  <2>1. x \in Copy(w)!Stamp
    <3>1. CASE w.trimming /\ p.pts # None
      <4>1. p.pts \in 0..CopyPts /\ w.start \in Nat
        BY <3>1, WindowTyped DEF Copy!Packet, Copy!Stamp
      <4>2. w.start <= p.pts
        BY <3>1, <1>4 DEF Copy!Forward, Copy!Passes, Copy!InWindow, Copy!Ts
      <4>3. p.pts - w.start \in 0..CopyPts
        BY <4>1, <4>2, WindowTyped
      <4> QED BY <4>3, <3>1 DEF Copy!Shift, Copy!Stamp
    <3>2. CASE ~(w.trimming /\ p.pts # None)
      BY <3>2 DEF Copy!Shift, Copy!Stamp, Copy!Packet
    <3> QED BY <3>1, <3>2
  <2>2. y \in Int \cup {None}
    BY PacketTyped, WindowTyped DEF Copy!Shift
  <2>3. out' = Append(out, [n |-> n, pts |-> x, dts |-> y])
    BY <1>4 DEF Copy!Forward
  <2> HIDE DEF x, y
  <2>4. out' \in Seq([n : 1..CopyPackets, pts : Copy(w)!Stamp, dts : Int \cup {None}])
    BY <1>1, <1>2, <2>1, <2>2, <2>3
  <2>5. started' \in BOOLEAN
    BY <1>4 DEF Copy!Forward
  <2> QED BY <1>3, <2>4, <2>5 DEF CopyTypeOK, Copy!TypeOK
<1>5. CASE Copy(w)!Drop(p)
  BY <1>1, <1>3, <1>5 DEF CopyTypeOK, Copy!TypeOK, Copy!Drop
<1> QED BY <1>2, <1>4, <1>5

LEMMA StartStep ==
    ASSUME NEW w \in CopyWindows, CopyInv(w), NEW p \in Copy(w)!Packet,
           Copy(w)!Process(p)
    PROVE  StartsAtKey(w)'
<1>1. /\ Keys(w)' = IF Copy(w)!InWindow(p) /\ p.key
                    THEN Keys(w) \cup {Len(sent) + 1} ELSE Keys(w)
  BY KeysOfOneMore DEF CopyInv, Copy!Process
<1>2. Copy(w)!Passes(p) <=> Copy(w)!InWindow(p) /\ (w.isVideo /\ ~started => p.key)
  BY DEF Copy!Passes
<1>3. (started <=> w.trimming /\ w.isVideo /\ Keys(w) # {}) /\ started \in BOOLEAN
  BY DEF CopyInv, StartsAtKey, CopyTypeOK, Copy!TypeOK
<1>4. CASE Copy(w)!Forward(p)
  <2>1. (started' <=> started \/ (w.trimming /\ w.isVideo)) /\ (w.trimming => Copy(w)!Passes(p))
    BY <1>4 DEF Copy!Forward
  <2>2. started' <=> w.trimming /\ w.isVideo /\ Keys(w)' # {}
    BY <2>1, <1>1, <1>2, <1>3
  <2> QED BY <2>2 DEF StartsAtKey
<1>5. CASE Copy(w)!Drop(p)
  <2>1. started' = started /\ ~Copy(w)!Passes(p) /\ w.trimming
    BY <1>5 DEF Copy!Drop
  <2>2. started' <=> w.trimming /\ w.isVideo /\ Keys(w)' # {}
    BY <2>1, <1>1, <1>2, <1>3
  <2> QED BY <2>2 DEF StartsAtKey
<1> QED BY <1>4, <1>5 DEF Copy!Process

LEMMA CutStep ==
    ASSUME NEW w \in CopyWindows, CopyInv(w), NEW p \in Copy(w)!Packet,
           Copy(w)!Process(p)
    PROVE  CutSoFar(w)'
<1> DEFINE n == Len(sent) + 1
           numbers == [k \in 1..Len(out) |-> out[k].n]
           TimeOf(i) == IF w.trimming THEN Copy(w)!Shift(sent[i].pts) ELSE sent[i].pts
<1>1. /\ sent \in Seq(Copy(w)!Packet) /\ Len(sent) \in Nat
      /\ out \in Seq([n : 1..CopyPackets, pts : Copy(w)!Stamp, dts : Int \cup {None}])
      /\ Len(out) \in Nat
  BY CopyTyped DEF CopyInv
<1>2. /\ \A i \in 1..Len(sent) : sent'[i] = sent[i]
      /\ sent'[n] = p
      /\ KeptBy(w)' = IF w.trimming => Copy(w)!Passes(p)
                      THEN KeptBy(w) \cup {n} ELSE KeptBy(w)
  BY KeysOfOneMore, KeptOfOneMore DEF CopyInv, Copy!Process
<1>3. KeptBy(w) \subseteq 1..Len(sent) /\ n > Len(sent) /\ n \in Int
  BY <1>1 DEF KeptBy
<1>4. /\ numbers = Ascending(KeptBy(w))
      /\ \A k \in 1..Len(out) : out[k].pts = TimeOf(out[k].n)
  BY DEF CopyInv, CutSoFar
<1>5. \A k \in 1..Len(out) : out[k].n \in 1..Len(sent)
  <2> TAKE k \in 1..Len(out)
  <2>1. /\ Ascending(KeptBy(w)) \in Seq(1..Len(sent))
    BY <1>1, <1>3, AscendingLists
  <2>2. Len(numbers) = Len(out) /\ numbers[k] = out[k].n
    BY <1>1
  <2> HIDE DEF numbers
  <2>3. numbers \in Seq(1..Len(sent))
    BY <2>1, <1>4
  <2>4. numbers[k] \in 1..Len(sent)
    BY <2>2, <2>3
  <2> QED BY <2>2, <2>4
<1>6. \A k \in 1..Len(out) : out[k].pts =
          IF w.trimming THEN Copy(w)!Shift(sent'[out[k].n].pts) ELSE sent'[out[k].n].pts
  BY <1>2, <1>4, <1>5
<1>7. CASE (w.trimming => Copy(w)!Passes(p)) /\ Copy(w)!Forward(p)
  <2> DEFINE x == IF w.trimming THEN Copy(w)!Shift(p.pts) ELSE p.pts
             y == IF w.trimming THEN Copy(w)!Shift(p.dts) ELSE p.dts
             o == [n |-> n, pts |-> x, dts |-> y]
  <2>1. out' = Append(out, o) /\ o.n = n /\ o.pts = x
    BY <1>7 DEF Copy!Forward
  <2> HIDE DEF o
  <2>2. /\ Len(out') = Len(out) + 1
        /\ \A k \in 1..Len(out) : out'[k] = out[k]
        /\ out'[Len(out) + 1] = o
    BY <2>1, <1>1, AppendProperties
  <2>3. [k \in 1..Len(out') |-> out'[k].n] = Append(numbers, n)
    <3> DEFINE after == [k \in 1..Len(out') |-> out'[k].n]
    <3>1. numbers \in Seq(Int) /\ Len(numbers) = Len(out)
      BY <1>1, <1>5
    <3>2. \A k \in 1..Len(out) : numbers[k] = out[k].n
      OBVIOUS
    <3>3. after \in Seq(Int) /\ Len(after) = Len(out) + 1
      <4>1. \A k \in 1..Len(out') : out'[k].n \in Int
        <5> TAKE k \in 1..Len(out')
        <5>1. CASE k = Len(out) + 1
          BY <5>1, <2>1, <2>2, <1>3
        <5>2. CASE k \in 1..Len(out)
          BY <5>2, <2>2, <1>5
        <5> QED BY <5>1, <5>2, <2>2, <1>1
      <4> QED BY <4>1, <2>2, <1>1
    <3>4. \A k \in 1..(Len(out) + 1) : after[k] = out'[k].n
      BY <2>2
    <3> HIDE DEF after, numbers
    <3>5. /\ Append(numbers, n) \in Seq(Int) /\ Len(Append(numbers, n)) = Len(out) + 1
          /\ \A k \in 1..Len(out) : Append(numbers, n)[k] = numbers[k]
          /\ Append(numbers, n)[Len(out) + 1] = n
      BY <3>1, <1>3, AppendProperties
    <3>6. \A k \in 1..(Len(out) + 1) : after[k] = Append(numbers, n)[k]
      <4> TAKE k \in 1..(Len(out) + 1)
      <4>1. CASE k = Len(out) + 1
        BY <4>1, <3>4, <3>5, <2>1, <2>2
      <4>2. CASE k \in 1..Len(out)
        BY <4>2, <3>2, <3>4, <3>5, <2>2
      <4>3. k = Len(out) + 1 \/ k \in 1..Len(out)
        BY <1>1
      <4> QED BY <4>1, <4>2, <4>3
    <3>7. after = Append(numbers, n)
      BY <3>3, <3>5, <3>6, SeqEqual
    <3> QED BY <3>7 DEF after
  <2>4. Ascending(KeptBy(w)') = Append(numbers, n)
    <3> HIDE DEF numbers
    <3>1. Ascending(KeptBy(w) \cup {n}) = Append(Ascending(KeptBy(w)), n)
      BY <1>1, <1>3, AscendingAppend
    <3>2. KeptBy(w)' = KeptBy(w) \cup {n}
      BY <1>2, <1>7
    <3> QED BY <3>1, <3>2, <1>4
  <2>5. \A k \in 1..Len(out') : out'[k].pts =
           IF w.trimming THEN Copy(w)!Shift(sent'[out'[k].n].pts) ELSE sent'[out'[k].n].pts
    <3> TAKE k \in 1..Len(out')
    <3>1. CASE k = Len(out) + 1
      BY <3>1, <2>1, <2>2, <1>2
    <3>2. CASE k \in 1..Len(out)
      BY <3>2, <2>2, <1>6
    <3> QED BY <3>1, <3>2, <2>2, <1>1
  <2> QED BY <2>3, <2>4, <2>5 DEF CutSoFar, Copy!Shift
<1>8. CASE ~(w.trimming => Copy(w)!Passes(p)) /\ out' = out
  <2>1. KeptBy(w)' = KeptBy(w)
    BY <1>8, <1>2
  <2>2. /\ [k \in 1..Len(out') |-> out'[k].n] = Ascending(KeptBy(w)')
        /\ \A k \in 1..Len(out') : out'[k].pts =
              IF w.trimming THEN Copy(w)!Shift(sent'[out'[k].n].pts) ELSE sent'[out'[k].n].pts
    BY <1>8, <2>1, <1>4, <1>6
  <2> QED BY <2>2 DEF CutSoFar, Copy!Shift
<1> QED BY <1>7, <1>8, ForwardedOrNot DEF Copy!Process

LEMMA GopsStep ==
    ASSUME NEW w \in CopyWindows, CopyInv(w), NEW p \in Copy(w)!Packet,
           Copy(w)!Process(p)
    PROVE  GopsAreClosed'
<1> DEFINE n == Len(sent) + 1
<1>1. /\ Len(sent) \in Nat /\ Len(sent') = n /\ sent'[n] = p
      /\ \A i \in 1..Len(sent) : sent'[i] = sent[i]
  BY KeysOfOneMore, CopyTyped DEF CopyInv, Copy!Process
<1>2. /\ p.key <=> p.needs = {}
      /\ \A j \in p.needs : j \in 1..Len(sent) /\ \A k \in (j + 1)..Len(sent) : ~sent[k].key
  BY DEF Copy!Process, Copy!Legal, Copy!Gop
<1> SUFFICES ASSUME NEW i \in 1..n
             PROVE  /\ sent'[i].key <=> sent'[i].needs = {}
                    /\ \A j \in sent'[i].needs :
                          j \in 1..(i - 1) /\ \A k \in (j + 1)..(i - 1) : ~sent'[k].key
  BY <1>1 DEF GopsAreClosed
<1>3. CASE i = n
  BY <1>3, <1>1, <1>2
<1>4. CASE i \in 1..Len(sent)
  <2>1. /\ sent[i].key <=> sent[i].needs = {}
        /\ \A j \in sent[i].needs :
              j \in 1..(i - 1) /\ \A k \in (j + 1)..(i - 1) : ~sent[k].key
    BY <1>4 DEF CopyInv, GopsAreClosed
  <2>2. \A j \in 1..(i - 1) : \A k \in (j + 1)..(i - 1) : sent'[k] = sent[k]
    BY <1>1, <1>4
  <2> QED BY <2>1, <2>2, <1>1, <1>4
<1> QED BY <1>3, <1>4, <1>1

LEMMA CopyUntouched ==
    ASSUME NEW w \in CopyWindows, CopyInv(w),
           started' = started, sent' = sent, out' = out
    PROVE  CopyInv(w)'
<1>1. \A i : Copy(w)!Inside(i)' = Copy(w)!Inside(i)
  BY DEF Copy!Inside, Copy!Ts
<1>2. Keys(w)' = Keys(w)
  BY <1>1 DEF Keys
<1>3. Copy(w)!CutAt' = Copy(w)!CutAt
  BY <1>2, CutIsFirstKey
<1>4. KeptBy(w)' = KeptBy(w)
  BY <1>1, <1>3 DEF KeptBy
<1>5. CutSoFar(w)'
  BY <1>4 DEF CopyInv, CutSoFar, Copy!Shift
<1>6. GopsAreClosed'
  BY DEF CopyInv, GopsAreClosed
<1>7. CopyTypeOK(w)'
  BY DEF CopyInv, CopyTypeOK, Copy!TypeOK
<1>8. StartsAtKey(w)'
  BY <1>2 DEF CopyInv, StartsAtKey
<1> QED BY <1>5, <1>6, <1>7, <1>8 DEF CopyInv

LEMMA CopyStep ==
    ASSUME NEW w \in CopyWindows, CopyInv(w), Copy(w)!Next
    PROVE  CopyInv(w)'
<1>1. PICK p \in Copy(w)!Packet : Copy(w)!Process(p)
  BY DEF Copy!Next
<1> QED BY <1>1, CopyTypeStep, StartStep, CutStep, GopsStep DEF CopyInv

-----------------------------------------------------------------------------
(* What the invariant says of a copy. *)

\* The numbers that are muxed are those of the packets that are kept.
LEMMA KeptAreSent ==
    ASSUME NEW w, Len(sent) \in Nat,
           Len(out) \in Nat, [k \in 1..Len(out) |-> out[k].n] = Ascending(KeptBy(w))
    PROVE  \A k \in 1..Len(out) : out[k].n \in KeptBy(w) /\ out[k].n \in 1..Len(sent)
<1>1. KeptBy(w) \subseteq 1..Len(sent)
  BY DEF KeptBy
<1> DEFINE numbers == [k \in 1..Len(out) |-> out[k].n]
<1>2. Len(numbers) = Len(out) /\ \A k \in 1..Len(out) : numbers[k] = out[k].n
  BY DEF numbers
<1>3. numbers = Ascending(KeptBy(w))
  OBVIOUS
<1> HIDE DEF numbers
<1>4. \A k \in 1..Len(numbers) : numbers[k] \in KeptBy(w)
  BY <1>1, <1>3, AscendingLists
<1> QED BY <1>1, <1>2, <1>4

LEMMA KeptIsMuxed ==
    ASSUME NEW w, Len(sent) \in Nat, Len(out) \in Nat,
           [k \in 1..Len(out) |-> out[k].n] = Ascending(KeptBy(w))
    PROVE  Copy(w)!Muxed = KeptBy(w)
<1>1. KeptBy(w) \subseteq 1..Len(sent)
  BY DEF KeptBy
<1> DEFINE numbers == [k \in 1..Len(out) |-> out[k].n]
<1>2. Len(numbers) = Len(out) /\ \A k \in 1..Len(out) : numbers[k] = out[k].n
  BY DEF numbers
<1>3. numbers = Ascending(KeptBy(w))
  OBVIOUS
<1> HIDE DEF numbers
<1>4. \A n \in KeptBy(w) : \E k \in 1..Len(out) : out[k].n = n
  <2>1. \A n \in KeptBy(w) : \E k \in 1..Len(numbers) : numbers[k] = n
    BY <1>1, <1>3, AscendingLists
  <2> QED BY <2>1, <1>2
<1>5. \A k \in 1..Len(out) : out[k].n \in KeptBy(w)
  BY KeptAreSent
<1> QED BY <1>4, <1>5 DEF Copy!Muxed

\* The order CopyOp speaks of is that of Ordering.
LEMMA SameOrder ==
    ASSUME NEW w, NEW S
    PROVE  Copy(w)!Ascending(S) = Ascending(S)
<1>1. ASSUME NEW T PROVE Copy(w)!Cardinality(T) = Cardinality(T)
  BY DEF Cardinality, Copy!Cardinality
<1>2. ASSUME NEW x, NEW T, NEW R PROVE Copy(w)!Place(x, T, R) = Place(x, T, R)
  BY <1>1 DEF Place, Copy!Place
<1>3. ASSUME NEW T, NEW R PROVE Copy(w)!InOrder(T, R) = InOrder(T, R)
  <2> DEFINE At(k) == CHOOSE x \in T : Copy(w)!Place(x, T, R) = k
             There(k) == CHOOSE x \in T : Place(x, T, R) = k
  <2>1. /\ Copy(w)!InOrder(T, R) = [k \in 1..Copy(w)!Cardinality(T) |-> At(k)]
        /\ InOrder(T, R) = [k \in 1..Cardinality(T) |-> There(k)]
    BY DEF InOrder, Copy!InOrder
  <2>2. ASSUME NEW k PROVE At(k) = There(k)
    BY <1>2
  <2>3. 1..Copy(w)!Cardinality(T) = 1..Cardinality(T)
    BY <1>1
  <2> HIDE DEF At, There
  <2>4. [k \in 1..Cardinality(T) |-> At(k)] = [k \in 1..Cardinality(T) |-> There(k)]
    BY <2>2
  <2> QED BY <2>1, <2>3, <2>4
<1> QED BY <1>3 DEF Ascending, Copy!Ascending

LEMMA CopyIsCut ==
    ASSUME NEW w \in CopyWindows, CopyInv(w)
    PROVE  Copy(w)!CutIsExact
<1> DEFINE offset == IF w.trimming THEN w.start ELSE 0
<1>1. /\ sent \in Seq(Copy(w)!Packet) /\ Len(sent) \in Nat
      /\ out \in Seq([n : 1..CopyPackets, pts : Copy(w)!Stamp, dts : Int \cup {None}])
      /\ Len(out) \in Nat
  BY CopyTyped DEF CopyInv
<1>2. /\ [k \in 1..Len(out) |-> out[k].n] = Ascending(KeptBy(w))
      /\ \A k \in 1..Len(out) :
            out[k].pts = IF w.trimming THEN Copy(w)!Shift(sent[out[k].n].pts)
                         ELSE sent[out[k].n].pts
  BY DEF CopyInv, CutSoFar
<1>3. \A k \in 1..Len(out) : out[k].n \in 1..Len(sent)
  BY <1>1, <1>2, KeptAreSent
<1>4. \A k \in 1..Len(out) :
          sent[out[k].n].pts # None => out[k].pts + offset = sent[out[k].n].pts
  <2> TAKE k \in 1..Len(out)
  <2>1. sent[out[k].n] \in Copy(w)!Packet
    BY <1>1, <1>3
  <2>2. PICK t \in Nat \cup {None} : t = sent[out[k].n].pts
    BY <2>1, PacketTyped
  <2>3. t # None => out[k].pts = IF w.trimming THEN t - w.start ELSE t
    BY <2>2, <1>2 DEF Copy!Shift
  <2>4. t # None => out[k].pts + offset = t
    BY <2>3, WindowTyped
  <2> QED BY <2>2, <2>4
<1>5. Copy(w)!Ascending(KeptBy(w)) = Ascending(KeptBy(w))
  BY SameOrder
<1>6. \/ Copy(w)!CutIsExact
      \/ ~(/\ [k \in 1..Len(out) |-> out[k].n] = Copy(w)!Ascending(KeptBy(w))
           /\ \A k \in 1..Len(out) :
                 sent[out[k].n].pts # None => out[k].pts + offset = sent[out[k].n].pts)
  BY DEF Copy!CutIsExact, KeptBy
<1> QED BY <1>2, <1>4, <1>5, <1>6

LEMMA CopySplitsNone ==
    ASSUME NEW w \in CopyWindows, CopyInv(w)
    PROVE  Copy(w)!NoGopIsSplitInOrder
<1> SUFFICES ASSUME Copy(w)!InPresentationOrder, w.isVideo,
                    NEW i \in Copy(w)!Muxed, NEW j \in sent[i].needs
             PROVE  j \in Copy(w)!Muxed
  BY DEF Copy!NoGopIsSplitInOrder, Copy!NoGopIsSplit
<1>1. /\ sent \in Seq(Copy(w)!Packet) /\ Len(sent) \in Nat
      /\ out \in Seq([n : 1..CopyPackets, pts : Copy(w)!Stamp, dts : Int \cup {None}])
      /\ Len(out) \in Nat
  BY CopyTyped DEF CopyInv
<1>2. Copy(w)!Muxed = KeptBy(w)
  BY <1>1, KeptIsMuxed DEF CopyInv, CutSoFar
<1>3. /\ i \in 1..Len(sent) /\ j \in 1..(i - 1) /\ ~sent[i].key
      /\ \A k \in (j + 1)..(i - 1) : ~sent[k].key
  BY <1>2 DEF KeptBy, CopyInv, GopsAreClosed
<1>4. CASE ~w.trimming
  BY <1>1, <1>2, <1>3, <1>4 DEF KeptBy
<1>5. CASE w.trimming
  <2>1. PICK c \in Int : c = Copy(w)!CutAt /\ c \in Keys(w)
    <3>1. Copy(w)!CutAt = First(Keys(w), Len(sent)) /\ Copy(w)!CutAt <= i
      BY <1>2, <1>5, CutIsFirstKey DEF KeptBy
    <3>2. Keys(w) \subseteq 1..Len(sent)
      BY DEF Keys
    <3>3. PICK f \in Int : f = First(Keys(w), Len(sent))
      BY <1>1, <3>2, FirstIsLeast
    <3>4. f # Len(sent) + 1
      BY <3>1, <3>3, <1>1, <1>3
    <3>5. f \in Keys(w)
      BY <1>1, <3>2, <3>3, <3>4, FirstIsLeast
    <3> QED BY <3>1, <3>3, <3>5
  <2>2. c \in 1..Len(sent) /\ sent[c].key /\ c <= i /\ Copy(w)!Inside(c) /\ Copy(w)!Inside(i)
    BY <2>1, <1>2, <1>5 DEF Keys, KeptBy
  <2>3. c # i
    BY <2>2, <1>3
  <2>4. c <= j /\ j \in 1..Len(sent)
    BY <2>2, <2>3, <1>1, <1>3
  <2>5. Copy(w)!Inside(j)
    <3>1. \A k \in 1..Len(sent) : sent[k] \in Copy(w)!Packet
      BY <1>1
    <3>2. PICK tc \in Nat, tj \in Nat, ti \in Nat :
              /\ tc = Copy(w)!Ts(sent[c]) /\ tj = Copy(w)!Ts(sent[j])
              /\ ti = Copy(w)!Ts(sent[i])
      BY <3>1, <2>2, <2>4, <1>3, PacketTyped
    <3>3. tc <= tj
      <4>1. CASE c = j
        BY <4>1, <3>2
      <4>2. CASE c < j
        BY <4>2, <3>2, <2>2, <2>4 DEF Copy!InPresentationOrder
      <4> QED BY <4>1, <4>2, <2>2, <2>4
    <3>4. j < i
      BY <1>1, <1>3
    <3>5. tj <= ti
      BY <3>2, <3>4, <2>4, <1>3 DEF Copy!InPresentationOrder
    <3>6. w.start <= tc /\ (w.end # None => ti < w.end)
      BY <3>2, <2>2 DEF Copy!Inside
    <3>7. w.start <= tj /\ (w.end # None => tj < w.end)
      BY <3>2, <3>3, <3>5, <3>6, WindowTyped
    <3> QED BY <3>2, <3>7 DEF Copy!Inside
  <2> QED BY <2>1, <2>4, <2>5, <1>2 DEF KeptBy
<1> QED BY <1>4, <1>5

-----------------------------------------------------------------------------
(* The theorems, of the streams as the run checks them. *)

LEMMA CopiesKeepInv == OpSpec => []CopyIInv
<1>1. OpInit => CopyIInv
  BY CopyInit DEF OpInit, CopyIInv
<1>2. CopyIInv /\ [OpNext]_opVars => CopyIInv'
  <2> SUFFICES ASSUME CopyIInv, [OpNext]_opVars, NEW w \in CopyWindows, w = window'
               PROVE  CopyInv(w)'
    BY DEF CopyIInv
  <2>1. CASE Copies
    <3>1. w = window /\ Copy(w)!Next
      BY <2>1 DEF Copies
    <3> QED BY <3>1, CopyStep DEF CopyIInv
  <2>2. CASE UNCHANGED copyVars
    <3>1. w = window /\ started' = started /\ sent' = sent /\ out' = out
      BY <2>2 DEF copyVars
    <3>2. CopyInv(w)
      BY <3>1 DEF CopyIInv
    <3> QED BY <3>1, <3>2, CopyUntouched
  <2> QED BY <2>1, <2>2 DEF OpNext, Transcodes, opVars
<1> QED BY <1>1, <1>2, PTL DEF OpSpec

\* "Video cuts on the first keyframe inside the window": a copy is, in decoding
\* order, the packets of the window from that keyframe on, each at its distance
\* from the window's start (CopyOp::process).
THEOREM CopiesAreExact == OpSpec => []CutIsExact
<1>1. CopyIInv => CutIsExact
  BY CopyIsCut DEF CopyIInv, CutIsExact
<1> QED BY <1>1, CopiesKeepInv, PTL

\* A copy of a stream whose pictures are presented in the order they are
\* decoded in holds every picture that one of its pictures needs.
THEOREM CopiesSplitNoGop == OpSpec => []NoGopIsSplitInOrder
<1>1. CopyIInv => NoGopIsSplitInOrder
  BY CopySplitsNone DEF CopyIInv, NoGopIsSplitInOrder
<1> QED BY <1>1, CopiesKeepInv, PTL

\* The transcoded streams of a job are those the first part is about: what it
\* proves of the transcode operation holds of them.
THEOREM StreamsAreTranscoded ==
    OpSpec => /\ [](TypeOK /\ StampsMatch /\ WindowExact /\ CfrTimeline /\ CfrShowsLatest)
              /\ PipeSpec
<1>1. OpInit => Init
  BY DEF OpInit
<1>2. [OpNext]_opVars => [Next]_vars
  BY DEF OpNext, Transcodes, Copies, opVars
<1>3. OpSpec => Spec
  BY <1>1, <1>2, PTL DEF OpSpec, Spec
<1> QED
  BY <1>3, TypeCorrect, PacketsCarryTheirStamp, WindowIsGiven, SlotsAreFilled,
     SlotsShowTheLatest, ImplementsPipe, PTL

===============================================================================
