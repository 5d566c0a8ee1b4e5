-------------------------- MODULE HlsSegmenterProofs --------------------------
(***************************************************************************)
(* For every target duration, kind of reference stream and sequence of     *)
(* packets.                                                                *)
(*                                                                         *)
(* IInv: the segmenter's bookkeeping stays aligned, so the playlist names  *)
(* every segment, each of them finalized.  SegInv, on top of it: what the  *)
(* segments hold, so that no packet is lost between them, their durations  *)
(* tile the timeline, and they are cut where they are due.                 *)
(***************************************************************************)
EXTENDS HlsSegmenter, SequenceFacts

\* The three per-segment lists advance together: a duration is missing only
\* for the segment that is still open, and only that one is not finalized.
Aligned ==
    /\ Len(closed) = Len(files)
    /\ current => Len(files) > 0
    /\ Len(segDurations) = IF current THEN Len(files) - 1 ELSE Len(files)
    /\ \A i \in 1..Len(closed) : (i < Len(files) \/ ~current) => closed[i]

\* The playlist was made of the lists as they stand at the end.
PlaylistWritten ==
    phase = "done" => /\ ~current
                      /\ playlist = PlaylistOf(segDurations, Len(files))

IInv == TypeOK /\ Aligned /\ PlaylistWritten

LEMMA MeasuredIsNat ==
    ASSUME TypeOK, NEW e \in Pts
    PROVE  MeasuredDuration(e) \in Nat
BY TargetAssumption, NoPtsAssumption, BoundsAssumption
   DEF TypeOK, Pts, MeasuredDuration

\* What close_segment does to the lists, whether or not a segment was open.
LEMMA ClosingAligns ==
    ASSUME TypeOK, Aligned, NEW e \in Pts
    PROVE  /\ DurationsClosed(e) \in Seq(Nat)
           /\ Len(DurationsClosed(e)) = Len(files)
           /\ MarkedClosed \in Seq(BOOLEAN)
           /\ Len(MarkedClosed) = Len(files)
           /\ \A i \in 1..Len(files) : MarkedClosed[i]
<1>1. MeasuredDuration(e) \in Nat
  BY MeasuredIsNat
<1>2. CASE current
  <2>1. MarkedClosed = [closed EXCEPT ![Len(closed)] = TRUE]
    BY <1>2 DEF MarkedClosed
  <2>2. MarkedClosed \in Seq(BOOLEAN) /\ Len(MarkedClosed) = Len(files)
    BY <2>1, <1>2 DEF TypeOK, Aligned
  <2>3. \A i \in 1..Len(files) : MarkedClosed[i]
    BY <2>1, <1>2 DEF TypeOK, Aligned
  <2>4. /\ DurationsClosed(e) \in Seq(Nat)
        /\ Len(DurationsClosed(e)) = Len(files)
    BY <1>1, <1>2 DEF TypeOK, Aligned, DurationsClosed
  <2> QED BY <2>2, <2>3, <2>4
<1>3. CASE ~current
  BY <1>3 DEF TypeOK, Aligned, DurationsClosed, MarkedClosed
<1> QED BY <1>2, <1>3

LEMMA InitInv == Init => IInv
<1> SUFFICES ASSUME Init PROVE IInv
  OBVIOUS
<1>1. TypeOK
  <2>1. /\ files \in Seq(Seq(Packet)) /\ playlist \in Seq(Nat \X Nat)
        /\ closed \in Seq(BOOLEAN) /\ segDurations \in Seq(Nat)
        /\ sent \in Seq(Packet)
    BY DEF Init
  <2> QED BY <2>1 DEF Init, TypeOK, Pts
<1>2. Aligned
  BY DEF Init, Aligned
<1>3. PlaylistWritten
  BY DEF Init, PlaylistWritten
<1> QED BY <1>1, <1>2, <1>3 DEF IInv

LEMMA PacketPts ==
    ASSUME NEW p \in Packet
    PROVE  p.pts \in Pts
<1>1. CASE p \in [ref : {TRUE}, pts : Pts, key : BOOLEAN]
  BY <1>1
<1>2. CASE p = OtherPacket
  BY <1>2 DEF OtherPacket, Pts
<1> QED BY <1>1, <1>2 DEF Packet

LEMMA StepInv == IInv /\ [Next]_vars => IInv'
<1> SUFFICES ASSUME IInv, [Next]_vars PROVE IInv'
  OBVIOUS
<1> USE DEF IInv
<1>1. CASE WriteHeader
  BY <1>1 DEF WriteHeader, TypeOK, Aligned, PlaylistWritten
<1>2. ASSUME NEW p \in Packet, WritePacket(p) PROVE IInv'
  <2>1. /\ phase = "open"
        /\ sent' \in Seq(Packet)
    BY <1>2 DEF WritePacket, TypeOK
  <2>2. p.pts \in Pts /\ NotedRefPts(p) \in Pts
    BY PacketPts DEF NotedRefPts, TypeOK
  <2>3. CASE Roll(p)
    <3>1. TypeOK'
      BY <2>1, <2>2, <2>3, ClosingAligns DEF Roll, TypeOK
    <3>2. /\ Len(files) \in Nat
          /\ files' = Append(files, <<p>>)
          /\ Len(files') = Len(files) + 1
      BY <2>3 DEF Roll, TypeOK
    <3>3. /\ closed' = Append(MarkedClosed, FALSE)
          /\ Len(closed') = Len(files) + 1
          /\ \A i \in 1..Len(files) : closed'[i]
      BY <2>2, <2>3, ClosingAligns DEF Roll
    <3>4. Len(segDurations') = Len(files) /\ current'
      BY <2>2, <2>3, ClosingAligns DEF Roll
    <3>5. Aligned'
      BY <3>2, <3>3, <3>4 DEF Aligned
    <3> QED BY <3>1, <3>5, <2>1, <2>3 DEF Roll, PlaylistWritten
  <2>4. CASE OpenUntimed(p)
    <3>1. TypeOK'
      BY <2>1, <2>2, <2>4 DEF OpenUntimed, TypeOK
    <3>2. Aligned'
      BY <2>4 DEF OpenUntimed, TypeOK, Aligned
    <3> QED BY <3>1, <3>2, <2>1, <2>4 DEF OpenUntimed, PlaylistWritten
  <2>5. CASE Extend(p)
    <3>1. files' \in Seq(Seq(Packet)) /\ Len(files') = Len(files)
      BY <2>5 DEF Extend, TypeOK, Aligned
    <3>2. TypeOK' /\ Aligned'
      BY <3>1, <2>1, <2>2, <2>5 DEF Extend, TypeOK, Aligned
    <3> QED BY <3>2, <2>1, <2>5 DEF Extend, PlaylistWritten
  <2>6. CASE OpenFails(p)
    <3>1. TypeOK'
      BY <2>1, <2>2, <2>6, ClosingAligns DEF OpenFails, TypeOK, Pts
    <3>2. Aligned'
      BY <2>2, <2>6, ClosingAligns DEF OpenFails, TypeOK, Aligned
    <3> QED BY <3>1, <3>2, <2>6 DEF OpenFails, PlaylistWritten
  <2> QED BY <1>2, <2>3, <2>4, <2>5, <2>6 DEF WritePacket
<1>3. CASE WriteTrailer
  <2>1. NoPts \in Pts
    BY DEF Pts
  <2>2. Aligned'
    BY <1>3, <2>1, ClosingAligns DEF WriteTrailer, TypeOK, Aligned
  <2>3. PlaylistOf(segDurations', Len(files)) \in Seq(Nat \X Nat)
    <3>1. segDurations' \in Seq(Nat) /\ Len(segDurations') = Len(files)
      BY <1>3, <2>1, ClosingAligns DEF WriteTrailer
    <3>2. PlaylistOf(segDurations', Len(files))
            = [i \in 1..Len(files) |-> <<segDurations'[i], i>>]
      BY <3>1 DEF PlaylistOf
    <3>3. \A i \in 1..Len(files) : <<segDurations'[i], i>> \in Nat \X Nat
      BY <3>1
    <3>4. Len(files) \in Nat
      BY DEF TypeOK
    <3> QED BY <3>2, <3>3, <3>4
  <2>4. TypeOK'
    BY <1>3, <2>1, <2>3, ClosingAligns DEF WriteTrailer, TypeOK
  <2> QED BY <2>2, <2>4, <1>3 DEF WriteTrailer, PlaylistWritten
<1>4. CASE WriteFails
  BY <1>4 DEF WriteFails, TypeOK, Aligned, PlaylistWritten
<1>5. CASE UNCHANGED vars
  BY <1>5 DEF vars, TypeOK, Aligned, PlaylistWritten
<1> QED BY <1>1, <1>2, <1>3, <1>4, <1>5 DEF Next

LEMMA InvImpliesComplete == IInv => TypeOK /\ PlaylistComplete
<1> SUFFICES ASSUME IInv PROVE PlaylistComplete
  BY DEF IInv
<1> SUFFICES ASSUME phase = "done"
             PROVE  /\ [i \in 1..Len(playlist) |-> playlist[i][2]]
                          = [i \in 1..Len(files) |-> i]
                    /\ \A i \in 1..Len(files) : closed[i]
  BY DEF PlaylistComplete
<1>1. Len(segDurations) = Len(files) /\ Len(files) \in Nat
  BY DEF IInv, Aligned, PlaylistWritten, TypeOK
<1>2. playlist = [i \in 1..Len(files) |-> <<segDurations[i], i>>]
  BY <1>1 DEF IInv, PlaylistWritten, PlaylistOf
<1>3. Len(playlist) = Len(files)
  BY <1>1, <1>2
<1>4. \A i \in 1..Len(files) : closed[i]
  BY DEF IInv, Aligned, PlaylistWritten
<1> QED BY <1>2, <1>3, <1>4

\* The segmenter's variables keep their types, whatever it is handed.
THEOREM TypeCorrect == Spec => []TypeOK
<1>1. IInv => TypeOK
  BY DEF IInv
<1> QED BY <1>1, InitInv, StepInv, PTL DEF Spec

\* A finished playlist names every segment, each finalized (write_trailer).
THEOREM PlaylistIsComplete == Spec => []PlaylistComplete
BY InitInv, StepInv, InvImpliesComplete, PTL DEF Spec

-----------------------------------------------------------------------------
(* What the segments hold. *)

\* Nothing was handed over while no segment was ever open.
Fresh ==
    /\ phase = "new" => ~current
    /\ (phase \in {"new", "open"} /\ ~current) =>
          files = <<>> /\ sent = <<>> /\ segStartPts = NoPts

\* Each segment has a first packet, that of the first segment being the first
\* of all; the later ones start at a timed packet, a keyframe if it is video.
FirstPackets ==
    /\ \A i \in 1..Len(files) : Len(files[i]) > 0
    /\ files # <<>> => sent # <<>> /\ files[1][1] = sent[1]
    /\ \A i \in 2..Len(files) : Timed(files[i][1]) /\ (HasVideo => files[i][1].key)

\* The open segment is measured from its first packet, if that is timed.
StartTime(seg) == IF Timed(seg[1]) THEN seg[1].pts ELSE NoPts
MeasuredFromStart ==
    (phase = "open" /\ current) => segStartPts = StartTime(files[Len(files)])

\* A segment that starts at a timed packet ends before the next keyframe due.
EndsInTime(seg) ==
    Timed(seg[1]) => \A j \in 1..Len(seg) :
        (Timed(seg[j]) /\ seg[j].key) => seg[j].pts - seg[1].pts < Target

SegInv == /\ phase # "failed" => FlattenSeq(files) = sent
          /\ Fresh /\ FirstPackets /\ MeasuredFromStart
          /\ \A i \in 1..Len(files) : EndsInTime(files[i])
          /\ DurationsTile

LEMMA SegInit == Init => SegInv
<1> SUFFICES ASSUME Init PROVE SegInv
  OBVIOUS
<1>1. files = <<>> /\ sent = <<>> /\ phase = "new" /\ segStartPts = NoPts /\ ~current
  BY DEF Init
<1>2. FlattenSeq(files) = sent
  BY <1>1, FlattenEmpty
<1> QED BY <1>1, <1>2 DEF SegInv, Fresh, FirstPackets, MeasuredFromStart, DurationsTile

\* The segments and the packets stay as they are.
LEMMA SegQuiet ==
    ASSUME SegInv, UNCHANGED <<files, sent>>,
           \/ UNCHANGED <<phase, current, segStartPts, segDurations>>
           \/ phase' = "failed" \/ phase' = "done"
           \/ phase = "new" /\ UNCHANGED <<current, segStartPts, segDurations>>,
           phase # "failed" \/ phase' = "failed", phase' # "new" \/ phase = "new",
           \A i \in 1..(Len(files) - 1) : segDurations'[i] = segDurations[i]
    PROVE  SegInv'
<1>1. \A i \in 1..Len(files) : EndsInTime(files[i])'
  BY DEF SegInv, EndsInTime, Timed
<1>2. FirstPackets'
  BY DEF SegInv, FirstPackets, Timed
<1>3. DurationsTile'
  BY DEF SegInv, DurationsTile, StartOf
<1>4. Fresh' /\ MeasuredFromStart'
  BY DEF SegInv, Fresh, MeasuredFromStart, StartTime, Timed
<1> QED BY <1>1, <1>2, <1>3, <1>4 DEF SegInv

\* A segment is opened, by its first packet and after those it belongs after.
LEMMA SegOpens ==
    ASSUME IInv, SegInv, phase = "open", NEW p \in Packet, sent' = Append(sent, p),
           Roll(p) \/ OpenUntimed(p)
    PROVE  SegInv'
<1>1. /\ files \in Seq(Seq(Packet)) /\ sent \in Seq(Packet) /\ <<p>> \in Seq(Packet)
      /\ <<p>>[1] = p /\ Len(<<p>>) = 1
  BY DEF IInv, TypeOK
<1>2. files' = Append(files, <<p>>) /\ phase' = "open" /\ current'
  BY DEF Roll, OpenUntimed
<1>3. PICK n \in Nat : n = Len(files)
  BY <1>1, LenProperties
<1>4. /\ Len(files') = n + 1 /\ files'[n + 1] = <<p>> /\ files' # <<>>
      /\ \A i \in 1..n : files'[i] = files[i]
  BY <1>1, <1>2, <1>3, AppendProperties
<1>5. /\ sent' # <<>> /\ (sent # <<>> => sent'[1] = sent[1])
      /\ (sent = <<>> => sent'[1] = p)
  BY <1>1
<1>6. ~current => files = <<>> /\ sent = <<>> /\ n = 0
  BY <1>1, <1>3 DEF SegInv, Fresh
<1>7. FlattenSeq(files') = sent'
  <2>1. FlattenSeq(files) = sent
    BY DEF SegInv
  <2>2. FlattenSeq(files') = sent \o <<p>>
    BY <1>1, <1>2, <2>1, FlattenAppend
  <2>3. sent \o <<p>> = Append(sent, p)
    BY <1>1, AppendIsConcat
  <2> QED BY <2>2, <2>3
<1>8. Fresh'
  BY <1>2 DEF Fresh
<1>9. current => n > 0 /\ Due(p) /\ Timed(p) /\ (HasVideo => p.key)
  BY <1>1, <1>3 DEF Roll, OpenUntimed, Rolls, AtBoundary, Timed, IInv, Aligned
<1>10. FirstPackets'
  <2>1. \A i \in 1..(n + 1) : i \in 1..n \/ i = n + 1
    OBVIOUS
  <2>2. \A i \in 1..(n + 1) : Len(files'[i]) > 0
    <3>1. \A i \in 1..n : Len(files[i]) > 0
      BY <1>3 DEF SegInv, FirstPackets
    <3>2. Len(files'[n + 1]) > 0
      BY <1>1, <1>4
    <3> QED BY <1>4, <2>1, <3>1, <3>2
  <2>3. files'[1][1] = sent'[1]
    <3>1. CASE n = 0
      <4>1. sent = <<>>
        BY <1>6, <1>9, <3>1
      <4> QED BY <1>1, <1>4, <1>5, <3>1, <4>1
    <3>2. CASE n > 0
      BY <1>3, <1>4, <1>5, <3>2 DEF SegInv, FirstPackets
    <3> QED BY <3>1, <3>2
  <2>4. \A i \in 2..(n + 1) : Timed(files'[i][1]) /\ (HasVideo => files'[i][1].key)
    <3>1. \A i \in 2..n : Timed(files'[i][1]) /\ (HasVideo => files'[i][1].key)
      BY <1>3, <1>4 DEF SegInv, FirstPackets
    <3>2. n > 0 => Timed(files'[n + 1][1]) /\ (HasVideo => files'[n + 1][1].key)
      BY <1>1, <1>4, <1>6, <1>9
    <3>3. \A i \in 2..(n + 1) : i \in 2..n \/ (i = n + 1 /\ n > 0)
      OBVIOUS
    <3> QED BY <3>1, <3>2, <3>3
  <2> QED BY <1>4, <1>5, <2>2, <2>3, <2>4 DEF FirstPackets, Timed
<1>11. segStartPts' = StartTime(<<p>>)
  <2>1. CASE Roll(p)
    BY <1>1, <2>1 DEF Roll, Rolls, StartTime, Timed
  <2>2. CASE OpenUntimed(p)
    <3>1. ~Timed(p) /\ segStartPts' = segStartPts /\ ~current
      BY <2>2 DEF OpenUntimed, Rolls, Timed
    <3>2. segStartPts = NoPts
      BY <3>1 DEF SegInv, Fresh
    <3> QED BY <1>1, <3>1, <3>2 DEF StartTime
  <2> QED BY <2>1, <2>2
<1>12. MeasuredFromStart'
  BY <1>2, <1>4, <1>11 DEF MeasuredFromStart, StartTime, Timed
<1>13. \A i \in 1..Len(files') : EndsInTime(files[i])'
  <2>1. EndsInTime(<<p>>)
    <3>1. Timed(p) => p.pts - p.pts < Target
      BY PacketPts, TargetAssumption DEF Timed, Pts
    <3> QED BY <1>1, <3>1 DEF EndsInTime
  <2>2. \A i \in 1..(n + 1) : (i \in 1..n /\ files'[i] = files[i]) \/ files'[i] = <<p>>
    BY <1>4
  <2>3. \A i \in 1..n : EndsInTime(files[i])
    BY <1>3 DEF SegInv
  <2> QED BY <1>4, <2>1, <2>2, <2>3 DEF EndsInTime, Timed
<1>14. DurationsTile'
  <2>1. ASSUME NEW i \in 1..n
        PROVE  /\ segDurations'[i] = files'[i + 1][1].pts - files'[i][1].pts
               /\ segDurations'[i] >= Target
    <3>1. n > 0 /\ current /\ Due(p) /\ Timed(p)
      BY <1>6, <1>9
    <3>2. /\ segDurations' = Append(segDurations, MeasuredDuration(p.pts))
          /\ segDurations \in Seq(Nat) /\ Len(segDurations) = n - 1
      BY <1>3, <3>1 DEF Roll, OpenUntimed, DurationsClosed, IInv, TypeOK, Aligned
    <3>3. MeasuredDuration(p.pts) \in Nat
      BY PacketPts, MeasuredIsNat DEF IInv
    <3>4. /\ segDurations'[n] = MeasuredDuration(p.pts)
          /\ \A k \in 1..(n - 1) : segDurations'[k] = segDurations[k]
      BY <1>3, <3>1, <3>2, <3>3, AppendProperties
    <3>5. CASE i \in 1..(n - 1)
      <4>1. i + 1 \in 1..n
        BY <3>5
      <4>2. files'[i + 1] = files[i + 1] /\ files'[i] = files[i]
        BY <1>4, <4>1
      <4> QED BY <1>3, <3>4, <3>5, <4>2 DEF SegInv, DurationsTile, StartOf
    <3>6. CASE i = n
      <4>1. segStartPts = StartTime(files[n]) /\ segStartPts # NoPts
        BY <1>3, <3>1 DEF SegInv, MeasuredFromStart, Due
      <4>2. segStartPts = files[n][1].pts
        BY <4>1 DEF StartTime
      <4>3. p.pts \in 0..MaxPts /\ segStartPts \in 0..MaxPts
        BY <3>1, <4>1, PacketPts DEF Timed, Pts, IInv, TypeOK
      <4>4. p.pts - segStartPts >= Target
        BY <3>1 DEF Due
      <4>5. p.pts > segStartPts /\ p.pts # NoPts
        BY <3>1, <4>3, <4>4, TargetAssumption DEF Timed
      <4>6. MeasuredDuration(p.pts) = p.pts - segStartPts
        BY <4>1, <4>5 DEF MeasuredDuration
      <4> QED BY <1>1, <1>4, <3>1, <3>4, <3>6, <4>2, <4>4, <4>6
    <3> QED BY <3>5, <3>6
  <2> QED BY <1>4, <2>1 DEF DurationsTile, StartOf
<1> QED BY <1>2, <1>7, <1>8, <1>10, <1>12, <1>13, <1>14 DEF SegInv

\* A packet goes into the open segment: it is not one at which that must end.
LEMMA SegExtends ==
    ASSUME IInv, SegInv, phase = "open", NEW p \in Packet, sent' = Append(sent, p), Extend(p)
    PROVE  SegInv'
<1>1. files \in Seq(Seq(Packet)) /\ sent \in Seq(Packet) /\ current
  BY DEF IInv, TypeOK, Extend
<1>2. PICK n \in Nat : n = Len(files) /\ n > 0
  BY <1>1, LenProperties DEF IInv, Aligned
<1>3. files[n] \in Seq(Packet) /\ Len(files[n]) > 0
  BY <1>1, <1>2 DEF SegInv, FirstPackets
<1>4. PICK l \in Seq(Packet) : l = files[n]
  BY <1>3
<1>5. PICK grown \in Seq(Packet) : grown = Append(l, p)
  BY AppendProperties
<1>6. /\ Len(grown) = Len(l) + 1 /\ grown[Len(l) + 1] = p /\ Len(l) \in Nat \ {0}
      /\ \A j \in 1..Len(l) : grown[j] = l[j]
  BY <1>3, <1>4, <1>5, AppendProperties
<1>7. /\ files' = [files EXCEPT ![n] = grown] /\ files' \in Seq(Seq(Packet))
      /\ Len(files') = n /\ files'[n] = grown
      /\ \A i \in 1..n : i # n => files'[i] = files[i]
  BY <1>1, <1>2, <1>4, <1>5 DEF Extend
<1>8. /\ UNCHANGED <<phase, current, segDurations, segStartPts>> /\ ~Rolls(p)
  BY DEF Extend
<1>9. \A i \in 1..n : files'[i][1] = files[i][1]
  <2>1. grown[1] = l[1]
    BY <1>6
  <2>2. files'[n][1] = files[n][1]
    BY <1>4, <1>7, <2>1
  <2> QED BY <1>7, <2>2
<1>10. FlattenSeq(files') = sent'
  <2>1. files' = [files EXCEPT ![Len(files)] = Append(@, p)] /\ files # <<>>
    BY <1>1, <1>2 DEF Extend
  <2>2. FlattenSeq(files') = Append(FlattenSeq(files), p)
    BY <1>1, <2>1, FlattenGrows
  <2> QED BY <2>2 DEF SegInv
<1>11. Fresh'
  BY <1>1, <1>8 DEF Fresh
<1>12. FirstPackets'
  <2>1. files # <<>> /\ files' # <<>> /\ 1 \in 1..n
    BY <1>2, <1>7
  <2>2. sent # <<>> /\ files[1][1] = sent[1]
    BY <2>1 DEF SegInv, FirstPackets
  <2>3. sent' # <<>> /\ sent'[1] = sent[1]
    BY <1>1, <2>2, AppendProperties
  <2>4. \A i \in 1..n : Len(files'[i]) > 0
    BY <1>2, <1>6, <1>7 DEF SegInv, FirstPackets
  <2>5. \A i \in 2..n : Timed(files[i][1]) /\ (HasVideo => files[i][1].key)
    BY <1>2 DEF SegInv, FirstPackets
  <2>6. \A i \in 2..n : i \in 1..n
    OBVIOUS
  <2> QED BY <1>7, <1>9, <2>1, <2>2, <2>3, <2>4, <2>5, <2>6 DEF FirstPackets, Timed
<1>13. n \in 1..n /\ segStartPts = StartTime(files[n])
  BY <1>1, <1>2 DEF SegInv, MeasuredFromStart
<1>14. MeasuredFromStart'
  BY <1>7, <1>8, <1>9, <1>13 DEF MeasuredFromStart, StartTime, Timed
<1>15. EndsInTime(grown)
  <2> SUFFICES ASSUME Timed(grown[1]), NEW j \in 1..Len(grown),
                      Timed(grown[j]), grown[j].key
               PROVE  grown[j].pts - grown[1].pts < Target
    BY DEF EndsInTime
  <2>1. grown[1] = l[1] /\ 1 \in 1..Len(l)
    BY <1>6
  <2>2. CASE j \in 1..Len(l)
    <3>1. EndsInTime(l)
      BY <1>2, <1>4 DEF SegInv
    <3>2. grown[j] = l[j]
      BY <1>6, <2>2
    <3> QED BY <2>1, <2>2, <3>1, <3>2 DEF EndsInTime
  <2>3. CASE j = Len(l) + 1
    <3>1. Timed(p) /\ p.key
      BY <1>6, <2>3
    <3>2. ~Due(p)
      BY <1>8, <3>1 DEF Rolls, AtBoundary, Timed
    <3>3. segStartPts = l[1].pts /\ segStartPts # NoPts
      BY <1>4, <1>13, <2>1 DEF StartTime, Timed
    <3>4. p.pts \in Int /\ segStartPts \in Int
      <4>1. p.pts \in Pts /\ segStartPts \in Pts
        BY PacketPts DEF IInv, TypeOK
      <4>2. p.pts # NoPts
        BY <3>1 DEF Timed
      <4> QED BY <3>3, <4>1, <4>2 DEF Pts
    <3> QED BY <1>6, <2>1, <2>3, <3>2, <3>3, <3>4, TargetAssumption DEF Due
  <2> QED BY <1>6, <2>2, <2>3
<1>16. \A i \in 1..Len(files') : EndsInTime(files[i])'
  <2> SUFFICES ASSUME NEW i \in 1..n PROVE EndsInTime(files[i])'
    BY <1>7
  <2>1. CASE i = n
    BY <1>7, <1>15, <2>1 DEF EndsInTime, Timed
  <2>2. CASE i # n
    <3>1. EndsInTime(files[i]) /\ files'[i] = files[i]
      BY <1>2, <1>7, <2>2 DEF SegInv
    <3> QED BY <3>1 DEF EndsInTime, Timed
  <2> QED BY <2>1, <2>2
<1>17. DurationsTile'
  <2>1. \A i \in 1..(n - 1) : i \in 1..n /\ i + 1 \in 1..n
    OBVIOUS
  <2>2. \A i \in 1..(n - 1) : /\ segDurations[i] = files[i + 1][1].pts - files[i][1].pts
                              /\ segDurations[i] >= Target
    BY <1>2 DEF SegInv, DurationsTile, StartOf
  <2>3. \A i \in 1..(n - 1) :
            files'[i + 1][1].pts = files[i + 1][1].pts /\ files'[i][1].pts = files[i][1].pts
    BY <1>9, <2>1
  <2> QED BY <1>7, <1>8, <2>2, <2>3 DEF DurationsTile, StartOf
<1> QED BY <1>10, <1>11, <1>12, <1>14, <1>16, <1>17 DEF SegInv

LEMMA SegStep == IInv /\ SegInv /\ [Next]_vars => SegInv'
<1> SUFFICES ASSUME IInv, SegInv, [Next]_vars PROVE SegInv'
  OBVIOUS
\* Closing leaves the durations of the closed segments.
<1>1. ASSUME NEW e \in Pts, NEW i \in 1..(Len(files) - 1)
      PROVE  DurationsClosed(e)[i] = segDurations[i]
  <2>1. CASE current
    <3>1. /\ segDurations \in Seq(Nat) /\ Len(segDurations) = Len(files) - 1
          /\ MeasuredDuration(e) \in Nat
      BY <2>1, MeasuredIsNat DEF IInv, TypeOK, Aligned
    <3> QED BY <2>1, <3>1, AppendProperties DEF DurationsClosed
  <2>2. CASE ~current
    BY <2>2 DEF DurationsClosed
  <2> QED BY <2>1, <2>2
<1>2. CASE WriteHeader
  <2>1. phase = "new" /\ UNCHANGED <<current, segStartPts, segDurations, files, sent>>
    BY <1>2 DEF WriteHeader
  <2>2. phase' = "open"
    BY <1>2 DEF WriteHeader
  <2> QED BY <2>1, <2>2, SegQuiet
<1>3. ASSUME NEW p \in Packet, WritePacket(p) PROVE SegInv'
  <2>1. phase = "open" /\ sent' = Append(sent, p)
    BY <1>3 DEF WritePacket
  <2>2. CASE Roll(p) \/ OpenUntimed(p)
    BY <2>1, <2>2, SegOpens
  <2>3. CASE Extend(p)
    BY <2>1, <2>3, SegExtends
  <2>4. CASE OpenFails(p)
    <3>1. phase' = "failed" /\ UNCHANGED files /\ segDurations' = DurationsClosed(p.pts)
      BY <2>4 DEF OpenFails
    <3>2. \A i \in 1..(Len(files) - 1) : segDurations'[i] = segDurations[i]
      BY <1>1, <3>1, PacketPts
    <3>3. FirstPackets'
      <4>1. sent # <<>> => sent' # <<>> /\ sent'[1] = sent[1]
        <5>1. sent \in Seq(Packet)
          BY DEF IInv, TypeOK
        <5>2. sent # <<>> => 1 \in 1..Len(sent)
          BY <5>1
        <5>3. Len(sent') = Len(sent) + 1 /\ \A i \in 1..Len(sent) : sent'[i] = sent[i]
          BY <2>1, <5>1, AppendProperties
        <5> QED BY <2>1, <5>1, <5>2, <5>3
      <4> QED BY <3>1, <4>1 DEF SegInv, FirstPackets, Timed
    <3>4. \A i \in 1..Len(files) : EndsInTime(files[i])'
      BY <3>1 DEF SegInv, EndsInTime, Timed
    <3>5. DurationsTile'
      BY <3>1, <3>2 DEF SegInv, DurationsTile, StartOf
    <3> QED BY <3>1, <3>3, <3>4, <3>5 DEF SegInv, Fresh, MeasuredFromStart
  <2> QED BY <1>3, <2>2, <2>3, <2>4 DEF WritePacket
<1>4. CASE WriteTrailer
  <2>1. phase = "open" /\ phase' = "done" /\ UNCHANGED <<files, sent>>
        /\ segDurations' = DurationsClosed(NoPts)
    BY <1>4 DEF WriteTrailer
  <2>2. \A i \in 1..(Len(files) - 1) : segDurations'[i] = segDurations[i]
    BY <1>1, <2>1 DEF Pts
  <2> QED BY <2>1, <2>2, SegQuiet
<1>5. CASE WriteFails
  BY <1>5, SegQuiet DEF WriteFails
<1>6. CASE UNCHANGED vars
  BY <1>6, SegQuiet DEF vars
<1> QED BY <1>2, <1>3, <1>4, <1>5, <1>6 DEF Next

\* Segments that start at a timed packet and end in time were rolled over.
LEMMA SegmentsRollOver ==
    ASSUME SegInv, files \in Seq(Seq(Packet)), sent # <<>>, Timed(sent[1])
    PROVE  RollsOver
<1> SUFFICES ASSUME NEW i \in 1..Len(files), Overlong(i) PROVE FALSE
  BY DEF RollsOver
<1>1. Timed(files[i][1]) /\ Len(files[i]) > 0 /\ Len(files[i]) \in Nat
  <2>1. files[i] \in Seq(Packet) /\ Len(files[i]) > 0 /\ files # <<>>
    BY DEF SegInv, FirstPackets
  <2>2. CASE i = 1
    BY <2>1, <2>2 DEF SegInv, FirstPackets
  <2>3. CASE i # 1
    <3>1. i \in 2..Len(files)
      BY <2>3
    <3> QED BY <2>1, <3>1 DEF SegInv, FirstPackets
  <2> QED BY <2>2, <2>3
<1>2. FirstRef(i) = 1
  <2> DEFINE P(j) == Timed(files[i][j]) /\ \A k \in 1..(j - 1) : ~Timed(files[i][k])
  <2>1. 1 \in 1..Len(files[i]) /\ P(1)
    BY <1>1
  <2>2. \A j \in 1..Len(files[i]) : P(j) => j = 1
    <3> SUFFICES ASSUME NEW j \in 1..Len(files[i]), P(j), j # 1 PROVE FALSE
      OBVIOUS
    <3>1. 1 \in 1..(j - 1)
      BY <1>1
    <3> QED BY <1>1, <3>1
  <2> HIDE DEF P
  <2>3. (CHOOSE j \in 1..Len(files[i]) : P(j)) = 1
    BY <2>1, <2>2
  <2> QED BY <2>3 DEF FirstRef, P
<1>3. PICK j \in 1..Len(files[i]) :
          Timed(files[i][j]) /\ files[i][j].key /\ files[i][j].pts - files[i][1].pts >= Target
  BY <1>2 DEF Overlong
<1>4. files[i][j].pts - files[i][1].pts < Target
  BY <1>1, <1>3 DEF SegInv, EndsInTime
<1>5. files[i][j].pts \in Int /\ files[i][1].pts \in Int
  <2>1. files[i][j] \in Packet /\ files[i][1] \in Packet
    BY <1>1
  <2> QED BY <1>1, <1>3, <2>1, PacketPts DEF Timed, Pts
<1> QED BY <1>3, <1>4, <1>5, TargetAssumption

LEMMA Invariance == Spec => [](IInv /\ SegInv)
<1>1. Init => IInv /\ SegInv
  BY InitInv, SegInit
<1>2. IInv /\ SegInv /\ [Next]_vars => IInv' /\ SegInv'
  BY StepInv, SegStep
<1> QED BY <1>1, <1>2, PTL DEF Spec

\* Reading the segments in the order of the playlist gives back every packet
\* that was handed over, once and in order (write_packet).
THEOREM NothingIsLost == Spec => []NothingLostAcrossSegments
<1>1. IInv /\ SegInv => NothingLostAcrossSegments
  BY DEF SegInv, NothingLostAcrossSegments
<1> QED BY <1>1, Invariance, PTL

\* A segment that was rolled over lasts from its own start to the start of the
\* next, and at least for the target (close_segment).
THEOREM SegmentsTileTheTimeline == Spec => []DurationsTile
<1>1. IInv /\ SegInv => DurationsTile
  BY DEF SegInv
<1> QED BY <1>1, Invariance, PTL

\* Each segment but the first starts at a keyframe of the stream that drives the
\* boundaries, and if the first packet is a timed one of that stream, none goes
\* on past a keyframe that is due (at_boundary).
THEOREM SegmentsAreCutWhereDue == Spec => []CutsWhereDue
<1>1. IInv /\ SegInv => CutsWhereDue
  <2> SUFFICES ASSUME IInv, SegInv PROVE CutsWhereDue
    OBVIOUS
  <2>1. StartsIndependent
    BY DEF SegInv, FirstPackets, StartsIndependent
  <2> QED BY <2>1, SegmentsRollOver DEF CutsWhereDue, IInv, TypeOK
<1> QED BY <1>1, Invariance, PTL

=============================================================================
