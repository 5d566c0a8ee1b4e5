---------------------------- MODULE NetworkIoProofs ----------------------------
(***************************************************************************)
(* What crosses the network.                                               *)
(***************************************************************************)
EXTENDS NetworkIo, SequenceFacts

-----------------------------------------------------------------------------
(* UDP, the sending side *)

TsPacketSet == [pid : Nat, unit : Nat, piece : Nat]
Datagrams == [data : Seq(TsPacketSet), left : Nat]
Payloads == [i \in DOMAIN wire |-> wire[i].data]

SendTypeOK ==
    /\ units \in Programs
    /\ pending \in Seq(TsPacketSet) /\ wire \in Seq(Datagrams)
    /\ written \in 0..Len(Output) /\ handed \in Seq(DOMAIN Output)
    /\ muxer \in {"open", "closed", "failed"}

\* The first `written` TS packets have been handed over, and of the others at
\* most the next.
HandedOver ==
    /\ \A k \in 1..written : \E n \in DOMAIN handed : handed[n] = k
    /\ \A n \in DOMAIN handed : handed[n] <= written + 1

\* What was sent and is pending is what was handed over.
SendInv == SendTypeOK /\ HandedOver /\ SentIsWritten

LEMMA ProgramTyped ==
    ASSUME units \in Programs
    PROVE  /\ units \in Seq(Units)
           /\ \A u \in DOMAIN units : TsPackets(u) \in Seq(TsPacketSet)
<1>1. units \in Seq(Units)
  BY UnitAssumption
<1>2. ASSUME NEW u \in DOMAIN units PROVE TsPackets(u) \in Seq(TsPacketSet)
  <2>1. units[u] \in Units /\ u \in Nat
    BY <1>1
  <2>2. units[u].size \in Nat /\ units[u].pid \in Nat
    BY <2>1, DemuxAssumption DEF Units
  <2>3. PICK n \in Nat, pid \in Nat : n = units[u].size /\ pid = units[u].pid
    BY <2>2
  <2>4. [k \in 1..n |-> Ts(pid, u, k)] \in [1..n -> TsPacketSet]
    BY <2>1 DEF Ts, TsPacketSet
  <2>5. [k \in 1..n |-> Ts(pid, u, k)] \in Seq(TsPacketSet)
    BY <2>4, FunctionIsSeq
  <2> QED BY <2>3, <2>5 DEF TsPackets
<1> QED BY <1>1, <1>2

LEMMA OutputTyped ==
    ASSUME units \in Programs
    PROVE  Output \in Seq(TsPacketSet) /\ Len(Output) \in Nat
<1> DEFINE parts == [u \in DOMAIN units |-> TsPackets(u)]
<1>1. parts \in Seq(Seq(TsPacketSet))
  <2>1. PICK n \in Nat : n = Len(units) /\ DOMAIN units = 1..n
    BY ProgramTyped
  <2>2. \A u \in 1..n : TsPackets(u) \in Seq(TsPacketSet)
    BY <2>1, ProgramTyped
  <2> QED BY <2>1, <2>2
<1>2. FlattenSeq(parts) \in Seq(TsPacketSet)
  BY <1>1, FlattenType
<1>3. <<Ts(PAT, 0, 1), Ts(PMT, 0, 1)>> \in Seq(TsPacketSet)
  BY DEF Ts, PAT, PMT, TsPacketSet
<1> QED BY <1>2, <1>3 DEF Output

\* Another datagram is sent.
LEMMA PayloadsGrow ==
    ASSUME wire \in Seq(Datagrams), NEW data \in Seq(TsPacketSet), Send(data)
    PROVE  /\ wire' \in Seq(Datagrams) /\ SentData' = SentData \o data
           /\ Payloads' = Append(Payloads, data)
<1>1. PICK n \in Copies : wire' = Append(wire, [data |-> data, left |-> n])
  BY DEF Send
<1>2. [data |-> data, left |-> n] \in Datagrams
  BY LinkAssumption DEF Datagrams
<1>3. PICK m \in Nat : /\ m = Len(wire) /\ DOMAIN wire = 1..m
                       /\ \A i \in 1..m : wire[i] \in Datagrams
  BY ElementOfSeq
<1>4. /\ wire' \in Seq(Datagrams) /\ DOMAIN wire' = 1..(m + 1)
      /\ wire'[m + 1] = [data |-> data, left |-> n]
      /\ \A i \in 1..m : wire'[i] = wire[i]
  BY <1>1, <1>2, <1>3, AppendProperties
<1>5. Payloads \in Seq(Seq(TsPacketSet)) /\ Len(Payloads) = m
  <2>1. Payloads \in [1..m -> Seq(TsPacketSet)]
    BY <1>3 DEF Payloads, Datagrams
  <2> QED BY <2>1, FunctionIsSeq
<1>6. Payloads' \in Seq(Seq(TsPacketSet)) /\ Len(Payloads') = m + 1
  <2>1. \A i \in 1..(m + 1) : wire'[i] \in Datagrams
    BY <1>2, <1>3, <1>4
  <2>2. Payloads' \in [1..(m + 1) -> Seq(TsPacketSet)]
    BY <1>4, <2>1 DEF Payloads, Datagrams
  <2> QED BY <2>2, FunctionIsSeq
<1>7. \A i \in 1..(m + 1) : Payloads'[i] = Append(Payloads, data)[i]
  <2> SUFFICES ASSUME NEW i \in 1..(m + 1) PROVE Payloads'[i] = Append(Payloads, data)[i]
    OBVIOUS
  <2>1. Append(Payloads, data)[i] = IF i = m + 1 THEN data ELSE Payloads[i]
    BY <1>5, AppendProperties
  <2>2. Payloads'[i] = wire'[i].data /\ (i \in 1..m => Payloads[i] = wire[i].data)
    BY <1>3, <1>4 DEF Payloads
  <2> QED BY <1>4, <2>1, <2>2
<1>8. Payloads' = Append(Payloads, data)
  BY <1>5, <1>6, <1>7, AppendProperties, SeqEqual
<1>9. FlattenSeq(Append(Payloads, data)) = FlattenSeq(Payloads) \o data
  BY <1>5, FlattenAppend
<1>10. SentData = FlattenSeq(Payloads)
  BY DEF SentData, Payloads
<1>11. SentData' = FlattenSeq(Payloads')
  BY DEF SentData, Payloads
<1> QED BY <1>4, <1>8, <1>9, <1>10, <1>11

\* What the network does to the datagrams is not to their data.
LEMMA PayloadsStay ==
    ASSUME wire \in Seq(Datagrams), NEW i \in DOMAIN wire, Recv(i)
    PROVE  /\ wire' \in Seq(Datagrams) /\ SentData' = SentData
           /\ Payloads' = Payloads
<1>1. wire' = [wire EXCEPT ![i].left = @ - 1] /\ wire[i].left > 0
  BY DEF Recv, CanArrive
<1>2. PICK m \in Nat : m = Len(wire) /\ DOMAIN wire = 1..m /\ \A j \in 1..m : wire[j] \in Datagrams
  BY ElementOfSeq
<1>3. PICK d \in Datagrams : d = wire[i]
  BY <1>2
<1>4. PICK e \in Datagrams : e = [d EXCEPT !.left = @ - 1] /\ e.data = d.data
  <2>0. d.left \in Nat /\ d.left > 0 /\ d.data \in Seq(TsPacketSet)
    BY <1>1, <1>3 DEF Datagrams
  <2>1. [d EXCEPT !.left = @ - 1] \in Datagrams
    <3>1. d.left - 1 \in Nat
      BY <2>0
    <3>2. [d EXCEPT !.left = @ - 1] = [data |-> d.data, left |-> d.left - 1]
      BY <1>3 DEF Datagrams
    <3> QED BY <2>0, <3>1, <3>2 DEF Datagrams
  <2>2. [d EXCEPT !.left = @ - 1].data = d.data
    BY DEF Datagrams
  <2> QED BY <2>1, <2>2
<1>5. wire' = [j \in 1..m |-> IF j = i THEN e ELSE wire[j]]
  BY <1>1, <1>2, <1>3, <1>4
<1>6. wire' \in Seq(Datagrams) /\ DOMAIN wire' = 1..m
  <2>1. wire' \in [1..m -> Datagrams]
    BY <1>2, <1>4, <1>5
  <2> QED BY <2>1, FunctionIsSeq
<1>7. \A j \in 1..m : wire'[j].data = wire[j].data
  BY <1>2, <1>3, <1>4, <1>5
<1>8. Payloads' = Payloads
  BY <1>2, <1>6, <1>7 DEF Payloads
<1>9. SentData' = FlattenSeq(Payloads') /\ SentData = FlattenSeq(Payloads)
  BY DEF SentData, Payloads
<1> QED BY <1>6, <1>8, <1>9

\* What is sent and pending are sequences of TS packets.
LEMMA SentTyped ==
    ASSUME wire \in Seq(Datagrams)
    PROVE  SentData \in Seq(TsPacketSet)
<1>1. PICK m \in Nat : DOMAIN wire = 1..m /\ \A i \in 1..m : wire[i] \in Datagrams
  BY ElementOfSeq
<1>2. Payloads \in [1..m -> Seq(TsPacketSet)]
  BY <1>1 DEF Payloads, Datagrams
<1>3. Payloads \in Seq(Seq(TsPacketSet))
  BY <1>2, FunctionIsSeq
<1> QED BY <1>3, FlattenType DEF SentData, Payloads

\* The first n datagrams of what is pending.
Batch(n, data) == [k \in 1..n |-> SubSeq(data, (k - 1) * Pack + 1, k * Pack)]

LEMMA Multiples ==
    \A i, j \in Nat : /\ i * Pack \in Nat /\ (i + 1) * Pack = i * Pack + Pack
                      /\ i < j => i * Pack + Pack <= j * Pack
<1>1. Pack \in Nat
  BY LinkAssumption
<1>2. \A P, i, j \in Nat : i < j => i * P + P <= j * P
  OBVIOUS
<1>3. \A P, i \in Nat : i * P \in Nat /\ (i + 1) * P = i * P + P
  OBVIOUS
<1> QED BY <1>1, <1>2, <1>3

LEMMA BatchTyped ==
    ASSUME NEW data \in Seq(TsPacketSet), NEW n \in Nat, n * Pack <= Len(data)
    PROVE  /\ Batch(n, data) \in Seq(Seq(TsPacketSet)) /\ Len(Batch(n, data)) = n
           /\ DOMAIN Batch(n, data) = 1..n
           /\ \A k \in 1..n : /\ DOMAIN Batch(n, data)[k] = 1..Pack
                              /\ \A j \in 1..Pack :
                                    /\ (k - 1) * Pack + j \in 1..(n * Pack)
                                    /\ Batch(n, data)[k][j] = data[(k - 1) * Pack + j]
<1>1. PICK N \in Nat : N = Len(data) /\ \A i \in 1..N : data[i] \in TsPacketSet
  BY ElementOfSeq
<1>2. ASSUME NEW k \in 1..n
      PROVE  /\ SubSeq(data, (k - 1) * Pack + 1, k * Pack) \in Seq(TsPacketSet)
             /\ DOMAIN SubSeq(data, (k - 1) * Pack + 1, k * Pack) = 1..Pack
             /\ \A j \in 1..Pack :
                  /\ (k - 1) * Pack + j \in 1..(n * Pack)
                  /\ SubSeq(data, (k - 1) * Pack + 1, k * Pack)[j] = data[(k - 1) * Pack + j]
  <2>1. PICK a \in Nat, b \in Nat, P \in Nat, c \in Nat :
           /\ a = (k - 1) * Pack /\ b = k * Pack /\ P = Pack /\ b = a + P /\ c = n * Pack /\ b <= c
    <3>1. k - 1 \in Nat /\ k \in Nat /\ (k - 1) + 1 = k /\ (k < n \/ k = n)
      OBVIOUS
    <3>2. (k - 1) * Pack \in Nat /\ k * Pack = (k - 1) * Pack + Pack /\ Pack \in Nat
      BY <3>1, Multiples, LinkAssumption
    <3>3. k * Pack \in Nat /\ n * Pack \in Nat
      BY <3>1, Multiples
    <3>4. k < n => k * Pack + Pack <= n * Pack
      BY <3>1, Multiples
    <3> QED BY <3>1, <3>2, <3>3, <3>4
  <2>2. b <= N
    BY <1>1, <2>1
  <2>3. \A i \in (a + 1)..b : data[i] \in TsPacketSet
    BY <1>1, <2>2
  <2>4. /\ SubSeq(data, a + 1, b) \in Seq(TsPacketSet)
        /\ Len(SubSeq(data, a + 1, b)) = IF a + 1 <= b THEN b - (a + 1) + 1 ELSE 0
        /\ \A j \in 1..(b - (a + 1) + 1) : SubSeq(data, a + 1, b)[j] = data[(a + 1) + j - 1]
    BY <2>3, SubSeqProperties
  <2>5. Len(SubSeq(data, a + 1, b)) = P
    BY <2>1, <2>4
  <2>6. DOMAIN SubSeq(data, a + 1, b) = 1..P
    BY <2>4, <2>5, LenProperties
  <2>7. \A j \in 1..P : a + j \in 1..c /\ SubSeq(data, a + 1, b)[j] = data[a + j]
    <3>1. \A j \in 1..P : j \in 1..(b - (a + 1) + 1) /\ (a + 1) + j - 1 = a + j /\ a + j \in 1..c
      BY <2>1
    <3> QED BY <2>4, <3>1
  <2> QED BY <2>1, <2>4, <2>6, <2>7
<1>3. Batch(n, data) \in [1..n -> Seq(TsPacketSet)]
  BY <1>2 DEF Batch
<1>4. \A k \in 1..n : Batch(n, data)[k] = SubSeq(data, (k - 1) * Pack + 1, k * Pack)
  BY DEF Batch
<1> QED BY <1>2, <1>3, <1>4, FunctionIsSeq

\* Together they are what is drained.
LEMMA BatchFlat ==
    ASSUME NEW data \in Seq(TsPacketSet), NEW n \in Nat, n * Pack <= Len(data)
    PROVE  FlattenSeq(Batch(n, data)) = SubSeq(data, 1, n * Pack)
<1> DEFINE T == {m \in 0..n : FlattenSeq(Batch(m, data)) = SubSeq(data, 1, m * Pack)}
<1>1. 0 \in T
  <2>1. Batch(0, data) = <<>>
    BY DEF Batch
  <2>2. 0 * Pack = 0
    BY LinkAssumption
  <2>3. SubSeq(data, 1, 0) = <<>>
    BY SubSeqEmpty
  <2>4. FlattenSeq(Batch(0, data)) = SubSeq(data, 1, 0 * Pack)
    BY <2>1, <2>2, <2>3, FlattenEmpty
  <2> QED BY <2>4
<1>2. ASSUME NEW m \in 1..n, m - 1 \in T PROVE m \in T
  <2>0. m - 1 \in Nat /\ m \in Nat /\ (m - 1) + 1 = m /\ (m < n \/ m = n) /\ Len(data) \in Nat
    OBVIOUS
  <2>1. PICK a \in Nat, b \in Nat, l \in Nat :
           /\ a = (m - 1) * Pack /\ b = m * Pack /\ a <= b /\ l = Len(data) /\ b <= l
    <3>1. PICK a \in Nat, b \in Nat, c \in Nat, l \in Nat :
             a = (m - 1) * Pack /\ b = m * Pack /\ c = n * Pack /\ l = Len(data)
      BY <2>0, Multiples
    <3>2. b = a + Pack /\ Pack \in Nat
      BY <2>0, <3>1, Multiples, LinkAssumption
    <3>3. m < n => b + Pack <= c
      BY <2>0, <3>1, Multiples
    <3>4. c <= l
      BY <3>1
    <3>5. m = n => b = c
      BY <3>1
    <3>6. a <= b /\ b <= l
      BY <2>0, <3>2, <3>3, <3>4, <3>5
    <3> QED BY <3>1, <3>6, Zenon
  <2>2. PICK last \in Seq(TsPacketSet) : last = SubSeq(data, a + 1, b)
    <3>1. \A i \in (a + 1)..b : i \in 1..Len(data) /\ data[i] \in TsPacketSet
      BY <2>1, ElementOfSeq
    <3>2. SubSeq(data, a + 1, b) \in Seq(TsPacketSet)
      BY <2>1, <3>1, SubSeqProperties
    <3> QED BY <3>2
  <2>3. Batch(m - 1, data) \in Seq(Seq(TsPacketSet)) /\ DOMAIN Batch(m - 1, data) = 1..(m - 1)
        /\ Len(Batch(m - 1, data)) = m - 1
    <3>1. (m - 1) * Pack <= Len(data)
      BY <2>1
    <3> QED BY <2>0, <3>1, BatchTyped
  <2>4. Batch(m, data) \in Seq(Seq(TsPacketSet)) /\ Len(Batch(m, data)) = m
    <3>1. m * Pack <= Len(data)
      BY <2>1
    <3> QED BY <2>0, <3>1, BatchTyped
  <2>5. Batch(m, data) = Append(Batch(m - 1, data), last)
    <3>1. /\ Append(Batch(m - 1, data), last) \in Seq(Seq(TsPacketSet))
          /\ Len(Append(Batch(m - 1, data), last)) = (m - 1) + 1
          /\ \A k \in 1..(m - 1) : Append(Batch(m - 1, data), last)[k] = Batch(m - 1, data)[k]
          /\ Append(Batch(m - 1, data), last)[(m - 1) + 1] = last
      BY <2>3, OneMore, AppendProperties
    <3>2. ASSUME NEW k \in 1..m PROVE Batch(m, data)[k] = Append(Batch(m - 1, data), last)[k]
      <4>1. CASE k = m
        <5>1. Batch(m, data)[k] = SubSeq(data, (m - 1) * Pack + 1, m * Pack)
          BY <4>1 DEF Batch
        <5>2. Batch(m, data)[k] = last
          BY <2>1, <2>2, <5>1
        <5> QED BY <2>0, <3>1, <4>1, <5>2
      <4>2. CASE k # m
        <5>1. k \in 1..(m - 1)
          BY <4>2
        <5> QED BY <3>1, <5>1 DEF Batch
      <4> QED BY <4>1, <4>2
    <3>3. (m - 1) + 1 = m
      OBVIOUS
    <3> QED BY <2>4, <3>1, <3>2, <3>3, SeqEqual
  <2>6. FlattenSeq(Batch(m, data)) = FlattenSeq(Batch(m - 1, data)) \o last
    BY <2>3, <2>5, FlattenAppend
  <2>7. FlattenSeq(Batch(m - 1, data)) = SubSeq(data, 1, a)
    BY <1>2, <2>1
  <2>8. SubSeq(data, 1, a) \o SubSeq(data, a + 1, b) = SubSeq(data, 1, b)
    <3>1. 1 \in 1..(Len(data) + 1) /\ a \in (1 - 1)..Len(data) /\ b \in a..Len(data)
      BY <2>1
    <3> QED BY <3>1, ConcatAdjacentSubSeq, Zenon
  <2>9. FlattenSeq(Batch(m, data)) = SubSeq(data, 1, m * Pack)
    BY <2>1, <2>2, <2>6, <2>7, <2>8
  <2>10. m \in 0..n
    OBVIOUS
  <2> QED BY <2>9, <2>10
<1>3. n \in 0..n
  OBVIOUS
<1> HIDE DEF T
<1>4. 0..n \subseteq T
  BY <1>1, <1>2, InductionUpTo
<1> QED BY <1>3, <1>4 DEF T

\* The first n datagrams are sent.
LEMMA PayloadsJoin ==
    ASSUME wire \in Seq(Datagrams), NEW data \in Seq(TsPacketSet), NEW n \in Nat,
           n * Pack <= Len(data), SendFirst(n, data)
    PROVE  /\ wire' \in Seq(Datagrams) /\ pending' \in Seq(TsPacketSet)
           /\ Payloads' = Payloads \o Batch(n, data)
           /\ pending' = SubSeq(data, n * Pack + 1, Len(data))
           /\ SentData' \o pending' = SentData \o data
<1> DEFINE ds == Batch(n, data)
<1>1. ds \in Seq(Seq(TsPacketSet)) /\ Len(ds) = n /\ DOMAIN ds = 1..n
  BY BatchTyped
<1>2. PICK copies \in [1..n -> Copies] :
        wire' = wire \o [k \in 1..n |-> [data |-> ds[k], left |-> copies[k]]]
  BY DEF SendFirst, Batch
<1> HIDE DEF ds
<1>3. PICK more \in Seq(Datagrams) :
         /\ wire' = wire \o more /\ Len(more) = n /\ \A k \in 1..n : more[k].data = ds[k]
  <2>1. [k \in 1..n |-> [data |-> ds[k], left |-> copies[k]]] \in [1..n -> Datagrams]
    <3>1. \A k \in 1..n : ds[k] \in Seq(TsPacketSet) /\ copies[k] \in Nat
      BY <1>1, ElementOfSeq, LinkAssumption
    <3> QED BY <3>1 DEF Datagrams
  <2>2. [k \in 1..n |-> [data |-> ds[k], left |-> copies[k]]] \in Seq(Datagrams)
        /\ Len([k \in 1..n |-> [data |-> ds[k], left |-> copies[k]]]) = n
    BY <2>1, FunctionIsSeq
  <2>3. \A k \in 1..n : [j \in 1..n |-> [data |-> ds[j], left |-> copies[j]]][k].data = ds[k]
    OBVIOUS
  <2> QED BY <1>2, <2>2, <2>3
<1>4. PICK m \in Nat : m = Len(wire) /\ DOMAIN wire = 1..m /\ \A i \in 1..m : wire[i] \in Datagrams
  BY ElementOfSeq
<1>5. wire' \in Seq(Datagrams) /\ IsJoined(wire', wire, more, m, n)
  BY <1>3, <1>4, ConcatJoins
<1>6. DOMAIN wire' = 1..(m + n)
  BY <1>5 DEF IsJoined
<1>7. Payloads \in Seq(Seq(TsPacketSet)) /\ Len(Payloads) = m
  <2>1. Payloads \in [1..m -> Seq(TsPacketSet)]
    BY <1>4 DEF Payloads, Datagrams
  <2> QED BY <2>1, FunctionIsSeq
<1>8. Payloads' \in Seq(Seq(TsPacketSet)) /\ Len(Payloads') = m + n
  <2>1. \A i \in 1..(m + n) : wire'[i] \in Datagrams
    BY <1>5, <1>6, ElementOfSeq
  <2>2. Payloads' \in [1..(m + n) -> Seq(TsPacketSet)]
    BY <1>6, <2>1 DEF Payloads, Datagrams
  <2> QED BY <2>2, FunctionIsSeq
<1>9. /\ Payloads \o ds \in Seq(Seq(TsPacketSet)) /\ Len(Payloads \o ds) = m + n
      /\ IsJoined(Payloads \o ds, Payloads, ds, m, n)
  <2>1. /\ Payloads \o ds \in Seq(Seq(TsPacketSet))
        /\ IsJoined(Payloads \o ds, Payloads, ds, Len(Payloads), Len(ds))
    BY <1>1, <1>7, ConcatJoins, Zenon
  <2>2. IsJoined(Payloads \o ds, Payloads, ds, m, n)
    BY <1>1, <1>7, <2>1
  <2> QED BY <2>1, <2>2 DEF IsJoined
<1>10. ASSUME NEW i \in 1..(m + n) PROVE Payloads'[i] = (Payloads \o ds)[i]
  <2>1. Payloads'[i] = wire'[i].data
    BY <1>6 DEF Payloads
  <2>2. CASE i \in 1..m
    <3>1. Payloads[i] = wire[i].data
      BY <1>4, <2>2 DEF Payloads
    <3> QED BY <1>5, <1>9, <2>1, <2>2, <3>1 DEF IsJoined
  <2>3. CASE i \in (m + 1)..(m + n)
    BY <1>3, <1>5, <1>9, <2>1, <2>3 DEF IsJoined
  <2>4. i \in 1..m \/ i \in (m + 1)..(m + n)
    OBVIOUS
  <2> QED BY <2>2, <2>3, <2>4
<1>11. Payloads' = Payloads \o ds
  BY <1>8, <1>9, <1>10, SeqEqual
<1>12. PICK a \in Seq(TsPacketSet), b \in Seq(TsPacketSet), c \in Seq(TsPacketSet) :
          /\ a = SentData /\ b = FlattenSeq(ds) /\ c = SubSeq(data, n * Pack + 1, Len(data))
          /\ b \o c = data
  <2>1. n * Pack \in 0..Len(data)
    <3>1. n * Pack \in Nat /\ Len(data) \in Nat
      BY Multiples
    <3> QED BY <3>1
  <2>2. FlattenSeq(ds) = SubSeq(data, 1, n * Pack)
    BY BatchFlat DEF ds
  <2>3. SentData = FlattenSeq(Payloads)
    BY DEF SentData, Payloads
  <2>4. SentData \in Seq(TsPacketSet) /\ FlattenSeq(ds) \in Seq(TsPacketSet)
    BY <1>1, <1>7, <2>3, FlattenType
  <2>5. /\ SubSeq(data, 1, n * Pack) \o SubSeq(data, n * Pack + 1, Len(data)) = data
        /\ SubSeq(data, n * Pack + 1, Len(data)) \in Seq(TsPacketSet)
    BY <2>1, TwoPortions
  <2> QED BY <2>2, <2>4, <2>5
<1>13. SentData' = a \o b
  <2>1. SentData' = FlattenSeq(Payloads') /\ SentData = FlattenSeq(Payloads)
    BY DEF SentData, Payloads
  <2> QED BY <1>1, <1>7, <1>11, <1>12, <2>1, FlattenConcat
<1>14. (a \o b) \o c = a \o (b \o c)
  BY ConcatThrice
<1>15. pending' = c
  BY <1>12 DEF SendFirst
<1> QED BY <1>5, <1>11, <1>12, <1>13, <1>14, <1>15 DEF ds

\* What the muxer writes in all depends on its packets alone.
LEMMA OutputStays ==
    ASSUME UNCHANGED units
    PROVE  Output' = Output
<1>1. [u \in DOMAIN units |-> TsPackets(u)]' = [u \in DOMAIN units |-> TsPackets(u)]
  BY DEF TsPackets
<1> QED BY <1>1 DEF Output

\* What has been handed over are TS packets of the output.
LEMMA HandedTyped ==
    ASSUME SendTypeOK
    PROVE  /\ Handed \in Seq(TsPacketSet) /\ Len(Handed) = Len(handed)
           /\ DOMAIN Handed = DOMAIN handed
<1>1. PICK o \in Seq(TsPacketSet) : o = Output
  BY OutputTyped DEF SendTypeOK
<1>2. PICK m \in Nat : m = Len(handed) /\ DOMAIN handed = 1..m /\ \A n \in 1..m : handed[n] \in DOMAIN o
  BY <1>1, ElementOfSeq DEF SendTypeOK
<1>3. \A i \in DOMAIN o : o[i] \in TsPacketSet
  BY <1>1
<1>4. Handed \in [1..m -> TsPacketSet]
  BY <1>1, <1>2, <1>3 DEF Handed
<1> QED BY <1>2, <1>4, FunctionIsSeq

\* The next TS packet is handed over.
LEMMA HandedGrows ==
    ASSUME SendTypeOK, HandOver
    PROVE  /\ Output' = Output /\ written + 1 \in DOMAIN Output
           /\ Output[written + 1] \in TsPacketSet
           /\ handed' \in Seq(DOMAIN Output)
           /\ DOMAIN handed' = 1..(Len(handed) + 1) /\ handed'[Len(handed) + 1] = written + 1
           /\ \A n \in DOMAIN handed : n \in 1..Len(handed) /\ handed'[n] = handed[n]
           /\ Handed' = Append(Handed, Output[written + 1])
<1>1. written < Len(Output) /\ handed' = Append(handed, written + 1) /\ UNCHANGED units
  BY DEF HandOver
<1>2. Output' = Output
  BY <1>1, OutputStays
<1>3. PICK o \in Seq(TsPacketSet) : o = Output
  BY OutputTyped DEF SendTypeOK
<1>4. PICK e \in DOMAIN o, x \in TsPacketSet : e = written + 1 /\ x = o[e]
  <2>1. written \in Nat /\ written + 1 \in DOMAIN o
    BY <1>1, <1>3 DEF SendTypeOK
  <2> QED BY <2>1
<1>5. PICK m \in Nat : m = Len(handed) /\ DOMAIN handed = 1..m
  BY DEF SendTypeOK
<1>6. /\ handed' \in Seq(DOMAIN o) /\ DOMAIN handed' = 1..(m + 1) /\ handed'[m + 1] = e
      /\ \A n \in 1..m : handed'[n] = handed[n]
  BY <1>1, <1>3, <1>4, <1>5, OneMore DEF SendTypeOK
<1>7. PICK h \in Seq(TsPacketSet) : h = Handed /\ Len(h) = m /\ DOMAIN h = 1..m
  BY <1>5, HandedTyped
<1>8. PICK g : /\ g = Append(h, x) /\ g \in Seq(TsPacketSet) /\ DOMAIN g = 1..(m + 1)
               /\ g[m + 1] = x /\ \A n \in 1..m : g[n] = h[n]
  <2>1. /\ Append(h, x) \in Seq(TsPacketSet) /\ DOMAIN Append(h, x) = 1..(Len(h) + 1)
        /\ Append(h, x)[Len(h) + 1] = x /\ \A n \in 1..Len(h) : Append(h, x)[n] = h[n]
    BY OneMore
  <2> QED BY <1>7, <2>1
<1>9. Handed' = g
  <2>1. Handed' = [n \in 1..(m + 1) |-> o[handed'[n]]]
    BY <1>2, <1>3, <1>6 DEF Handed
  <2>2. \A n \in 1..(m + 1) : o[handed'[n]] = g[n]
    <3>1. \A n \in 1..m : h[n] = o[handed[n]]
      BY <1>3, <1>5, <1>7 DEF Handed
    <3>2. \A n \in 1..(m + 1) : n = m + 1 \/ n \in 1..m
      OBVIOUS
    <3> QED BY <1>4, <1>6, <1>8, <3>1, <3>2
  <2>3. [n \in 1..(m + 1) |-> o[handed'[n]]] \in [1..(m + 1) -> TsPacketSet]
    <3>1. \A n \in 1..(m + 1) : g[n] \in TsPacketSet
      BY <1>8
    <3> QED BY <2>2, <3>1
  <2>4. Handed' \in Seq(TsPacketSet) /\ Len(Handed') = m + 1
    BY <2>1, <2>3, FunctionIsSeq
  <2>5. Len(g) = m + 1
    BY <1>8, LenProperties
  <2>6. \A n \in 1..(m + 1) : Handed'[n] = g[n]
    BY <2>1, <2>2
  <2> QED BY <1>8, <2>4, <2>5, <2>6, SeqEqual
<1> QED BY <1>2, <1>3, <1>4, <1>5, <1>6, <1>7, <1>8, <1>9

\* write() of x, whether its sends succeed or one fails: x is sent or pending.
LEMMA WriteAdds ==
    ASSUME wire \in Seq(Datagrams), pending \in Seq(TsPacketSet), NEW x \in TsPacketSet,
           Write(x) \/ WriteFails(x)
    PROVE  /\ wire' \in Seq(Datagrams) /\ pending' \in Seq(TsPacketSet)
           /\ SentData' \o pending' = Append(SentData \o pending, x)
           /\ \E new : Payloads' = Payloads \o new /\ new \in Seq(Seq(TsPacketSet))
<1>1. PICK all \in Seq(TsPacketSet), L \in Nat : all = Append(pending, x) /\ L = Len(all)
  <2>1. Append(pending, x) \in Seq(TsPacketSet) /\ Len(Append(pending, x)) \in Nat
    BY AppendProperties
  <2> QED BY <2>1, Zenon
<1>2. PICK n \in Nat : n * Pack <= L /\ SendFirst(n, all)
  <2>1. \A P \in Nat \ {0}, a \in Nat :
           /\ a \div P \in Nat /\ (a \div P) * P <= a
           /\ \A n \in 0..(a \div P - 1) : n \in Nat /\ n * P <= a
    OBVIOUS
  <2>2. Pack \in Nat \ {0}
    BY LinkAssumption
  <2>3. CASE Write(x)
    BY <1>1, <2>1, <2>2, <2>3 DEF Write
  <2>4. CASE WriteFails(x)
    <3>1. PICK n \in 0..(L \div Pack - 1) : SendFirst(n, all)
      BY <1>1, <2>4 DEF WriteFails
    <3> QED BY <2>1, <2>2, <3>1
  <2> QED BY <2>3, <2>4
<1>3. /\ wire' \in Seq(Datagrams) /\ pending' \in Seq(TsPacketSet)
      /\ SentData' \o pending' = SentData \o all
      /\ Payloads' = Payloads \o Batch(n, all)
  BY <1>1, <1>2, PayloadsJoin
<1>4. SentData \o Append(pending, x) = Append(SentData \o pending, x)
  BY SentTyped, ConcatAppend
<1>5. Batch(n, all) \in Seq(Seq(TsPacketSet))
  BY <1>1, <1>2, BatchTyped
<1> QED BY <1>1, <1>3, <1>4, <1>5

\* flush(): what is pending is sent.
LEMMA FlushSends ==
    ASSUME wire \in Seq(Datagrams), pending \in Seq(TsPacketSet), Flush
    PROVE  /\ wire' \in Seq(Datagrams) /\ pending' = <<>>
           /\ SentData' = SentData \o pending
<1>1. PICK sent \in Seq(TsPacketSet) : sent = SentData
  BY SentTyped
<1>2. CASE pending = <<>>
  <2>1. wire' = wire /\ pending' = pending
    BY <1>2 DEF Flush
  <2>2. SentData' = SentData
    BY <2>1 DEF SentData
  <2>3. sent \o <<>> = sent
    BY ConcatEmptySeq
  <2> QED BY <1>1, <1>2, <2>1, <2>2, <2>3
<1>3. CASE pending # <<>>
  <2>1. Send(pending) /\ pending' = <<>>
    BY <1>3 DEF Flush
  <2> QED BY <2>1, PayloadsGrow
<1> QED BY <1>2, <1>3

\* A step that leaves the writer alone.
WriterRests == UNCHANGED <<units, pending, written, muxer, handed>>

SendStep ==
    \/ WriteTs \/ WriteTsInterrupted \/ WriteTsFails \/ WriteTrailer \/ Drop
    \/ WriterRests /\ (wire' = wire \/ \E i \in DOMAIN wire : Recv(i))

\* Of a transport stream's steps only those of the writer touch what it sent.
LEMMA OnlyWriterSends ==
    ASSUME [Next]_vars
    PROVE  SendStep
<1>1. ASSUME NextTs \/ NextTsLost \/ Interrupted \/ RecvError \/ DemuxerStep
      PROVE WriterRests /\ wire' = wire
  BY <1>1 DEF NextTs, NextTsLost, Interrupted, RecvError, DemuxerStep, RecvFails, SenderUnchanged,
              linkVars, WriterRests
<1>2. ASSUME Refill
      PROVE  WriterRests /\ (wire' = wire \/ \E i \in DOMAIN wire : Recv(i))
  <2>1. ASSUME TimeOut PROVE WriterRests /\ wire' = wire
    BY <1>2, <2>1 DEF Refill, TimeOut, SenderUnchanged, WriterRests
  <2>2. ASSUME NEW i \in DOMAIN wire, Recv(i) PROVE WriterRests
    BY <1>2, <2>2 DEF Refill, Recv, SenderUnchanged, WriterRests
  <2> QED BY <1>2, <2>1, <2>2 DEF Refill
<1>3. ASSUME UNCHANGED tsVars PROVE WriterRests /\ wire' = wire
  BY <1>3 DEF tsVars, linkVars, WriterRests
<1>4. ASSUME TsNext PROVE SendStep
  BY <1>1, <1>2, <1>4 DEF TsNext, Receiver, SendStep
<1>5. TsNext \/ UNCHANGED tsVars
  BY DEF Next, Udp, Publishing, Browsing, vars
<1> QED BY <1>3, <1>4, <1>5 DEF SendStep

LEMMA SendInit == Init => SendInv
<1> SUFFICES ASSUME Init PROVE SendInv
  OBVIOUS
<1>1. /\ pending = <<>> /\ wire = <<>> /\ written = 0 /\ muxer = "open" /\ handed = <<>>
      /\ units \in Programs
  BY DEF Init, TsInit, LinkInit
<1>2. SendTypeOK
  BY <1>1, OutputTyped DEF SendTypeOK
<1>3. SentData \o pending = <<>>
  <2>1. <<>> \in Seq(TsPacketSet) /\ <<>> \o <<>> = <<>>
    <3>1. <<>> \in Seq(TsPacketSet)
      BY EmptySeq
    <3> QED BY <3>1, ConcatEmptySeq
  <2>2. SentData = <<>>
    <3>1. Payloads = <<>>
      BY <1>1 DEF Payloads
    <3>2. SentData = FlattenSeq(Payloads)
      BY DEF SentData, Payloads
    <3> QED BY <3>1, <3>2, FlattenEmpty
  <2> QED BY <1>1, <2>1, <2>2
<1>4. Handed = <<>>
  BY <1>1 DEF Handed
<1> QED BY <1>1, <1>2, <1>3, <1>4 DEF SendInv, SentIsWritten, HandedOver

LEMMA SendNext == SendInv /\ SendStep => SendInv'
<1> SUFFICES ASSUME SendInv, SendStep PROVE SendInv'
  OBVIOUS
<1>1. SendTypeOK /\ HandedOver /\ SentIsWritten
  BY DEF SendInv
<1>2. PICK sent \in Seq(TsPacketSet), given \in Seq(TsPacketSet), N \in Nat :
         sent = SentData /\ given = Handed /\ N = Len(Output)
  BY <1>1, SentTyped, HandedTyped, OutputTyped DEF SendTypeOK
<1>3. CASE WriteTs \/ WriteTsInterrupted \/ WriteTsFails
  <2>1. HandOver /\ muxer = "open" /\ units' = units
    BY <1>3 DEF WriteTs, WriteTsInterrupted, WriteTsFails, HandOver
  <2>2. PICK x \in TsPacketSet, m \in Nat :
           /\ x = Output[written + 1] /\ Output' = Output /\ Handed' = Append(given, x)
           /\ written + 1 \in DOMAIN Output /\ handed' \in Seq(DOMAIN Output)
           /\ DOMAIN handed' = 1..(m + 1) /\ handed'[m + 1] = written + 1
           /\ DOMAIN handed = 1..m /\ \A n \in 1..m : handed'[n] = handed[n]
    <3>1. Len(handed) \in Nat /\ DOMAIN handed = 1..Len(handed)
      BY <1>1 DEF SendTypeOK
    <3> QED BY <1>1, <1>2, <2>1, <3>1, HandedGrows
  <2>3. /\ wire' \in Seq(Datagrams) /\ pending' \in Seq(TsPacketSet)
        /\ SentData' \o pending' = Handed'
    <3>1. Write(x) \/ WriteFails(x)
      BY <1>3, <2>2 DEF WriteTs, WriteTsInterrupted, WriteTsFails
    <3>2. SentData \o pending = given
      BY <1>1, <1>2, <2>1 DEF SentIsWritten
    <3> QED BY <1>1, <2>2, <3>1, <3>2, WriteAdds DEF SendTypeOK
  <2>4. muxer' \in {"open", "failed"} /\ (written' = written \/ written' = written + 1)
    BY <1>3, <2>1 DEF WriteTs, WriteTsInterrupted, WriteTsFails
  <2>5. written' \in 0..Len(Output) /\ written \in 0..N
    BY <1>1, <1>2, <2>2, <2>4, OutputTyped DEF SendTypeOK
  <2>6. SendTypeOK'
    BY <1>1, <2>1, <2>2, <2>3, <2>4, <2>5 DEF SendTypeOK
  <2>7. written' = written \/ handed'[m + 1] = written'
    BY <2>2, <2>4
  <2>8. \A n \in 1..(m + 1) : n = m + 1 \/ n \in 1..m
    OBVIOUS
  <2>9. \A n \in 1..m : handed'[n] \in Nat /\ handed'[n] <= written + 1
    <3>1. \A n \in 1..m : handed[n] <= written + 1
      BY <1>1, <2>2 DEF HandedOver
    <3>2. \A n \in 1..m : handed[n] \in Nat
      <4>1. \A k \in DOMAIN Output : k \in Nat
        BY <1>1, OutputTyped DEF SendTypeOK
      <4> QED BY <1>1, <2>2, <4>1, ElementOfSeq DEF SendTypeOK
    <3> QED BY <2>2, <3>1, <3>2
  <2>10. HandedOver'
    <3>1. ASSUME NEW k \in 1..written' PROVE \E n \in 1..(m + 1) : handed'[n] = k
      <4>1. CASE k \in 1..written
        <5>1. PICK n \in 1..m : handed[n] = k
          BY <1>1, <2>2, <4>1 DEF HandedOver
        <5> QED BY <2>2, <5>1
      <4>2. CASE k \notin 1..written
        <5>1. k = written + 1
          BY <2>4, <2>5, <4>2
        <5> QED BY <2>2, <5>1
      <4> QED BY <4>1, <4>2
    <3>2. \A n \in 1..(m + 1) : handed'[n] <= written' + 1
      <4>1. written \in Nat /\ written' \in Nat /\ written' >= written
        BY <2>4, <2>5
      <4> QED BY <2>2, <2>8, <2>9, <4>1
    <3> QED BY <2>2, <3>1, <3>2 DEF HandedOver
  <2>11. \A i, j \in DOMAIN handed' : i < j => handed'[i] <= handed'[j]
    <3> SUFFICES ASSUME NEW i \in 1..(m + 1), NEW j \in 1..(m + 1), i < j
                 PROVE  handed'[i] <= handed'[j]
      BY <2>2
    <3>1. i \in 1..m
      OBVIOUS
    <3>2. CASE j = m + 1
      BY <2>2, <2>9, <3>1, <3>2
    <3>3. CASE j # m + 1
      <4>1. j \in 1..m
        BY <3>3
      <4>2. handed[i] <= handed[j]
        BY <1>1, <2>2, <3>1, <4>1 DEF SentIsWritten
      <4> QED BY <2>2, <3>1, <4>1, <4>2
    <3> QED BY <3>2, <3>3
  <2> QED BY <2>3, <2>4, <2>6, <2>10, <2>11 DEF SendInv, SentIsWritten
<1>4. CASE UNCHANGED <<units, written, handed>>
  <2>1. Output' = Output /\ Handed' = Handed
    BY <1>4, OutputStays DEF Handed
  <2>2. HandedOver'
    BY <1>1, <1>4 DEF HandedOver
  <2>3. \A m, n \in DOMAIN handed' : m < n => handed'[m] <= handed'[n]
    BY <1>1, <1>4 DEF SentIsWritten
  <2>4. ASSUME wire' \in Seq(Datagrams), pending' \in Seq(TsPacketSet),
               muxer' \in {"open", "closed", "failed"}
        PROVE  SendTypeOK'
    BY <1>1, <1>4, <2>1, <2>4 DEF SendTypeOK
  <2>5. CASE WriteTrailer
    <3>1. /\ muxer = "open" /\ written = Len(Output)
          /\ \/ Flush /\ muxer' = "closed"
             \/ muxer' = "failed" /\ UNCHANGED <<pending, wire>>
      BY <2>5 DEF WriteTrailer
    <3>2. SentData \o pending = Handed
      BY <1>1, <3>1 DEF SentIsWritten
    <3>3. CASE Flush /\ muxer' = "closed"
      <4>1. wire' \in Seq(Datagrams) /\ pending' = <<>> /\ SentData' = SentData \o pending
        BY <1>1, <3>3, FlushSends DEF SendTypeOK
      <4>2. SendTypeOK'
        BY <2>4, <3>3, <4>1
      <4>3. {handed'[n] : n \in DOMAIN handed'} = DOMAIN Output'
        <5>1. DOMAIN Output = 1..written
          BY <1>1, <3>1, OutputTyped DEF SendTypeOK
        <5>2. \A n \in DOMAIN handed : handed[n] \in DOMAIN Output
          BY <1>1, ElementOfSeq DEF SendTypeOK
        <5> QED BY <1>1, <1>4, <2>1, <5>1, <5>2 DEF HandedOver
      <4> QED BY <2>1, <2>2, <2>3, <3>2, <3>3, <4>1, <4>2, <4>3 DEF SendInv, SentIsWritten
    <3>4. CASE muxer' = "failed" /\ UNCHANGED <<pending, wire>>
      <4>1. SentData' = SentData
        BY <3>4 DEF SentData
      <4>2. SendTypeOK'
        BY <1>1, <2>4, <3>4 DEF SendTypeOK
      <4> QED BY <2>1, <2>2, <2>3, <3>2, <3>4, <4>1, <4>2 DEF SendInv, SentIsWritten
    <3> QED BY <3>1, <3>3, <3>4
  <2>6. CASE Drop
    <3>1. /\ muxer = "failed" /\ pending # <<>> /\ muxer' = muxer
          /\ \/ Flush
             \/ pending' = <<>> /\ UNCHANGED wire
      BY <2>6 DEF Drop, DropWriter
    <3>2. sent \o pending = given
      BY <1>1, <1>2, <3>1 DEF SentIsWritten
    <3>3. CASE Flush
      <4>1. wire' \in Seq(Datagrams) /\ pending' = <<>> /\ SentData' = SentData \o pending
        BY <1>1, <3>3, FlushSends DEF SendTypeOK
      <4>2. SendTypeOK'
        BY <1>1, <2>4, <3>1, <4>1 DEF SendTypeOK
      <4>3. given \o <<>> = given
        BY ConcatEmptySeq
      <4> QED BY <1>2, <2>1, <2>2, <2>3, <3>1, <3>2, <4>1, <4>2, <4>3 DEF SendInv, SentIsWritten
    <3>4. CASE pending' = <<>> /\ UNCHANGED wire
      <4>1. SentData' = sent
        BY <1>2, <3>4 DEF SentData
      <4>2. SendTypeOK'
        BY <1>1, <2>4, <3>1, <3>4 DEF SendTypeOK
      <4>3. IsPrefix(sent, sent \o pending)
        <5>1. PICK p \in Seq(TsPacketSet) : p = pending
          BY <1>1 DEF SendTypeOK
        <5>2. IsPrefix(sent, sent \o p)
          <6> USE DEF IsPrefix
          <6>1. Len(sent) <= Len(sent \o p) /\ Len(sent) \in Nat /\ sent \o p \in Seq(TsPacketSet)
            OBVIOUS
          <6>2. SubSeq(sent \o p, 1, Len(sent)) = sent
            OBVIOUS
          <6> QED BY <6>1, <6>2
        <5> QED BY <5>1, <5>2
      <4> QED BY <1>2, <2>1, <2>2, <2>3, <3>1, <3>2, <3>4, <4>1, <4>2, <4>3 DEF SendInv, SentIsWritten
    <3> QED BY <3>1, <3>3, <3>4
  <2>7. CASE WriterRests /\ (wire' = wire \/ \E i \in DOMAIN wire : Recv(i))
    <3>1. wire' \in Seq(Datagrams) /\ SentData' = SentData
      <4>1. CASE wire' = wire
        BY <1>1, <4>1 DEF SendTypeOK, SentData
      <4>2. ASSUME NEW i \in DOMAIN wire, Recv(i) PROVE wire' \in Seq(Datagrams) /\ SentData' = SentData
        BY <1>1, <4>2, PayloadsStay DEF SendTypeOK
      <4> QED BY <2>7, <4>1, <4>2
    <3>2. SendTypeOK'
      BY <1>1, <2>4, <2>7, <3>1 DEF SendTypeOK, WriterRests
    <3> QED BY <1>1, <2>1, <2>2, <2>7, <3>1, <3>2 DEF SendInv, SentIsWritten, WriterRests
  <2> QED BY <1>4, <2>5, <2>6, <2>7, <1>3 DEF SendStep
<1> QED BY <1>3, <1>4 DEF SendStep, WriteTrailer, Drop, WriterRests

LEMMA SendInvariant == Spec => []SendInv
<1>1. SendInv /\ [Next]_vars => SendInv'
  BY OnlyWriterSends, SendNext
<1> QED BY <1>1, SendInit, PTL DEF Spec

\* For every Pack, every program and everything the network does to datagrams:
\* what UdpWriter::write was given goes out, in order and nothing else: at the end
\* every TS packet, and again for each send that was interrupted meanwhile.
THEOREM WrittenIsSent == Spec => []SentIsWritten
<1>1. SendInv => SentIsWritten
  BY DEF SendInv
<1> QED BY <1>1, SendInvariant, PTL

-----------------------------------------------------------------------------
(* UDP, the receiving side.  While datagrams arrive in the order sent, what   *)
(* has arrived, what is buffered and what is put together are each in the     *)
(* order of the muxer's output.                                               *)

\* The order in which the muxer writes, tables before the units.
UpTo(x, y) ==
    \/ x.unit < y.unit
    \/ x.unit = y.unit /\ x.piece < y.piece
    \/ x.unit = y.unit /\ x.piece = y.piece /\ x.pid <= y.pid

Climbs(s) == \A j, k \in DOMAIN s : j < k => UpTo(s[j], s[k])
AllUpTo(s, t) == \A j \in DOMAIN s, k \in DOMAIN t : UpTo(s[j], t[k])
Occurs(x, s) == \E k \in DOMAIN s : s[k] = x

\* The TS packets of a muxer with the units us.
PiecesOf(us) == {x \in TsPacketSet : x.piece > 0 /\ (x.pid \in Pids => x.unit \in DOMAIN us /\ x.pid = us[x.unit].pid)}

\* The datagrams ds are in the order of the output.
WireOrder(us, ds) ==
    /\ \A i \in DOMAIN ds : ds[i] \in Seq(PiecesOf(us)) /\ Climbs(ds[i])
    /\ \A i, j \in DOMAIN ds : i < j => AllUpTo(ds[i], ds[j])

WireInv == WireOrder(units, Payloads)

\* What has arrived of the datagrams ds.
SeenOf(ds, numbers) == {x \in TsPacketSet : \E k \in DOMAIN numbers : Occurs(x, ds[numbers[k]])}
Seen == SeenOf(Payloads, got)

HeadOf(us, u) == Ts(us[u].pid, u, 1)

\* A unit with at most the ends of headless ones spliced to it.
Headed(us, pes, seen, data, pts) ==
    /\ data \in Seq(PiecesOf(us)) /\ data # <<>> /\ Climbs(data)
    /\ \A k \in DOMAIN data : data[k] \in seen /\ data[k].pid \in Pids
    /\ data[1].piece = 1 /\ pts = pes[data[1].unit].pts
    /\ \A k \in DOMAIN data : data[k].unit # data[1].unit => HeadOf(us, data[k].unit) \notin seen

PesSet == [pid : Pids, pts : Int, dts : Int \cup {None}, data : Seq(TsPacketSet), expect : Nat]
PacketSet == [data : Seq(TsPacketSet), pid : Pids, pts : Int, dts : Int]
GoodPes(us, pes, seen) == {pkt \in PesSet : Headed(us, pes, seen, pkt.data, pkt.pts)}
GoodPackets(us, pes, seen) == {pkt \in PacketSet : Headed(us, pes, seen, pkt.data, pkt.pts)}

\* What is buffered comes after all else that has arrived.
Buffered(us, seen, b) ==
    /\ b \in Seq(PiecesOf(us)) /\ Climbs(b) /\ \A k \in DOMAIN b : b[k] \in seen
    /\ \A y \in seen : Occurs(y, b) \/ \A k \in DOMAIN b : UpTo(y, b[k])

\* No head of the stream has arrived since the unit in progress began.
Latest(seen, b, p, data) ==
    /\ AllUpTo(data, b)
    /\ \A y \in seen : y.pid = p /\ y.piece = 1 => y.unit <= data[1].unit \/ Occurs(y, b)

Reassembled ==
    /\ partial \in [Pids -> GoodPes(units, Pes, Seen) \cup {None}]
    /\ ~built => \A p \in Pids : partial[p] = None
    /\ ready \in Seq(GoodPackets(units, Pes, Seen)) /\ out \in Seq(GoodPackets(units, Pes, Seen))

InOrderInv ==
    /\ Reassembled
    /\ \/ rbuf = <<Garbage>>
       \/ /\ Buffered(units, Seen, rbuf)
          /\ \A p \in Pids : partial[p] # None => Latest(Seen, rbuf, p, partial[p].data)

SpliceInv ==
    /\ WireInv
    /\ got \in Seq(DOMAIN Payloads)
    /\ GotInOrder => InOrderInv

LEMMA ConcatClimbs ==
    ASSUME NEW s \in Seq(TsPacketSet), NEW t \in Seq(TsPacketSet),
           Climbs(s), Climbs(t), AllUpTo(s, t)
    PROVE  Climbs(s \o t)
<1> SUFFICES ASSUME NEW j \in DOMAIN (s \o t), NEW k \in DOMAIN (s \o t), j < k
             PROVE  UpTo((s \o t)[j], (s \o t)[k])
  BY DEF Climbs
<1>1. PICK m \in Nat, n \in Nat : m = Len(s) /\ n = Len(t)
  OBVIOUS
<1>2. j \in 1..(m + n) /\ k \in 1..(m + n)
  BY <1>1
<1>3. /\ (s \o t)[j] = IF j <= m THEN s[j] ELSE t[j - m]
      /\ (s \o t)[k] = IF k <= m THEN s[k] ELSE t[k - m]
  BY <1>1, <1>2, ConcatProperties
<1>4. DOMAIN s = 1..m /\ DOMAIN t = 1..n
  BY <1>1
<1>5. CASE k <= m
  BY <1>2, <1>3, <1>4, <1>5 DEF Climbs
<1>6. CASE j <= m /\ ~(k <= m)
  BY <1>2, <1>3, <1>4, <1>6 DEF AllUpTo
<1>7. CASE ~(j <= m)
  <2>1. j - m \in 1..n /\ k - m \in 1..n /\ j - m < k - m /\ ~(k <= m)
    BY <1>2, <1>7
  <2> QED BY <1>3, <1>4, <1>7, <2>1 DEF Climbs
<1> QED BY <1>2, <1>5, <1>6, <1>7

LEMMA UnitClimbs ==
    ASSUME units \in Programs, NEW u \in DOMAIN units
    PROVE  /\ TsPackets(u) \in Seq(PiecesOf(units)) /\ Climbs(TsPackets(u))
           /\ \A k \in DOMAIN TsPackets(u) : TsPackets(u)[k].unit = u
<1>1. units[u] \in Units /\ u \in Nat
  BY ProgramTyped
<1>2. PICK n \in Nat, pid \in Nat : n = units[u].size /\ pid = units[u].pid
  BY <1>1, DemuxAssumption DEF Units
<1> DEFINE t == [k \in 1..n |-> Ts(pid, u, k)]
<1>3. \A k \in 1..n : Ts(pid, u, k) \in PiecesOf(units)
  BY <1>1, <1>2 DEF Ts, PiecesOf, TsPacketSet
<1>4. t \in [1..n -> PiecesOf(units)]
  BY <1>3
<1>5. t \in Seq(PiecesOf(units))
  BY <1>4, FunctionIsSeq
<1>6. Climbs(t) /\ \A k \in DOMAIN t : t[k].unit = u
  BY <1>1, <1>2 DEF Climbs, UpTo, Ts
<1>7. TsPackets(u) = t
  BY <1>2 DEF TsPackets
<1> QED BY <1>5, <1>6, <1>7

LEMMA OutputClimbs ==
    ASSUME units \in Programs
    PROVE  Output \in Seq(PiecesOf(units)) /\ Climbs(Output)
<1>1. PICK N \in Nat : N = Len(units) /\ DOMAIN units = 1..N
  BY ProgramTyped
<1> DEFINE P == PiecesOf(units)
           Of(n) == [u \in 1..n |-> TsPackets(u)]
           Steady(n) == /\ FlattenSeq(Of(n)) \in Seq(P) /\ Climbs(FlattenSeq(Of(n)))
                        /\ \A k \in DOMAIN FlattenSeq(Of(n)) : FlattenSeq(Of(n))[k].unit \in 1..n
           T == {n \in 0..N : Steady(n)}
<1>2. P \subseteq TsPacketSet
  BY DEF PiecesOf
<1>3. 0 \in T
  <2>1. Of(0) = <<>>
    OBVIOUS
  <2>2. FlattenSeq(Of(0)) = <<>>
    BY <2>1, FlattenEmpty
  <2>3. <<>> \in Seq(P) /\ Climbs(<<>>) /\ DOMAIN <<>> = {}
    BY DEF Climbs
  <2>4. Steady(0)
    <3> HIDE DEF Of, P
    <3> QED BY <2>2, <2>3
  <2> QED BY <2>4
<1>4. ASSUME NEW n \in 1..N, n - 1 \in T PROVE n \in T
  <2>1. Of(n - 1) \in Seq(Seq(P)) /\ TsPackets(n) \in Seq(P)
    <3>1. \A u \in 1..n : TsPackets(u) \in Seq(P)
      BY <1>1, UnitClimbs
    <3>2. Of(n - 1) \in [1..(n - 1) -> Seq(P)]
      BY <3>1
    <3> QED BY <3>1, <3>2, FunctionIsSeq
  <2>2. Of(n) = Append(Of(n - 1), TsPackets(n))
    <3>1. n - 1 \in Nat /\ Len(Of(n - 1)) = n - 1
      OBVIOUS
    <3> QED BY <2>1, <3>1
  <2>3. FlattenSeq(Of(n)) = FlattenSeq(Of(n - 1)) \o TsPackets(n)
    BY <2>1, <2>2, FlattenAppend
  <2> DEFINE s == FlattenSeq(Of(n - 1))
             t == TsPackets(n)
             w == FlattenSeq(Of(n))
  <2>4. /\ s \in Seq(P) /\ Climbs(s) /\ \A k \in DOMAIN s : s[k].unit \in 1..(n - 1)
        /\ t \in Seq(P) /\ Climbs(t) /\ \A k \in DOMAIN t : t[k].unit = n
        /\ w = s \o t
    <3>1. n \in DOMAIN units
      BY <1>1
    <3> QED BY <1>4, <2>3, <3>1, UnitClimbs
  <2> HIDE DEF s, t, w, P
  <2>5. s \in Seq(TsPacketSet) /\ t \in Seq(TsPacketSet)
    BY <1>2, <2>4
  <2>6. AllUpTo(s, t)
    BY <2>4 DEF AllUpTo, UpTo
  <2>7. Climbs(w)
    BY <2>4, <2>5, <2>6, ConcatClimbs
  <2>8. w \in Seq(P) /\ \A k \in DOMAIN w : w[k].unit \in 1..n
    <3>1. w \in Seq(P)
      BY <2>4, ConcatProperties
    <3>2. ASSUME NEW k \in DOMAIN w PROVE w[k].unit \in 1..n
      <4>1. PICK a \in Nat, c \in Nat : a = Len(s) /\ c = Len(t) /\ DOMAIN s = 1..a /\ DOMAIN t = 1..c
        BY <2>4
      <4>2. k \in 1..(a + c)
        BY <2>4, <3>2, <4>1
      <4>3. w[k] = IF k <= a THEN s[k] ELSE t[k - a]
        BY <2>4, <4>1, <4>2, ConcatProperties
      <4>4. k <= a \/ k - a \in 1..c
        BY <4>1, <4>2
      <4> QED BY <2>4, <4>1, <4>2, <4>3, <4>4
    <3> QED BY <3>1, <3>2
  <2>9. Steady(n)
    BY <2>7, <2>8 DEF w, P
  <2> QED BY <2>9
<1>5. N \in T
  <2>1. \A n \in 1..N : n - 1 \in T => n \in T
    BY <1>4
  <2> HIDE DEF T
  <2>2. 0..N \subseteq T
    BY <1>3, <2>1, InductionUpTo
  <2> QED BY <2>2
<1>6. FlattenSeq([u \in DOMAIN units |-> TsPackets(u)]) = FlattenSeq(Of(N))
  BY <1>1
<1> DEFINE t == FlattenSeq(Of(N))
           h == <<Ts(PAT, 0, 1), Ts(PMT, 0, 1)>>
<1>7. t \in Seq(P) /\ Climbs(t) /\ \A k \in DOMAIN t : t[k].unit \in 1..N
  BY <1>5
<1>8. Output = h \o t
  BY <1>6 DEF Output
<1>9. h \in Seq(P) /\ Climbs(h) /\ \A k \in DOMAIN h : h[k].unit = 0
  <2>1. Ts(PAT, 0, 1) \in P /\ Ts(PMT, 0, 1) \in P
    BY DemuxAssumption DEF Ts, PiecesOf, TsPacketSet, PAT, PMT
  <2>2. UpTo(Ts(PAT, 0, 1), Ts(PMT, 0, 1))
    BY DEF UpTo, Ts, PAT, PMT
  <2> HIDE DEF P
  <2> QED BY <2>1, <2>2 DEF Climbs, Ts
<1> HIDE DEF t, h, P
<1>10. AllUpTo(h, t)
  BY <1>7, <1>9 DEF AllUpTo, UpTo
<1>11. t \in Seq(TsPacketSet) /\ h \in Seq(TsPacketSet)
  BY <1>2, <1>7, <1>9
<1>12. Climbs(h \o t)
  BY <1>7, <1>9, <1>10, <1>11, ConcatClimbs
<1>13. h \o t \in Seq(P)
  BY <1>7, <1>9, ConcatProperties
<1> QED BY <1>8, <1>12, <1>13 DEF P

LEMMA PayloadsTyped ==
    ASSUME wire \in Seq(Datagrams)
    PROVE  Payloads \in Seq(Seq(TsPacketSet))
<1>1. PICK m \in Nat : DOMAIN wire = 1..m /\ \A i \in 1..m : wire[i] \in Datagrams
  BY ElementOfSeq
<1>2. Payloads \in [1..m -> Seq(TsPacketSet)]
  BY <1>1 DEF Payloads, Datagrams
<1> QED BY <1>2, FunctionIsSeq

\* What is in order is so part by part.
LEMMA PartsClimb ==
    ASSUME NEW s \in Seq(TsPacketSet), NEW t \in Seq(TsPacketSet), Climbs(s \o t)
    PROVE  Climbs(s) /\ Climbs(t) /\ AllUpTo(s, t)
<1>1. PICK w, m, n : w = s \o t /\ IsJoined(w, s, t, m, n) /\ m \in Nat /\ n \in Nat
  <2>1. IsJoined(s \o t, s, t, Len(s), Len(t))
    BY ConcatJoins
  <2>2. Len(s) \in Nat /\ Len(t) \in Nat
    OBVIOUS
  <2> QED BY <2>1, <2>2, Zenon
<1>2. \A i, j \in 1..(m + n) : i < j => UpTo(w[i], w[j])
  BY <1>1 DEF Climbs, IsJoined
<1>3. Climbs(s)
  BY <1>1, <1>2 DEF Climbs, IsJoined
<1>4. \A k \in 1..n : m + k \in 1..(m + n) /\ w[m + k] = t[k]
  BY <1>1 DEF IsJoined
<1>5. Climbs(t)
  <2>1. \A j, k \in 1..n : j < k => m + j < m + k
    BY <1>1
  <2> QED BY <1>1, <1>2, <1>4, <2>1 DEF Climbs, IsJoined
<1>6. AllUpTo(s, t)
  <2>1. \A j \in 1..m, k \in 1..n : j \in 1..(m + n) /\ j < m + k
    BY <1>1
  <2> QED BY <1>1, <1>2, <1>4, <2>1 DEF AllUpTo, IsJoined
<1> QED BY <1>3, <1>5, <1>6

\* Where a sequence is when they are all flattened.
LEMMA FlatAround ==
    ASSUME NEW S, NEW ss \in Seq(Seq(S)), NEW i \in 1..Len(ss)
    PROVE  \E a, c \in Seq(S) : /\ a = FlattenSeq(SubSeq(ss, 1, i - 1)) /\ ss[i] \in Seq(S)
                                /\ FlattenSeq(ss) = a \o (ss[i] \o c)
<1>1. i - 1 \in 0..Len(ss) /\ (i - 1) + 1 = i /\ ss[i] \in Seq(S) /\ i \in 0..Len(ss)
  <2>1. Len(ss) \in Nat
    OBVIOUS
  <2> QED BY <2>1
<1>2. /\ FlattenSeq(ss) = FlattenSeq(SubSeq(ss, 1, i - 1)) \o FlattenSeq(SubSeq(ss, i, Len(ss)))
      /\ SubSeq(ss, 1, i - 1) \in Seq(Seq(S))
  BY <1>1, FlattenSplit
<1>3. FlattenSeq(SubSeq(ss, i, Len(ss))) = ss[i] \o FlattenSeq(SubSeq(ss, i + 1, Len(ss)))
  BY FlattenNext
<1>4. SubSeq(ss, i + 1, Len(ss)) \in Seq(Seq(S))
  BY <1>1, FlattenSplit
<1> QED BY <1>1, <1>2, <1>3, <1>4, FlattenType

\* When all that the datagrams hold is in order, the datagrams are.
LEMMA DatagramsClimb ==
    ASSUME NEW us, NEW ds \in Seq(Seq(TsPacketSet)), Climbs(FlattenSeq(ds)),
           \A k \in DOMAIN FlattenSeq(ds) : FlattenSeq(ds)[k] \in PiecesOf(us)
    PROVE  WireOrder(us, ds)
<1>1. PICK m \in Nat : m = Len(ds) /\ DOMAIN ds = 1..m
  OBVIOUS
<1>2. ASSUME NEW i \in 1..m
      PROVE  /\ ds[i] \in Seq(PiecesOf(us)) /\ Climbs(ds[i])
             /\ AllUpTo(FlattenSeq(SubSeq(ds, 1, i - 1)), ds[i])
  <2>0. PICK d : d = ds[i] /\ d \in Seq(TsPacketSet)
    BY <1>1
  <2>1. PICK a \in Seq(TsPacketSet), c \in Seq(TsPacketSet) :
           a = FlattenSeq(SubSeq(ds, 1, i - 1)) /\ FlattenSeq(ds) = a \o (d \o c)
    <3>1. i \in 1..Len(ds)
      BY <1>1
    <3>2. \E a, c \in Seq(TsPacketSet) :
             /\ a = FlattenSeq(SubSeq(ds, 1, i - 1)) /\ ds[i] \in Seq(TsPacketSet)
             /\ FlattenSeq(ds) = a \o (ds[i] \o c)
      BY <3>1, FlatAround, Zenon
    <3> QED BY <2>0, <3>2, Zenon
  <2>2. PICK e, q, r : e \in Seq(TsPacketSet) /\ e = d \o c /\ IsJoined(e, d, c, q, r)
    BY <2>0, ConcatJoins
  <2>3. Climbs(d \o c) /\ AllUpTo(a, e)
    <3>1. Climbs(a \o e)
      BY <2>1, <2>2, Zenon
    <3>2. Climbs(e) /\ AllUpTo(a, e)
      BY <2>1, <2>2, <3>1, PartsClimb
    <3> QED BY <2>2, <3>2, Zenon
  <2>4. Climbs(d)
    BY <2>0, <2>3, PartsClimb
  <2>5. PICK w, p, t : w \in Seq(TsPacketSet) /\ w = FlattenSeq(ds) /\ IsJoined(w, a, e, p, t)
    BY <2>1, <2>2, ConcatJoins
  <2>6. \A k \in DOMAIN d : k \in DOMAIN e /\ e[k] = d[k]
    BY <2>2 DEF IsJoined
  <2>7. \A k \in DOMAIN e : \E l \in DOMAIN w : w[l] = e[k]
    BY <2>5 DEF IsJoined
  <2>8. \A k \in 1..Len(d) : d[k] \in PiecesOf(us)
    <3>1. DOMAIN d = 1..Len(d)
      BY <2>0
    <3> QED BY <2>5, <2>6, <2>7, <3>1
  <2>9. d \in Seq(PiecesOf(us))
    BY <2>0, <2>8, SeqOverElements
  <2>10. AllUpTo(a, d)
    BY <2>3, <2>6 DEF AllUpTo
  <2> QED BY <2>0, <2>1, <2>4, <2>9, <2>10
<1>3. ASSUME NEW i \in 1..m, NEW j \in 1..m, i < j PROVE AllUpTo(ds[i], ds[j])
  <2>1. PICK es \in Seq(Seq(TsPacketSet)) :
           es = SubSeq(ds, 1, j - 1) /\ i \in 1..Len(es) /\ es[i] = ds[i]
    <3>1. j - 1 \in 0..Len(ds) /\ i \in 1..(j - 1)
      BY <1>1, <1>3
    <3>2. /\ SubSeq(ds, 1, j - 1) \in Seq(Seq(TsPacketSet)) /\ Len(SubSeq(ds, 1, j - 1)) = j - 1
          /\ \A k \in 1..(j - 1) : SubSeq(ds, 1, j - 1)[k] = ds[k]
      BY <3>1, TwoPortions
    <3> QED BY <3>1, <3>2
  <2>2. PICK d : d = ds[i] /\ d = es[i] /\ d \in Seq(TsPacketSet)
    BY <1>1, <2>1
  <2>3. PICK a \in Seq(TsPacketSet), c \in Seq(TsPacketSet) : FlattenSeq(es) = a \o (d \o c)
    <3>1. \E a, c \in Seq(TsPacketSet) :
             /\ a = FlattenSeq(SubSeq(es, 1, i - 1)) /\ es[i] \in Seq(TsPacketSet)
             /\ FlattenSeq(es) = a \o (es[i] \o c)
      <4>1. i \in 1..Len(es)
        BY <2>1
      <4> QED BY <4>1, FlatAround, Zenon
    <3> QED BY <2>2, <3>1, Zenon
  <2>4. PICK e, q, r : e \in Seq(TsPacketSet) /\ e = d \o c /\ IsJoined(e, d, c, q, r)
    BY <2>2, ConcatJoins
  <2>5. PICK w, p, t : w \in Seq(TsPacketSet) /\ w = FlattenSeq(es) /\ IsJoined(w, a, e, p, t)
    BY <2>3, <2>4, ConcatJoins
  <2>6. AllUpTo(w, ds[j])
    BY <1>2, <2>1, <2>5
  <2>7. \A k \in DOMAIN d : k \in DOMAIN e /\ e[k] = d[k]
    BY <2>4 DEF IsJoined
  <2>8. \A k \in DOMAIN e : \E l \in DOMAIN w : w[l] = e[k]
    BY <2>5 DEF IsJoined
  <2>9. AllUpTo(d, ds[j])
    BY <2>6, <2>7, <2>8 DEF AllUpTo
  <2> QED BY <2>2, <2>9
<1> QED BY <1>1, <1>2, <1>3 DEF WireOrder

\* What has been handed over is in order, and what was sent of it too.
LEMMA SentClimbs ==
    ASSUME SendInv
    PROVE  WireInv
<1>1. SendTypeOK /\ SentIsWritten
  BY DEF SendInv
<1>2. PICK P, o : /\ P = PiecesOf(units) /\ o = Output /\ o \in Seq(P) /\ Climbs(o)
                  /\ P \subseteq TsPacketSet
  BY <1>1, OutputClimbs DEF SendTypeOK, PiecesOf
<1>3. PICK h \in Seq(TsPacketSet), m \in Nat :
         /\ h = Handed /\ Len(h) = m /\ DOMAIN h = 1..m /\ DOMAIN handed = 1..m
  <2>1. Len(handed) \in Nat /\ DOMAIN handed = 1..Len(handed)
    BY <1>1 DEF SendTypeOK
  <2> QED BY <1>1, <2>1, HandedTyped
<1>4. \A n \in 1..m : handed[n] \in DOMAIN o /\ h[n] = o[handed[n]] /\ h[n] \in P
  <2>1. \A n \in 1..m : handed[n] \in DOMAIN o
    BY <1>1, <1>2, <1>3, ElementOfSeq DEF SendTypeOK
  <2>2. \A n \in 1..m : h[n] = o[handed[n]]
    BY <1>2, <1>3 DEF Handed
  <2> QED BY <1>2, <2>1, <2>2
<1>5. \A x \in P : UpTo(x, x)
  <2>1. \A x \in P : x.pid \in Nat
    BY <1>2 DEF TsPacketSet
  <2> QED BY <2>1 DEF UpTo
<1>6. ASSUME NEW i \in 1..m, NEW j \in 1..m, i < j PROVE UpTo(h[i], h[j])
  <2>1. handed[i] <= handed[j]
    BY <1>1, <1>3, <1>6 DEF SentIsWritten
  <2>2. handed[i] \in Nat /\ handed[j] \in Nat
    BY <1>2, <1>4
  <2>3. CASE handed[i] = handed[j]
    BY <1>4, <1>5, <2>3
  <2>4. CASE handed[i] < handed[j]
    BY <1>2, <1>4, <2>4 DEF Climbs
  <2> QED BY <2>1, <2>2, <2>3, <2>4
<1>7. PICK s \in Seq(TsPacketSet), l \in Nat : s = SentData /\ l = Len(s) /\ DOMAIN s = 1..l
  <2>1. SentData \in Seq(TsPacketSet)
    BY <1>1, SentTyped DEF SendTypeOK
  <2> QED BY <2>1
<1>8. l <= m /\ \A k \in 1..l : s[k] = h[k]
  <2>1. CASE s \o pending = h
    <3>1. Len(pending) \in Nat
      BY <1>1 DEF SendTypeOK
    <3>2. Len(s \o pending) = l + Len(pending) /\ \A k \in 1..l : (s \o pending)[k] = s[k]
      BY <1>1, <1>7, ConcatParts DEF SendTypeOK
    <3> QED BY <1>3, <1>7, <2>1, <3>1, <3>2
  <2>2. CASE s = h
    BY <1>3, <1>7, <2>2
  <2>3. CASE IsPrefix(s, h)
    BY <1>3, <1>7, <2>3 DEF IsPrefix
  <2> QED BY <1>1, <1>3, <1>7, <2>1, <2>2, <2>3 DEF SendTypeOK, SentIsWritten
<1>9. Climbs(s) /\ \A k \in DOMAIN s : s[k] \in P
  <2>1. \A k \in 1..l : k \in 1..m
    BY <1>8
  <2> QED BY <1>4, <1>6, <1>7, <1>8, <2>1 DEF Climbs
<1>10. Payloads \in Seq(Seq(TsPacketSet)) /\ s = FlattenSeq(Payloads)
  BY <1>1, <1>7, PayloadsTyped DEF SendTypeOK, SentData, Payloads
<1> QED BY <1>2, <1>9, <1>10, DatagramsClimb DEF WireInv

\* Nothing is sent but after what was.
LEMMA WireNext ==
    ASSUME SendInv, SendStep
    PROVE  /\ WireInv' /\ UNCHANGED units
           /\ DOMAIN Payloads \subseteq DOMAIN Payloads'
           /\ \A i \in DOMAIN Payloads : Payloads'[i] = Payloads[i]
<1>1. PICK ds \in Seq(Seq(TsPacketSet)) : ds = Payloads
  BY PayloadsTyped DEF SendInv, SendTypeOK
<1>2. UNCHANGED units
  BY DEF SendStep, WriteTs, WriteTsInterrupted, WriteTsFails, HandOver, WriteTrailer, Drop, WriterRests
<1>3. WireInv'
  <2>1. SendInv'
    BY SendNext
  <2> QED BY <2>1, SentClimbs, PTL
<1>4. SUFFICES /\ DOMAIN ds \subseteq DOMAIN Payloads'
               /\ \A i \in DOMAIN ds : Payloads'[i] = ds[i]
  BY <1>1, <1>2, <1>3
<1>5. wire' = wire => Payloads' = ds
  BY <1>1 DEF Payloads
<1>6. ASSUME NEW new \in Seq(Seq(TsPacketSet)), Payloads' = ds \o new
      PROVE  DOMAIN ds \subseteq DOMAIN Payloads' /\ \A i \in DOMAIN ds : Payloads'[i] = ds[i]
  <2>1. Len(ds) \in Nat /\ Len(new) \in Nat /\ DOMAIN ds = 1..Len(ds)
    OBVIOUS
  <2>2. DOMAIN (ds \o new) = 1..(Len(ds) + Len(new)) /\ \A i \in 1..Len(ds) : (ds \o new)[i] = ds[i]
    <3>1. ds \o new \in Seq(Seq(TsPacketSet)) /\ Len(ds \o new) = Len(ds) + Len(new)
          /\ \A i \in 1..Len(ds) : (ds \o new)[i] = ds[i]
      BY ConcatParts
    <3> QED BY <3>1, LenProperties
  <2> QED BY <1>6, <2>1, <2>2
<1>7. ASSUME NEW d \in Seq(TsPacketSet), Send(d)
      PROVE  DOMAIN ds \subseteq DOMAIN Payloads' /\ \A i \in DOMAIN ds : Payloads'[i] = ds[i]
  <2>1. Payloads' = Append(ds, d)
    BY <1>1, <1>7, PayloadsGrow DEF SendInv, SendTypeOK
  <2> QED BY <2>1
<1>8. CASE WriteTs \/ WriteTsInterrupted \/ WriteTsFails
  <2>1. HandOver
    BY <1>8 DEF WriteTs, WriteTsInterrupted, WriteTsFails
  <2>2. PICK x \in TsPacketSet : x = Output[written + 1]
    BY <2>1, HandedGrows DEF SendInv
  <2>3. Write(x) \/ WriteFails(x)
    BY <1>8, <2>2 DEF WriteTs, WriteTsInterrupted, WriteTsFails
  <2>4. \E new : Payloads' = Payloads \o new /\ new \in Seq(Seq(TsPacketSet))
    BY <2>3, WriteAdds DEF SendInv, SendTypeOK
  <2> QED BY <1>1, <1>6, <2>4
<1>9. CASE WriteTrailer \/ Drop
  <2>1. Send(pending) \/ wire' = wire
    BY <1>9 DEF WriteTrailer, Drop, Flush, DropWriter
  <2>2. pending \in Seq(TsPacketSet)
    BY DEF SendInv, SendTypeOK
  <2> QED BY <1>5, <1>7, <2>1, <2>2
<1>10. CASE WriterRests /\ (wire' = wire \/ \E i \in DOMAIN wire : Recv(i))
  <2>1. ASSUME NEW i \in DOMAIN wire, Recv(i) PROVE Payloads' = ds
    BY <1>1, <2>1, PayloadsStay DEF SendInv, SendTypeOK
  <2> QED BY <1>5, <1>10, <2>1
<1> QED BY <1>8, <1>9, <1>10 DEF SendStep

LEMMA SeenStays ==
    ASSUME NEW ds, NEW es, NEW g \in Seq(DOMAIN ds), \A i \in DOMAIN ds : es[i] = ds[i]
    PROVE  SeenOf(es, g) = SeenOf(ds, g)
<1>1. \A k \in DOMAIN g : g[k] \in DOMAIN ds
  BY ElementOfSeq
<1> QED BY <1>1 DEF SeenOf

LEMMA SeenAdds ==
    ASSUME NEW ds, NEW g \in Seq(DOMAIN ds), NEW i \in DOMAIN ds
    PROVE  SeenOf(ds, Append(g, i)) = SeenOf(ds, g) \cup {x \in TsPacketSet : Occurs(x, ds[i])}
<1>0. PICK h : h = Append(g, i)
  OBVIOUS
<1>1. PICK m \in Nat :
         /\ m = Len(g) /\ DOMAIN g = 1..m /\ DOMAIN h = 1..(m + 1)
         /\ h[m + 1] = i /\ \A k \in 1..m : h[k] = g[k]
  <2>1. /\ DOMAIN Append(g, i) = 1..(Len(g) + 1) /\ Append(g, i)[Len(g) + 1] = i
        /\ \A k \in 1..Len(g) : Append(g, i)[k] = g[k]
    BY OneMore
  <2>2. Len(g) \in Nat /\ DOMAIN g = 1..Len(g)
    OBVIOUS
  <2> QED BY <1>0, <2>1, <2>2, Zenon
<1>2. m + 1 \in DOMAIN h /\ \A k \in DOMAIN h : k = m + 1 \/ k \in DOMAIN g
  BY <1>1
<1>3. \A k \in DOMAIN g : k \in DOMAIN h /\ h[k] = g[k]
  BY <1>1
<1>4. \A x : (\E k \in DOMAIN h : Occurs(x, ds[h[k]])) <=>
              (\E k \in DOMAIN g : Occurs(x, ds[g[k]])) \/ Occurs(x, ds[i])
  BY <1>1, <1>2, <1>3
<1> QED BY <1>0, <1>4 DEF SeenOf

\* What arrives in order comes after all that has arrived.
LEMMA ArrivesLater ==
    ASSUME NEW us, NEW ds, WireOrder(us, ds),
           NEW g \in Seq(DOMAIN ds), NEW i \in DOMAIN ds, \A k \in DOMAIN g : g[k] < i,
           NEW y \in SeenOf(ds, g), NEW j \in DOMAIN ds[i]
    PROVE  UpTo(y, ds[i][j])
<1>1. PICK k \in DOMAIN g : Occurs(y, ds[g[k]])
  BY DEF SeenOf
<1>2. PICK h \in DOMAIN ds : h = g[k] /\ h < i
  BY ElementOfSeq
<1>3. AllUpTo(ds[h], ds[i])
  BY <1>2 DEF WireOrder
<1> QED BY <1>1, <1>2, <1>3 DEF AllUpTo, Occurs

LEMMA HeadedStays ==
    ASSUME NEW us, NEW pes, NEW seen \in SUBSET TsPacketSet, NEW more \in SUBSET TsPacketSet,
           \A y \in seen, z \in more : UpTo(y, z),
           NEW data, NEW pts, Headed(us, pes, seen, data, pts)
    PROVE  Headed(us, pes, seen \cup more, data, pts)
<1> SUFFICES ASSUME NEW k \in DOMAIN data, data[k].unit # data[1].unit,
                    HeadOf(us, data[k].unit) \in more
             PROVE  FALSE
  BY DEF Headed
<1>1. PICK x \in TsPacketSet :
         /\ x = data[k] /\ x \in seen /\ x.pid \in Pids /\ x.piece > 0
         /\ x.unit \in DOMAIN us /\ x.pid = us[x.unit].pid
  <2>1. data[k] \in PiecesOf(us)
    BY ElementOfSeq DEF Headed
  <2> QED BY <2>1 DEF Headed, PiecesOf
<1>2. UpTo(x, Ts(x.pid, x.unit, 1))
  BY <1>1 DEF HeadOf
<1>3. x.pid \in Nat /\ x.unit \in Nat /\ x.piece \in Nat
  BY <1>1 DEF TsPacketSet
<1>4. x.piece = 1
  BY <1>1, <1>2, <1>3 DEF UpTo, Ts
<1>5. x = [pid |-> x.pid, unit |-> x.unit, piece |-> x.piece]
  BY <1>1 DEF TsPacketSet
<1>6. x = HeadOf(us, x.unit)
  BY <1>1, <1>4, <1>5 DEF HeadOf, Ts
<1>7. HeadOf(us, x.unit) \notin seen
  BY <1>1 DEF Headed
<1> QED BY <1>1, <1>6, <1>7

LEMMA GoodStays ==
    ASSUME NEW us, NEW pes, NEW seen \in SUBSET TsPacketSet, NEW more \in SUBSET TsPacketSet,
           \A y \in seen, z \in more : UpTo(y, z)
    PROVE  /\ GoodPes(us, pes, seen) \subseteq GoodPes(us, pes, seen \cup more)
           /\ GoodPackets(us, pes, seen) \subseteq GoodPackets(us, pes, seen \cup more)
  BY HeadedStays DEF GoodPes, GoodPackets

LEMMA BufferFills ==
    ASSUME NEW us, NEW seen \in SUBSET TsPacketSet, NEW b \in Seq(PiecesOf(us)), Climbs(b),
           \A y \in seen : \A k \in DOMAIN b : UpTo(y, b[k])
    PROVE  Buffered(us, seen \cup {x \in TsPacketSet : Occurs(x, b)}, b)
<1>1. \A k \in DOMAIN b : b[k] \in TsPacketSet /\ Occurs(b[k], b)
  <2>1. \A k \in DOMAIN b : b[k] \in PiecesOf(us)
    BY ElementOfSeq
  <2> QED BY <2>1 DEF PiecesOf, Occurs
<1> QED BY <1>1 DEF Buffered

LEMMA LatestStays ==
    ASSUME NEW seen \in SUBSET TsPacketSet, NEW b,
           \A y \in seen : \A k \in DOMAIN b : UpTo(y, b[k]),
           NEW p, NEW data, \A k \in DOMAIN data : data[k] \in seen,
           Latest(seen, <<>>, p, data)
    PROVE  Latest(seen \cup {x \in TsPacketSet : Occurs(x, b)}, b, p, data)
<1>1. AllUpTo(data, b)
  BY DEF AllUpTo
<1>2. \A y : ~Occurs(y, <<>>)
  BY DEF Occurs
<1> QED BY <1>1, <1>2 DEF Latest

\* The first of what is buffered is taken.
LEMMA TailTyped ==
    ASSUME NEW us, NEW b \in Seq(PiecesOf(us)), b # <<>>
    PROVE  /\ Tail(b) \in Seq(PiecesOf(us)) /\ Head(b) = b[1] /\ 1 \in DOMAIN b
           /\ \A k \in DOMAIN Tail(b) : /\ k + 1 \in DOMAIN b /\ k \in Nat /\ k > 0
                                        /\ Tail(b)[k] = b[k + 1]
           /\ \A k \in DOMAIN b : k = 1 \/ (k - 1 \in DOMAIN Tail(b) /\ Tail(b)[k - 1] = b[k])
<1>1. PICK n \in Nat : n = Len(b) /\ DOMAIN b = 1..n /\ n > 0
  OBVIOUS
<1>2. /\ Tail(b) \in Seq(PiecesOf(us)) /\ Len(Tail(b)) = n - 1
      /\ \A k \in 1..(n - 1) : Tail(b)[k] = b[k + 1]
  BY <1>1, HeadTailProperties
<1>3. DOMAIN Tail(b) = 1..(n - 1)
  BY <1>2, LenProperties
<1> QED BY <1>1, <1>2, <1>3

LEMMA BufferDrains ==
    ASSUME NEW us, NEW seen, NEW b, Buffered(us, seen, b), b # <<>>
    PROVE  Buffered(us, seen, Tail(b))
<1>1. b \in Seq(PiecesOf(us)) /\ Climbs(b)
  BY DEF Buffered
<1>2. Climbs(Tail(b))
  BY <1>1, TailTyped DEF Climbs
<1>3. ASSUME NEW y \in seen
      PROVE  Occurs(y, Tail(b)) \/ \A k \in DOMAIN Tail(b) : UpTo(y, Tail(b)[k])
  <2>1. CASE Occurs(y, b)
    <3>1. PICK j \in DOMAIN b : y = b[j]
      BY <2>1 DEF Occurs
    <3>2. CASE j = 1
      <4>1. \A k \in DOMAIN Tail(b) : k + 1 \in DOMAIN b /\ 1 < k + 1 /\ Tail(b)[k] = b[k + 1]
        BY <1>1, TailTyped
      <4> QED BY <1>1, <3>1, <3>2, <4>1, TailTyped DEF Climbs
    <3>3. CASE j # 1
      BY <1>1, <3>1, <3>3, TailTyped DEF Occurs
    <3> QED BY <3>2, <3>3
  <2>2. CASE \A k \in DOMAIN b : UpTo(y, b[k])
    BY <1>1, <2>2, TailTyped
  <2> QED BY <2>1, <2>2 DEF Buffered
<1> QED BY <1>1, <1>2, <1>3, TailTyped DEF Buffered

LEMMA LatestDrains ==
    ASSUME NEW us, NEW seen, NEW b, Buffered(us, seen, b), b # <<>>,
           NEW p, NEW data, Latest(seen, b, p, data), ~(Head(b).pid = p /\ Head(b).piece = 1)
    PROVE  Latest(seen, Tail(b), p, data)
<1>1. b \in Seq(PiecesOf(us))
  BY DEF Buffered
<1>2. AllUpTo(data, Tail(b))
  BY <1>1, TailTyped DEF Latest, AllUpTo
<1>3. ASSUME NEW y \in seen, y.pid = p, y.piece = 1, Occurs(y, b) PROVE Occurs(y, Tail(b))
  <2>1. PICK j \in DOMAIN b : y = b[j]
    BY <1>3 DEF Occurs
  <2>2. j # 1
    BY <1>1, <1>3, <2>1, TailTyped
  <2> QED BY <1>1, <2>1, <2>2, TailTyped DEF Occurs
<1> QED BY <1>2, <1>3 DEF Latest

\* A unit begins.
LEMMA HeadBegins ==
    ASSUME NEW us, NEW pes, NEW seen \in SUBSET TsPacketSet, NEW b,
           Buffered(us, seen, b), b # <<>>,
           NEW x, x = Head(b), x.pid \in Pids, x.piece = 1
    PROVE  /\ Headed(us, pes, seen, <<x>>, pes[x.unit].pts)
           /\ Latest(seen, Tail(b), x.pid, <<x>>)
<1>1. b \in Seq(PiecesOf(us)) /\ Climbs(b)
  BY DEF Buffered
<1>2. x \in PiecesOf(us) /\ x \in seen /\ x = b[1]
  BY <1>1, TailTyped, ElementOfSeq DEF Buffered
<1>3. Headed(us, pes, seen, <<x>>, pes[x.unit].pts)
  <2>1. <<x>> \in Seq(PiecesOf(us)) /\ <<x>> # <<>> /\ Climbs(<<x>>)
    BY <1>2 DEF Climbs
  <2> QED BY <1>2, <2>1 DEF Headed
<1>4. ASSUME NEW k \in DOMAIN Tail(b) PROVE UpTo(x, Tail(b)[k])
  <2>1. 1 \in DOMAIN b /\ k + 1 \in DOMAIN b /\ 1 < k + 1 /\ Tail(b)[k] = b[k + 1]
    BY <1>1, TailTyped
  <2> QED BY <1>1, <1>2, <2>1 DEF Climbs
<1>5. ASSUME NEW y \in seen PROVE y.unit <= x.unit \/ Occurs(y, Tail(b))
  <2>0. x.unit \in Nat
    BY <1>2 DEF PiecesOf, TsPacketSet
  <2>1. CASE UpTo(y, x)
    <3>1. y.unit \in Nat
      BY DEF TsPacketSet
    <3> QED BY <2>0, <2>1, <3>1 DEF UpTo
  <2>2. CASE Occurs(y, b)
    <3>1. PICK j \in DOMAIN b : y = b[j]
      BY <2>2 DEF Occurs
    <3>2. j = 1 => y.unit <= x.unit
      BY <1>2, <2>0, <3>1
    <3>3. j # 1 => Occurs(y, Tail(b))
      BY <1>1, <3>1, TailTyped DEF Occurs
    <3> QED BY <3>2, <3>3
  <2> QED BY <1>1, <1>2, <2>1, <2>2, TailTyped DEF Buffered
<1> QED BY <1>3, <1>4, <1>5 DEF Latest, AllUpTo

\* A unit grows.
LEMMA PieceJoins ==
    ASSUME NEW us, NEW pes, NEW seen, NEW b, Buffered(us, seen, b), b # <<>>,
           NEW x, x = Head(b), x.pid \in Pids, x.piece # 1,
           NEW data, NEW pts, Headed(us, pes, seen, data, pts), Latest(seen, b, x.pid, data)
    PROVE  /\ Headed(us, pes, seen, Append(data, x), pts)
           /\ Latest(seen, Tail(b), x.pid, Append(data, x))
<1>1. b \in Seq(PiecesOf(us)) /\ Climbs(b) /\ data \in Seq(PiecesOf(us)) /\ data # <<>> /\ Climbs(data)
  BY DEF Buffered, Headed
<1>2. x \in PiecesOf(us) /\ x \in seen /\ x = b[1] /\ 1 \in DOMAIN b
  BY <1>1, TailTyped, ElementOfSeq DEF Buffered
<1>3. PICK m \in Nat : m = Len(data) /\ DOMAIN data = 1..m /\ m > 0
  BY <1>1
<1>4. PICK e : /\ e = Append(data, x) /\ e \in Seq(PiecesOf(us)) /\ DOMAIN e = 1..(m + 1)
               /\ e[m + 1] = x /\ \A k \in 1..m : e[k] = data[k]
  <2>1. /\ Append(data, x) \in Seq(PiecesOf(us)) /\ DOMAIN Append(data, x) = 1..(Len(data) + 1)
        /\ Append(data, x)[Len(data) + 1] = x
        /\ \A k \in 1..Len(data) : Append(data, x)[k] = data[k]
    BY <1>1, <1>2, OneMore
  <2> QED BY <1>3, <2>1
<1>5. \A k \in DOMAIN e : k = m + 1 \/ (k \in DOMAIN data /\ e[k] = data[k])
  BY <1>3, <1>4
<1>6. e[1] = data[1] /\ 1 \in DOMAIN data /\ 1 \in DOMAIN e /\ e # <<>>
  BY <1>3, <1>4
<1>7. \A k \in DOMAIN data : UpTo(data[k], x)
  BY <1>2 DEF Latest, AllUpTo
<1>8. Climbs(e)
  BY <1>1, <1>3, <1>4, <1>7 DEF Climbs
<1>9. ASSUME x.unit # data[1].unit, HeadOf(us, x.unit) \in seen PROVE FALSE
  <2>1. PICK h : h = HeadOf(us, x.unit)
    OBVIOUS
  <2>2. /\ h.pid = x.pid /\ h.piece = 1 /\ h.unit = x.unit
        /\ x.unit \in Nat /\ x.pid \in Nat /\ x.piece \in Nat /\ x.piece > 0
        /\ x.unit = x.unit
    BY <1>2, <2>1 DEF HeadOf, Ts, PiecesOf, TsPacketSet
  <2>3. data[1].unit \in Nat
    <3>1. data[1] \in PiecesOf(us)
      BY <1>1, <1>6, ElementOfSeq
    <3> QED BY <3>1 DEF PiecesOf, TsPacketSet
  <2>4. UpTo(data[1], x)
    BY <1>6, <1>7
  <2>5. data[1].unit < x.unit
    BY <1>9, <2>2, <2>3, <2>4 DEF UpTo
  <2>6. Occurs(h, b)
    BY <1>9, <2>1, <2>2, <2>3, <2>5 DEF Latest
  <2>7. PICK j \in DOMAIN b : h = b[j]
    BY <2>6 DEF Occurs
  <2>8. j # 1
    BY <1>2, <2>2, <2>7
  <2>9. UpTo(x, h)
    <3>1. j \in Nat /\ 1 < j
      BY <1>1, <2>7, <2>8
    <3> QED BY <1>1, <1>2, <2>7, <3>1 DEF Climbs
  <2> QED BY <2>2, <2>9 DEF UpTo
<1>10. \A k \in DOMAIN e : e[k] \in seen /\ e[k].pid \in Pids
  BY <1>2, <1>4, <1>5 DEF Headed
<1>11. \A k \in DOMAIN e : e[k].unit # e[1].unit => HeadOf(us, e[k].unit) \notin seen
  BY <1>4, <1>5, <1>6, <1>9 DEF Headed
<1>12. Headed(us, pes, seen, e, pts)
  <2>1. data[1].piece = 1 /\ pts = pes[data[1].unit].pts
    BY DEF Headed
  <2> QED BY <1>4, <1>6, <1>8, <1>10, <1>11, <2>1 DEF Headed
<1>13. Latest(seen, Tail(b), x.pid, data)
  BY LatestDrains
<1>14. \A k \in DOMAIN Tail(b) : UpTo(x, Tail(b)[k])
  <2> SUFFICES ASSUME NEW k \in DOMAIN Tail(b) PROVE UpTo(x, Tail(b)[k])
    OBVIOUS
  <2>1. 1 \in DOMAIN b /\ k + 1 \in DOMAIN b /\ 1 < k + 1 /\ Tail(b)[k] = b[k + 1]
    BY <1>1, TailTyped
  <2> QED BY <1>1, <1>2, <2>1 DEF Climbs
<1>15. AllUpTo(e, Tail(b))
  BY <1>4, <1>5, <1>13, <1>14 DEF AllUpTo, Latest
<1>16. Latest(seen, Tail(b), x.pid, e)
  BY <1>6, <1>13, <1>15 DEF Latest
<1> QED BY <1>4, <1>12, <1>16

PesHeaders == [pts : Int, dts : Int \cup {None}, expect : Nat, sps : BOOLEAN]

LEMMA HeadersTyped ==
    ASSUME units \in Programs
    PROVE  Pes \in [DOMAIN units -> PesHeaders]
<1> SUFFICES ASSUME NEW u \in DOMAIN units
             PROVE  [pts |-> PtsField(u), dts |-> DtsField(u),
                     expect |-> LengthField(u), sps |-> units[u].sps] \in PesHeaders
  BY DEF Pes
<1>1. units[u] \in Units
  BY ProgramTyped
<1>2. \A n \in Int : n % StampMod \in Int
  BY UnitAssumption
<1>3. PtsField(u) \in Int /\ DtsField(u) \in Int \cup {None}
  <2>1. units[u].pts \in Int \cup {None} /\ units[u].dts \in Int \cup {None}
    BY <1>1 DEF Units, Stamps
  <2>2. (IF units[u].pts = None THEN 0 ELSE units[u].pts) \in Int
    BY <2>1
  <2> QED BY <1>2, <2>1, <2>2 DEF PtsField, DtsField
<1>4. LengthField(u) \in Nat /\ units[u].sps \in BOOLEAN
  BY <1>1 DEF Units, LengthField
<1> QED BY <1>3, <1>4 DEF PesHeaders

LEMMA EmittedGood ==
    ASSUME NEW us, NEW pes, NEW seen, NEW rec \in GoodPes(us, pes, seen)
    PROVE  AfterPacket(rec) \in GoodPackets(us, pes, seen)
<1>1. rec \in PesSet /\ Headed(us, pes, seen, rec.data, rec.pts)
  BY DEF GoodPes
<1>2. AfterPacket(rec) \in PacketSet
  BY <1>1 DEF AfterPacket, PesSet, PacketSet
<1>3. AfterPacket(rec).data = rec.data /\ AfterPacket(rec).pts = rec.pts
  BY DEF AfterPacket
<1> QED BY <1>1, <1>2, <1>3 DEF GoodPackets

\* The unit in progress after x.
LEMMA GrownGood ==
    ASSUME NEW us, NEW pes \in [DOMAIN us -> PesHeaders], NEW seen \in SUBSET TsPacketSet,
           Buffered(us, seen, rbuf), rbuf # <<>>, NEW x, x = Head(rbuf), x.pid \in Pids,
           partial[x.pid] \in GoodPes(us, pes, seen) \cup {None},
           partial[x.pid] # None => Latest(seen, rbuf, x.pid, partial[x.pid].data)
    PROVE  \/ Grown(pes, x) = None
           \/ /\ Grown(pes, x) \in GoodPes(us, pes, seen)
              /\ Latest(seen, Tail(rbuf), x.pid, Grown(pes, x).data)
<1>1. x \in PiecesOf(us)
  <2>1. rbuf \in Seq(PiecesOf(us))
    BY DEF Buffered
  <2> QED BY <2>1, TailTyped, ElementOfSeq
<1>2. x \in TsPacketSet /\ x.unit \in DOMAIN us
  BY <1>1 DEF PiecesOf
<1>3. CASE x.piece = 1
  <2>1. PICK rec : rec = PesOf(pes, x)
    OBVIOUS
  <2>2. /\ Headed(us, pes, seen, <<x>>, pes[x.unit].pts)
        /\ Latest(seen, Tail(rbuf), x.pid, <<x>>)
    BY <1>3, HeadBegins
  <2>3. rec.data = <<x>> /\ rec.pts = pes[x.unit].pts
    BY <2>1 DEF PesOf
  <2>4. rec \in PesSet
    <3>1. pes[x.unit] \in PesHeaders
      BY <1>2
    <3>2. pes[x.unit].pts \in Int /\ pes[x.unit].dts \in Int \cup {None} /\ pes[x.unit].expect \in Nat
      BY <3>1 DEF PesHeaders
    <3>3. <<x>> \in Seq(TsPacketSet)
      BY <1>2
    <3> QED BY <2>1, <3>2, <3>3 DEF PesOf, PesSet
  <2>5. Grown(pes, x) = rec
    BY <1>3, <2>1 DEF Grown
  <2> QED BY <2>2, <2>3, <2>4, <2>5 DEF GoodPes
<1>4. CASE x.piece # 1 /\ partial[x.pid] = None
  BY <1>4 DEF Grown
<1>5. CASE x.piece # 1 /\ partial[x.pid] # None
  <2>1. PICK old \in PesSet : old = partial[x.pid] /\ Headed(us, pes, seen, old.data, old.pts)
    BY <1>5 DEF GoodPes
  <2>2. PICK rec : rec = [old EXCEPT !.data = Append(@, x)]
    OBVIOUS
  <2>3. /\ Headed(us, pes, seen, Append(old.data, x), old.pts)
        /\ Latest(seen, Tail(rbuf), x.pid, Append(old.data, x))
    BY <1>5, <2>1, PieceJoins
  <2>4. Append(old.data, x) \in Seq(TsPacketSet)
    BY <1>2 DEF PesSet
  <2>5. rec \in PesSet /\ rec.data = Append(old.data, x) /\ rec.pts = old.pts
    BY <2>2, <2>4 DEF PesSet
  <2>6. Grown(pes, x) = rec
    BY <1>5, <2>1, <2>2 DEF Grown
  <2> QED BY <2>3, <2>5, <2>6 DEF GoodPes
<1> QED BY <1>3, <1>4, <1>5

LEMMA ConsumeKeeps ==
    ASSUME NEW us, NEW pes \in [DOMAIN us -> PesHeaders], NEW seen \in SUBSET TsPacketSet,
           Buffered(us, seen, rbuf), rbuf # <<>>, NEW x, x = Head(rbuf),
           partial \in [Pids -> GoodPes(us, pes, seen) \cup {None}],
           ~built => \A p \in Pids : partial[p] = None,
           \A p \in Pids : partial[p] # None => Latest(seen, rbuf, p, partial[p].data),
           ready \in Seq(GoodPackets(us, pes, seen)),
           Consume(pes, x)
    PROVE  /\ partial' \in [Pids -> GoodPes(us, pes, seen) \cup {None}]
           /\ ~built' => \A p \in Pids : partial'[p] = None
           /\ \A p \in Pids : partial'[p] # None => Latest(seen, Tail(rbuf), p, partial'[p].data)
           /\ ready' \in Seq(GoodPackets(us, pes, seen))
<1>1. ASSUME NEW p \in Pids, partial[p] # None, x.pid # p
      PROVE  Latest(seen, Tail(rbuf), p, partial[p].data)
  BY <1>1, LatestDrains
<1>2. CASE x.pid \notin Pids \/ ~built
  <2>1. partial' = partial /\ ready' = ready /\ (~built' => ~built)
    <3>0. PAT \notin Pids /\ PMT \notin Pids /\ PAT # PMT
      BY DemuxAssumption DEF PAT, PMT
    <3>1. CASE x.pid = PAT
      <4>1. havePmt' = TRUE /\ UNCHANGED <<built, partial, ready>>
        BY <3>0, <3>1 DEF Consume
      <4> QED BY <4>1
    <3>2. CASE x.pid = PMT
      <4>1. built' = (built \/ havePmt) /\ UNCHANGED <<havePmt, partial, ready>>
        BY <3>0, <3>2 DEF Consume
      <4> QED BY <4>1
    <3>3. CASE x.pid # PAT /\ x.pid # PMT
      <4>1. UNCHANGED <<havePmt, built, partial, ready>>
        BY <1>2, <3>3 DEF Consume
      <4> QED BY <4>1
    <3> QED BY <3>1, <3>2, <3>3
  <2> QED BY <1>1, <1>2, <2>1
<1>3. CASE x.pid \in Pids /\ built
  <2>1. FeedPes(pes, x)
    <3>1. x.pid # PAT /\ x.pid # PMT
      BY <1>3, DemuxAssumption
    <3> QED BY <1>3, <3>1 DEF Consume
  <2>2. PICK g : g = Grown(pes, x)
    OBVIOUS
  <2>3. /\ ready' = ready \o Finalised(x) \o (IF Complete(g) THEN <<AfterPacket(g)>> ELSE <<>>)
        /\ partial' = [partial EXCEPT ![x.pid] = IF Complete(g) THEN None ELSE g]
        /\ built' = built
    BY <2>1, <2>2 DEF FeedPes
  <2>4. g = None \/ (g \in GoodPes(us, pes, seen) /\ Latest(seen, Tail(rbuf), x.pid, g.data))
    BY <1>3, <2>2, GrownGood
  <2>5. Finalised(x) \in Seq(GoodPackets(us, pes, seen))
    <3>1. CASE x.piece = 1 /\ partial[x.pid] # None
      <4>1. AfterPacket(partial[x.pid]) \in GoodPackets(us, pes, seen)
        BY <1>3, <3>1, EmittedGood
      <4> QED BY <3>1, <4>1 DEF Finalised
    <3>2. CASE ~(x.piece = 1 /\ partial[x.pid] # None)
      BY <3>2 DEF Finalised
    <3> QED BY <3>1, <3>2
  <2>6. (IF Complete(g) THEN <<AfterPacket(g)>> ELSE <<>>) \in Seq(GoodPackets(us, pes, seen))
    <3>1. CASE Complete(g)
      <4>1. AfterPacket(g) \in GoodPackets(us, pes, seen)
        BY <2>4, <3>1, EmittedGood DEF Complete
      <4> QED BY <3>1, <4>1
    <3>2. CASE ~Complete(g)
      BY <3>2
    <3> QED BY <3>1, <3>2
  <2>7. ready' \in Seq(GoodPackets(us, pes, seen))
    BY <2>3, <2>5, <2>6, ConcatProperties
  <2>8. PICK h : /\ h = (IF Complete(g) THEN None ELSE g)
                 /\ h = None \/ (h \in GoodPes(us, pes, seen) /\ Latest(seen, Tail(rbuf), x.pid, h.data))
    BY <2>4
  <2>9. partial' = [partial EXCEPT ![x.pid] = h] /\ built' = built
    BY <2>3, <2>8
  <2>10. partial' \in [Pids -> GoodPes(us, pes, seen) \cup {None}]
    BY <1>3, <2>8, <2>9
  <2>11. ASSUME NEW p \in Pids, partial'[p] # None
         PROVE  Latest(seen, Tail(rbuf), p, partial'[p].data)
    <3>1. CASE p = x.pid
      <4>1. partial'[p] = h
        BY <2>9, <3>1
      <4> QED BY <2>8, <2>11, <3>1, <4>1
    <3>2. CASE p # x.pid
      <4>1. partial'[p] = partial[p]
        BY <2>9, <3>2
      <4> QED BY <1>1, <2>11, <3>2, <4>1
    <3> QED BY <3>1, <3>2
  <2> QED BY <1>3, <2>7, <2>9, <2>10, <2>11
<1> QED BY <1>2, <1>3

LEMMA FlushedGood ==
    ASSUME NEW us, NEW pes, NEW seen,
           partial \in [Pids -> GoodPes(us, pes, seen) \cup {None}], InputEnds
    PROVE  ready' \in Seq(GoodPackets(us, pes, seen)) /\ partial' = [p \in Pids |-> None]
<1> DEFINE S == {p \in Pids : partial[p] # None}
<1>1. PICK order \in [1..Cardinality(S) -> S] : ready' = Flushed(order)
  BY DEF InputEnds
<1>2. PICK n \in Nat : n = Cardinality(S)
  <2>1. IsFiniteSet(S)
    <3>1. S \subseteq Pids /\ IsFiniteSet(Pids)
      BY DemuxAssumption
    <3> QED BY <3>1, FS_Subset
  <2> QED BY <2>1, FS_CardinalityType
<1>3. ASSUME NEW k \in 1..n PROVE AfterPacket(partial[order[k]]) \in GoodPackets(us, pes, seen)
  <2>1. partial[order[k]] \in GoodPes(us, pes, seen)
    BY <1>1, <1>2
  <2> QED BY <2>1, EmittedGood
<1>4. Flushed(order) \in [1..n -> GoodPackets(us, pes, seen)]
  BY <1>1, <1>2, <1>3 DEF Flushed
<1>5. Flushed(order) \in Seq(GoodPackets(us, pes, seen))
  BY <1>4, FunctionIsSeq
<1> QED BY <1>1, <1>5 DEF InputEnds

Assembler == <<partial, built, ready, out>>

Arrival(i) == Recv(i) /\ UNCHANGED Assembler
BufferRests == rbuf' = rbuf \/ rbuf' = <<Garbage>>
Idles == UNCHANGED Assembler /\ BufferRests
Consumes == /\ rbuf # <<>> /\ Head(rbuf) # Garbage /\ rbuf' = Tail(rbuf)
            /\ Consume(Pes, Head(rbuf)) /\ UNCHANGED out
HandsOn == /\ ready # <<>> /\ out' = Append(out, Head(ready)) /\ ready' = Tail(ready)
           /\ UNCHANGED <<rbuf, partial, built>>
Flushes == InputEnds /\ UNCHANGED <<out, built>> /\ BufferRests

LEMMA ReceiverSteps ==
    ASSUME [Next]_vars
    PROVE  \/ \E i \in DOMAIN wire : Arrival(i)
           \/ got' = got /\ (Idles \/ Consumes \/ HandsOn \/ Flushes)
<1>1. ASSUME WriteTs \/ WriteTsInterrupted \/ WriteTsFails \/ WriteTrailer \/ Drop
      PROVE  got' = got /\ Idles
  BY <1>1 DEF WriteTs, WriteTsInterrupted, WriteTsFails, HandOver, WriteTrailer, Drop, demuxVars, Idles, Assembler,
              BufferRests
<1>2. ASSUME NextTs PROVE got' = got /\ Consumes
  <2>1. Consume(Pes, Head(rbuf)) /\ UNCHANGED out
    BY <1>2 DEF NextTs, ReadTables, ReadDims, ReadOn
  <2> QED BY <1>2, <2>1 DEF NextTs, Consumes
<1>3. ASSUME NextTsLost PROVE got' = got /\ Idles
  BY <1>3 DEF NextTsLost, LoseSync, linkVars, Idles, Assembler, BufferRests
<1>4. ASSUME Refill PROVE (\E i \in DOMAIN wire : Arrival(i)) \/ (got' = got /\ Idles)
  BY <1>4 DEF Refill, TimeOut, demuxVars, Arrival, Idles, Assembler, BufferRests
<1>5. ASSUME Interrupted PROVE got' = got /\ Idles
  BY <1>5 DEF Interrupted, RecvFails, demuxVars, Idles, Assembler, BufferRests
<1>6. ASSUME NEW eof, TablesEnd(eof) \/ HeaderDone(Pes, eof) PROVE UNCHANGED Assembler
  BY <1>6 DEF TablesEnd, HeaderDone, Assembler
<1>7. ASSUME InputEnds PROVE UNCHANGED <<out, built>>
  BY <1>7 DEF InputEnds
<1>8. ASSUME RecvError PROVE got' = got /\ (Idles \/ Flushes)
  <2>1. got' = got /\ BufferRests
    BY <1>8 DEF RecvError, RecvFails, BufferRests
  <2> QED BY <1>6, <1>7, <1>8, <2>1 DEF RecvError, Idles, Flushes
<1>9. ASSUME DemuxerStep PROVE got' = got /\ (Idles \/ HandsOn \/ Flushes)
  <2>1. got' = got /\ rbuf' = rbuf
    BY <1>9 DEF DemuxerStep, linkVars
  <2>2. ASSUME HandOn \/ HandOnLast PROVE Idles \/ HandsOn
    BY <2>1, <2>2 DEF HandOn, HandOnLast, Idles, HandsOn, Assembler, BufferRests
  <2> QED BY <1>6, <1>7, <1>9, <2>1, <2>2 DEF DemuxerStep, Idles, Flushes, BufferRests
<1>10. ASSUME UNCHANGED tsVars PROVE got' = got /\ Idles
  BY <1>10 DEF tsVars, linkVars, demuxVars, Idles, Assembler, BufferRests
<1>11. TsNext \/ UNCHANGED tsVars
  BY DEF Next, Udp, Publishing, Browsing, vars
<1> QED BY <1>1, <1>2, <1>3, <1>4, <1>5, <1>8, <1>9, <1>10, <1>11 DEF TsNext, Receiver

LEMMA SpliceInit == Init => SpliceInv
<1> SUFFICES ASSUME Init PROVE SpliceInv
  OBVIOUS
<1>1. /\ pending = <<>> /\ wire = <<>> /\ rbuf = <<>> /\ got = <<>>
      /\ partial = [p \in Pids |-> None] /\ built = FALSE /\ ready = <<>> /\ out = <<>>
  BY DEF Init, TsInit, LinkInit, DemuxInit
<1>2. DOMAIN Payloads = {}
  BY <1>1 DEF Payloads
<1>3. WireInv
  BY <1>2 DEF WireInv, WireOrder
<1>4. Seen = {}
  BY <1>1 DEF Seen, SeenOf
<1>5. Reassembled
  BY <1>1 DEF Reassembled
<1>6. Buffered(units, Seen, rbuf)
  BY <1>1, <1>4 DEF Buffered, Climbs
<1>7. InOrderInv
  BY <1>1, <1>5, <1>6 DEF InOrderInv
<1> QED BY <1>1, <1>3, <1>7 DEF SpliceInv

LEMMA SpliceNext == SendInv /\ SpliceInv /\ [Next]_vars => SpliceInv'
<1> SUFFICES ASSUME SendInv, SpliceInv, [Next]_vars PROVE SpliceInv'
  OBVIOUS
<1>1. /\ WireInv' /\ UNCHANGED units
      /\ DOMAIN Payloads \subseteq DOMAIN Payloads'
      /\ \A i \in DOMAIN Payloads : Payloads'[i] = Payloads[i]
  BY OnlyWriterSends, WireNext
<1>2. PICK us, pes, seen :
         /\ us = units /\ pes = Pes /\ seen = Seen /\ pes \in [DOMAIN us -> PesHeaders]
         /\ seen \in SUBSET TsPacketSet
  <2>1. Seen \in SUBSET TsPacketSet
    BY DEF Seen, SeenOf
  <2> QED BY <2>1, HeadersTyped DEF SendInv, SendTypeOK
<1>3. units' = us /\ Pes' = pes
  <2>1. Pes' = Pes
    BY <1>1 DEF Pes, PtsField, DtsField, LengthField
  <2> QED BY <1>1, <1>2, <2>1
<1>4. DOMAIN Payloads = DOMAIN wire
  BY DEF Payloads
<1>5. PICK ds, g : ds = Payloads /\ g = got /\ g \in Seq(DOMAIN ds) /\ seen = SeenOf(ds, g)
  BY <1>2 DEF SpliceInv, Seen
<1>6. SeenOf(Payloads', g) = seen
  BY <1>1, <1>5, SeenStays
<1>7. CASE got' = got /\ (Idles \/ Consumes \/ HandsOn \/ Flushes)
  <2>1. Seen' = seen /\ got' \in Seq(DOMAIN Payloads')
    BY <1>1, <1>5, <1>6, <1>7 DEF Seen
  <2>2. SUFFICES ASSUME GotInOrder' PROVE InOrderInv'
    BY <1>1, <2>1 DEF SpliceInv
  <2>3. InOrderInv
    BY <1>7, <2>2 DEF SpliceInv, GotInOrder
  <2>4. /\ partial \in [Pids -> GoodPes(us, pes, seen) \cup {None}]
        /\ ~built => \A p \in Pids : partial[p] = None
        /\ ready \in Seq(GoodPackets(us, pes, seen)) /\ out \in Seq(GoodPackets(us, pes, seen))
    BY <1>2, <2>3 DEF InOrderInv, Reassembled
  <2>5. SUFFICES /\ partial' \in [Pids -> GoodPes(us, pes, seen) \cup {None}]
                 /\ ~built' => \A p \in Pids : partial'[p] = None
                 /\ ready' \in Seq(GoodPackets(us, pes, seen))
                 /\ out' \in Seq(GoodPackets(us, pes, seen))
                 /\ \/ rbuf' = <<Garbage>>
                    \/ /\ Buffered(us, seen, rbuf')
                       /\ \A p \in Pids : partial'[p] # None => Latest(seen, rbuf', p, partial'[p].data)
    BY <1>3, <2>1 DEF InOrderInv, Reassembled
  <2>6. \/ rbuf = <<Garbage>>
        \/ /\ Buffered(us, seen, rbuf)
           /\ \A p \in Pids : partial[p] # None => Latest(seen, rbuf, p, partial[p].data)
    BY <1>2, <2>3 DEF InOrderInv
  <2>7. CASE Idles
    BY <2>4, <2>6, <2>7 DEF Idles, Assembler, BufferRests
  <2>8. CASE Consumes
    <3>1. rbuf # <<>> /\ rbuf # <<Garbage>> /\ rbuf' = Tail(rbuf) /\ out' = out
      BY <2>8 DEF Consumes
    <3>2. Consume(pes, Head(rbuf))
      BY <1>2, <2>8 DEF Consumes
    <3>3. /\ Buffered(us, seen, rbuf)
          /\ \A p \in Pids : partial[p] # None => Latest(seen, rbuf, p, partial[p].data)
      BY <2>6, <3>1
    <3>4. Buffered(us, seen, Tail(rbuf))
      BY <3>1, <3>3, BufferDrains
    <3>5. /\ partial' \in [Pids -> GoodPes(us, pes, seen) \cup {None}]
          /\ ~built' => \A p \in Pids : partial'[p] = None
          /\ \A p \in Pids : partial'[p] # None => Latest(seen, Tail(rbuf), p, partial'[p].data)
          /\ ready' \in Seq(GoodPackets(us, pes, seen))
      BY <1>2, <2>4, <3>1, <3>2, <3>3, ConsumeKeeps
    <3> QED BY <2>4, <3>1, <3>4, <3>5
  <2>9. CASE HandsOn
    <3>1. ready' \in Seq(GoodPackets(us, pes, seen)) /\ out' \in Seq(GoodPackets(us, pes, seen))
      <4>1. Head(ready) \in GoodPackets(us, pes, seen) /\ Tail(ready) \in Seq(GoodPackets(us, pes, seen))
        BY <2>4, <2>9, HeadTailProperties DEF HandsOn
      <4> QED BY <2>4, <2>9, <4>1 DEF HandsOn
    <3> QED BY <2>4, <2>6, <2>9, <3>1 DEF HandsOn
  <2>10. CASE Flushes
    <3>1. ready' \in Seq(GoodPackets(us, pes, seen)) /\ partial' = [p \in Pids |-> None]
      BY <2>4, <2>10, FlushedGood DEF Flushes
    <3>2. out' = out /\ BufferRests
      BY <2>10 DEF Flushes
    <3> QED BY <2>4, <2>6, <3>1, <3>2 DEF BufferRests
  <2> QED BY <1>7, <2>7, <2>8, <2>9, <2>10
<1>8. ASSUME NEW i \in DOMAIN wire, Arrival(i) PROVE SpliceInv'
  <2>1. /\ rbuf = <<>> /\ rbuf' = wire[i].data /\ got' = Append(g, i)
        /\ partial' = partial /\ built' = built /\ ready' = ready /\ out' = out
    BY <1>5, <1>8 DEF Arrival, Recv, Refills, Assembler
  <2>2. PICK d : d = ds[i] /\ rbuf' = d /\ i \in DOMAIN ds
    BY <1>4, <1>5, <2>1 DEF Payloads
  <2> DEFINE more == {x \in TsPacketSet : Occurs(x, d)}
  <2>3. Append(g, i) \in Seq(DOMAIN ds) /\ got' \in Seq(DOMAIN Payloads')
    BY <1>1, <1>5, <2>1, <2>2
  <2>4. Seen' = seen \cup more
    <3>1. SeenOf(Payloads', Append(g, i)) = SeenOf(ds, Append(g, i))
      BY <1>1, <1>5, <2>3, SeenStays
    <3> QED BY <1>5, <2>1, <2>2, <3>1, SeenAdds DEF Seen
  <2>5. SUFFICES ASSUME GotInOrder' PROVE InOrderInv'
    BY <1>1, <2>3 DEF SpliceInv
  <2>6. GotInOrder /\ \A k \in DOMAIN g : g[k] < i
    <3>1. PICK m \in Nat : m = Len(g) /\ DOMAIN g = 1..m
      BY <1>5
    <3>2. PICK h : /\ h = Append(g, i) /\ DOMAIN h = 1..(m + 1)
                   /\ h[m + 1] = i /\ \A k \in 1..m : h[k] = g[k]
      <4>1. /\ DOMAIN Append(g, i) = 1..(Len(g) + 1) /\ Append(g, i)[Len(g) + 1] = i
            /\ \A k \in 1..Len(g) : Append(g, i)[k] = g[k]
        BY <1>5, <2>2, OneMore
      <4> QED BY <3>1, <4>1
    <3>3. \A j, k \in DOMAIN h : j < k => h[j] < h[k]
      BY <2>1, <2>5, <3>2 DEF GotInOrder
    <3>4. \A j, k \in DOMAIN g : j < k => g[j] < g[k]
      BY <3>1, <3>2, <3>3
    <3>5. \A k \in DOMAIN g : g[k] < i
      BY <3>1, <3>2, <3>3
    <3> QED BY <1>5, <3>4, <3>5 DEF GotInOrder
  <2>7. /\ partial \in [Pids -> GoodPes(us, pes, seen) \cup {None}]
        /\ ~built => \A p \in Pids : partial[p] = None
        /\ ready \in Seq(GoodPackets(us, pes, seen)) /\ out \in Seq(GoodPackets(us, pes, seen))
        /\ \A p \in Pids : partial[p] # None => Latest(seen, <<>>, p, partial[p].data)
    BY <1>2, <2>1, <2>6 DEF SpliceInv, InOrderInv, Reassembled
  <2>8. WireOrder(us, ds)
    BY <1>2, <1>5 DEF SpliceInv, WireInv
  <2>9. d \in Seq(PiecesOf(us)) /\ Climbs(d)
    BY <2>2, <2>8 DEF WireOrder
  <2>10. \A y \in seen : \A k \in DOMAIN d : UpTo(y, d[k])
    BY <1>5, <2>2, <2>6, <2>8, ArrivesLater
  <2>11. Buffered(us, seen \cup more, d)
    BY <1>2, <2>9, <2>10, BufferFills
  <2>12. \A y \in seen, z \in more : UpTo(y, z)
    BY <2>10 DEF Occurs
  <2>13. /\ GoodPes(us, pes, seen) \subseteq GoodPes(us, pes, seen \cup more)
         /\ GoodPackets(us, pes, seen) \subseteq GoodPackets(us, pes, seen \cup more)
    <3>1. more \in SUBSET TsPacketSet
      OBVIOUS
    <3> HIDE DEF more
    <3> QED BY <1>2, <2>12, <3>1, GoodStays
  <2>14. ASSUME NEW p \in Pids, partial[p] # None
         PROVE  Latest(seen \cup more, d, p, partial[p].data)
    <3>1. \A k \in DOMAIN partial[p].data : partial[p].data[k] \in seen
      BY <2>7, <2>14 DEF GoodPes, Headed
    <3>2. Latest(seen, <<>>, p, partial[p].data)
      BY <2>7, <2>14
    <3> QED BY <1>2, <2>10, <3>1, <3>2, LatestStays
  <2> HIDE DEF more
  <2>15. /\ partial' \in [Pids -> GoodPes(us, pes, seen \cup more) \cup {None}]
         /\ ready' \in Seq(GoodPackets(us, pes, seen \cup more))
         /\ out' \in Seq(GoodPackets(us, pes, seen \cup more))
    <3>1. \A s : s \in Seq(GoodPackets(us, pes, seen)) => s \in Seq(GoodPackets(us, pes, seen \cup more))
      BY <2>13, ElementOfSeq, SeqOverElements
    <3>2. partial \in [Pids -> GoodPes(us, pes, seen \cup more) \cup {None}]
      BY <2>7, <2>13
    <3> QED BY <2>1, <2>7, <3>1, <3>2
  <2> QED BY <1>3, <2>1, <2>2, <2>4, <2>7, <2>11, <2>14, <2>15 DEF InOrderInv, Reassembled
<1> QED BY <1>7, <1>8, ReceiverSteps

LEMMA SpliceInvariant == Spec => []SpliceInv
<1>1. Init => SpliceInv
  BY SpliceInit
<1> QED BY <1>1, SpliceNext, SendInvariant, PTL DEF Spec

\* For every number and size of units, every Pack and Window and everything the
\* network does to datagrams: what is received in order is returned under the
\* stamp of its unit, and spliced only to a unit whose successor lost its head.
THEOREM OnlyHeadlessAreSpliced == Spec => []SplicesOnlyHeadless
<1>1. ASSUME SendInv, SpliceInv PROVE SplicesOnlyHeadless
  <2> SUFFICES ASSUME GotInOrder, NEW n \in DOMAIN out
               PROVE  LET data == out[n].data
                          u == data[1].unit
                      IN  /\ data[1].piece = 1 /\ out[n].pts = PtsField(u)
                          /\ \A j, k \in DOMAIN data : j < k =>
                                \/ data[j].unit < data[k].unit
                                \/ data[j].unit = data[k].unit /\ data[j].piece <= data[k].piece
                          /\ \A k \in DOMAIN data : data[k].unit # u => ~GotUnit(data[k].unit, 1)
    BY DEF SplicesOnlyHeadless
  <2>1. out \in Seq(GoodPackets(units, Pes, Seen))
    BY <1>1 DEF SpliceInv, InOrderInv, Reassembled
  <2>2. out[n] \in GoodPackets(units, Pes, Seen)
    BY <2>1, ElementOfSeq
  <2>3. PICK data, u : data = out[n].data /\ u = data[1].unit /\ Headed(units, Pes, Seen, data, out[n].pts)
    BY <2>2 DEF GoodPackets
  <2>4. \A k \in DOMAIN data : data[k] \in PiecesOf(units) /\ data[k].pid \in Pids
    <3>1. data \in Seq(PiecesOf(units))
      BY <2>3 DEF Headed
    <3> QED BY <2>3, <3>1, ElementOfSeq DEF Headed
  <2>5. \A k \in DOMAIN data : data[k] \in TsPacketSet /\ data[k].unit \in DOMAIN units
                                /\ data[k].pid = units[data[k].unit].pid
    BY <2>4 DEF PiecesOf
  <2>6. data[1].piece = 1 /\ out[n].pts = PtsField(u)
    <3>1. 1 \in DOMAIN data
      <4>1. data \in Seq(PiecesOf(units)) /\ data # <<>>
        BY <2>3 DEF Headed
      <4> QED BY <4>1
    <3>2. Pes[u].pts = PtsField(u)
      BY <2>3, <2>5, <3>1 DEF Pes
    <3> QED BY <2>3, <3>2 DEF Headed
  <2>7. ASSUME NEW j \in DOMAIN data, NEW k \in DOMAIN data, j < k
        PROVE  \/ data[j].unit < data[k].unit
               \/ data[j].unit = data[k].unit /\ data[j].piece <= data[k].piece
    <3>1. UpTo(data[j], data[k])
      BY <2>3, <2>7 DEF Headed, Climbs
    <3>2. data[j].piece \in Nat /\ data[k].piece \in Nat
      BY <2>5 DEF TsPacketSet
    <3> QED BY <3>1, <3>2 DEF UpTo
  <2>8. ASSUME NEW k \in DOMAIN data, data[k].unit # u, GotUnit(data[k].unit, 1) PROVE FALSE
    <3>0. HeadOf(units, data[k].unit) \in TsPacketSet
      <4>1. data[k].pid \in Nat /\ data[k].unit \in Nat
        BY <2>5, <2>8 DEF TsPacketSet
      <4>2. units[data[k].unit].pid \in Nat
        BY <2>5, <4>1
      <4>3. \A a \in Nat, c \in Nat : [pid |-> a, unit |-> c, piece |-> 1] \in TsPacketSet
        BY DEF TsPacketSet
      <4> QED BY <4>1, <4>2, <4>3 DEF HeadOf, Ts
    <3>1. PICK h : h = HeadOf(units, data[k].unit) /\ h \in TsPacketSet
      BY <3>0
    <3>2. PICK m \in DOMAIN got : \E j \in DOMAIN wire[got[m]].data : wire[got[m]].data[j] = h
      BY <2>8, <3>1 DEF GotUnit, HeadOf
    <3>3. got[m] \in DOMAIN Payloads
      BY <1>1, ElementOfSeq DEF SpliceInv
    <3>4. Payloads[got[m]] = wire[got[m]].data
      BY <3>3 DEF Payloads
    <3>5. h \in Seen
      BY <3>1, <3>2, <3>4 DEF Seen, SeenOf, Occurs
    <3> QED BY <2>3, <2>8, <3>1, <3>5 DEF Headed
  <2> QED BY <2>3, <2>6, <2>7, <2>8
<1> QED BY <1>1, SendInvariant, SpliceInvariant, PTL

-----------------------------------------------------------------------------
(* RTMP, the media *)

TagUnits == [tag : Int, unit : Nat]
TagSet == [type : {8, 9}, ts : Nat, data : Seq(TagUnits)]
Headers == [part : {"header"}, type : {8, 9}, ts : Nat, size : Nat]
FlvTokens == {Rtmp!Signature, Rtmp!PrevSize} \cup Headers \cup TagUnits

Header(tag) == [part |-> "header", type |-> tag.type, ts |-> tag.ts, size |-> Len(tag.data)]

\* The parts of the tags.
PartsOf(tags) == [n \in DOMAIN tags |-> Rtmp!Parts(tags[n])]

\* The end of the FLV stream, from the size before tag k + 1 on.
Left(tags, k) == FlattenSeq(SubSeq(PartsOf(tags), k + 1, Len(tags))) \o <<Rtmp!PrevSize>>

\* A tag as the publisher finds it: with the size after it.
Framed(tag) == <<Header(tag)>> \o (tag.data \o <<Rtmp!PrevSize>>)

\* The same without that first size.
More(tags, k) == IF k = Len(tags) THEN <<>> ELSE Tail(Left(tags, k))

\* The operators of the instance are those of the modules they come from.
LEMMA SameFlatten == \A ss : Rtmp!FlattenSeq(ss) = FlattenSeq(ss)
  BY DEF Rtmp!FlattenSeq, FlattenSeq

LEMMA SameAscending == \A S : Rtmp!Ascending(S) = Ascending(S)
  BY DEF Rtmp!Ascending, Rtmp!InOrder, Rtmp!Place, Rtmp!Cardinality,
         Ascending, InOrder, Place, Cardinality

LEMMA PartsTyped ==
    ASSUME NEW tags \in Seq(TagSet)
    PROVE  /\ PartsOf(tags) \in Seq(Seq(FlvTokens)) /\ Len(PartsOf(tags)) = Len(tags)
           /\ \A n \in 1..Len(tags) :
                 /\ PartsOf(tags)[n] = <<Rtmp!PrevSize>> \o (<<Header(tags[n])>> \o tags[n].data)
                 /\ <<Header(tags[n])>> \o tags[n].data \in Seq(FlvTokens)
<1>1. PICK N \in Nat : N = Len(tags) /\ DOMAIN tags = 1..N /\ \A n \in 1..N : tags[n] \in TagSet
  BY ElementOfSeq
<1>2. ASSUME NEW tag \in TagSet
      PROVE  /\ Rtmp!Parts(tag) = <<Rtmp!PrevSize>> \o (<<Header(tag)>> \o tag.data)
             /\ Rtmp!Parts(tag) \in Seq(FlvTokens)
             /\ <<Header(tag)>> \o tag.data \in Seq(FlvTokens)
  <2>1. PICK data \in Seq(FlvTokens) : data = tag.data /\ Len(data) \in Nat
    <3>1. tag.data \in Seq(TagUnits)
      BY DEF TagSet
    <3>2. \A i \in 1..Len(tag.data) : tag.data[i] \in FlvTokens
      BY <3>1, ElementOfSeq DEF FlvTokens
    <3>3. tag.data \in Seq(FlvTokens)
      BY <3>1, <3>2, SeqOverElements
    <3> QED BY <3>3
  <2>2. PICK h \in FlvTokens : h = Header(tag)
    BY <2>1 DEF Header, Headers, FlvTokens, TagSet
  <2>3. PICK p \in FlvTokens : p = Rtmp!PrevSize
    BY DEF FlvTokens
  <2>4. /\ <<p, h>> = Append(<<p>>, h) /\ <<p>> \in Seq(FlvTokens) /\ <<p, h>> \in Seq(FlvTokens)
        /\ <<h>> \in Seq(FlvTokens)
    OBVIOUS
  <2>5. Append(<<p>>, h) \o data = <<p>> \o (<<h>> \o data)
    BY <2>4, AppendConcat
  <2>6. Rtmp!Parts(tag) = <<p, h>> \o data
    BY <2>1, <2>2, <2>3 DEF Rtmp!Parts, Header
  <2>7. <<p, h>> \o data \in Seq(FlvTokens) /\ <<h>> \o data \in Seq(FlvTokens)
    BY <2>4, ConcatProperties
  <2> QED BY <2>1, <2>2, <2>3, <2>4, <2>5, <2>6, <2>7
<1>3. PartsOf(tags) \in [1..N -> Seq(FlvTokens)]
  BY <1>1, <1>2 DEF PartsOf
<1>4. PartsOf(tags) \in Seq(Seq(FlvTokens)) /\ Len(PartsOf(tags)) = N
  BY <1>3, FunctionIsSeq
<1>5. \A n \in 1..N : PartsOf(tags)[n] = Rtmp!Parts(tags[n])
  BY <1>1 DEF PartsOf
<1> QED BY <1>1, <1>2, <1>4, <1>5

LEMMA LeftTyped ==
    ASSUME NEW tags \in Seq(TagSet), NEW k \in 0..Len(tags)
    PROVE  /\ Left(tags, k) \in Seq(FlvTokens)
           /\ FlattenSeq(SubSeq(PartsOf(tags), k + 1, Len(tags))) \in Seq(FlvTokens)
           /\ <<Rtmp!PrevSize>> \in Seq(FlvTokens)
<1>1. PICK parts \in Seq(Seq(FlvTokens)) : parts = PartsOf(tags) /\ Len(parts) = Len(tags)
  BY PartsTyped
<1>2. SubSeq(parts, k + 1, Len(parts)) \in Seq(Seq(FlvTokens))
  BY <1>1, FlattenSplit
<1>3. FlattenSeq(SubSeq(parts, k + 1, Len(parts))) \in Seq(FlvTokens)
  BY <1>2, FlattenType
<1>4. <<Rtmp!PrevSize>> \in Seq(FlvTokens)
  <2>1. Rtmp!PrevSize \in FlvTokens
    BY DEF FlvTokens
  <2> QED BY <2>1
<1>5. FlattenSeq(SubSeq(parts, k + 1, Len(parts))) \o <<Rtmp!PrevSize>> \in Seq(FlvTokens)
  BY <1>3, <1>4, ConcatProperties
<1> QED BY <1>1, <1>3, <1>4, <1>5 DEF Left

\* The end of the stream begins with a size.
LEMMA LeftBegins ==
    ASSUME NEW tags \in Seq(TagSet), NEW k \in 0..Len(tags)
    PROVE  /\ Left(tags, k) = <<Rtmp!PrevSize>> \o More(tags, k)
           /\ More(tags, k) \in Seq(FlvTokens)
           /\ k < Len(tags) =>
                 More(tags, k) = (<<Header(tags[k + 1])>> \o tags[k + 1].data) \o Left(tags, k + 1)
<1>0. PICK p \in FlvTokens : p = Rtmp!PrevSize
  BY DEF FlvTokens
<1>1. PICK N \in Nat : N = Len(tags)
  OBVIOUS
<1>2. PICK parts \in Seq(Seq(FlvTokens)) :
         /\ parts = PartsOf(tags) /\ Len(parts) = N
         /\ \A n \in 1..N : /\ parts[n] = <<p>> \o (<<Header(tags[n])>> \o tags[n].data)
                            /\ <<Header(tags[n])>> \o tags[n].data \in Seq(FlvTokens)
  BY <1>0, <1>1, PartsTyped
<1>3. p \in FlvTokens /\ <<p>> \in Seq(FlvTokens)
  OBVIOUS
<1>4. CASE k = N
  <2>1. SubSeq(parts, k + 1, N) = <<>>
    BY <1>2, <1>4, SubSeqEmpty
  <2>2. Left(tags, k) = <<>> \o <<p>>
    BY <1>1, <1>2, <2>1, <1>0, FlattenEmpty DEF Left
  <2>3. <<>> \o <<p>> = <<p>> /\ <<p>> \o <<>> = <<p>>
    BY <1>3, ConcatEmptySeq
  <2>4. More(tags, k) = <<>>
    BY <1>1, <1>4 DEF More
  <2>5. <<>> \in Seq(FlvTokens)
    BY EmptySeq
  <2>6. Left(tags, k) = <<p>> \o More(tags, k) /\ More(tags, k) \in Seq(FlvTokens)
    BY <2>2, <2>3, <2>4, <2>5
  <2>7. ~(k < Len(tags))
    BY <1>1, <1>4
  <2> QED BY <1>0, <2>6, <2>7, Zenon
<1>5. CASE k < N
  <2>1. k + 1 \in 1..N /\ (k + 1) + 1 = k + 2 /\ k + 1 \in 0..Len(tags)
    BY <1>1, <1>5
  <2>2. PICK body \in Seq(FlvTokens) : /\ body = <<Header(tags[k + 1])>> \o tags[k + 1].data
                                       /\ parts[k + 1] = <<p>> \o body
    BY <1>2, <2>1
  <2>3. FlattenSeq(SubSeq(parts, k + 1, N)) = (<<p>> \o body) \o FlattenSeq(SubSeq(parts, (k + 1) + 1, N))
    BY <1>2, <2>1, <2>2, FlattenNext
  <2>4. PICK rest \in Seq(FlvTokens) : rest = FlattenSeq(SubSeq(parts, (k + 1) + 1, N))
    BY <1>1, <1>2, <2>1, LeftTyped
  <2>5. Left(tags, k + 1) = rest \o <<p>> /\ Left(tags, k) = ((<<p>> \o body) \o rest) \o <<p>>
    BY <1>1, <1>2, <2>1, <2>3, <2>4, <1>0 DEF Left
  <2>6. ((<<p>> \o body) \o rest) \o <<p>> = <<p>> \o (body \o (rest \o <<p>>))
    <3>1. <<p>> \o body \in Seq(FlvTokens) /\ rest \o <<p>> \in Seq(FlvTokens)
      BY <1>3, ConcatProperties
    <3>2. ((<<p>> \o body) \o rest) \o <<p>> = (<<p>> \o body) \o (rest \o <<p>>)
      BY <1>3, <3>1, ConcatAssociative
    <3>3. (<<p>> \o body) \o (rest \o <<p>>) = <<p>> \o (body \o (rest \o <<p>>))
      BY <1>3, <3>1, ConcatAssociative
    <3> QED BY <3>2, <3>3
  <2>7. PICK more \in Seq(FlvTokens) : more = body \o (rest \o <<p>>)
    <3>1. rest \o <<p>> \in Seq(FlvTokens)
      BY <1>3, ConcatProperties
    <3> QED BY <3>1, ConcatProperties
  <2>8. Tail(<<p>> \o more) = more
    <3>1. Tail(<<p>> \o more) \in Seq(FlvTokens) /\ Len(Tail(<<p>> \o more)) = Len(more)
      BY <1>3
    <3>2. \A i \in 1..Len(more) : Tail(<<p>> \o more)[i] = more[i]
      BY <1>3
    <3> QED BY <3>1, <3>2, SeqEqual
  <2>9. More(tags, k) = more
    <3>1. Left(tags, k) = <<p>> \o more
      BY <2>5, <2>6, <2>7, Zenon
    <3>2. k # Len(tags)
      BY <1>1, <1>5
    <3> QED BY <2>8, <3>1, <3>2, Zenon DEF More
  <2> QED BY <1>0, <1>1, <1>5, <2>2, <2>5, <2>6, <2>7, <2>9, Zenon
<1>6. k = N \/ k < N
  BY <1>1
<1> QED BY <1>4, <1>5, <1>6, Zenon

LEMMA TagTyped ==
    ASSUME NEW media \in Rtmp!Media, NEW ts \in Int, NEW id \in Int, NEW size \in Nat
    PROVE  Rtmp!Tag(media, ts, id, size) \in TagSet
<1>1. PICK t \in Nat : t = (IF ts < 0 THEN 0 ELSE ts) % TagMod
  <2>1. (IF ts < 0 THEN 0 ELSE ts) \in Int /\ TagMod \in Nat \ {0}
    BY PublisherAssumption
  <2> QED BY <2>1
<1>2. [k \in 1..size |-> [tag |-> id, unit |-> k]] \in Seq(TagUnits)
  <2>1. [k \in 1..size |-> [tag |-> id, unit |-> k]] \in [1..size -> TagUnits]
    BY DEF TagUnits
  <2> QED BY <2>1, FunctionIsSeq
<1> QED BY <1>1, <1>2 DEF Rtmp!Tag, Rtmp!TypeOf, TagSet

\* Every packet becomes a tag, and so does the extradata of a stream.
LEMMA TagsTyped ==
    ASSUME NEW job \in Jobs, job # None
    PROVE  Rtmp!Tags(job) \in Seq(TagSet)
<1>1. job \in Seq([media : Rtmp!Media, pts : Stamps, dts : Stamps, size : Nat])
  BY PublisherAssumption
<1>2. PICK n \in Nat : n = Len(job) /\ DOMAIN job = 1..n
  BY <1>1
<1>3. ASSUME NEW i \in 1..n PROVE Rtmp!PacketTag(job[i], i) \in TagSet
  <2>1. PICK p \in [media : Rtmp!Media, pts : Stamps, dts : Stamps, size : Nat] : p = job[i]
    <3>1. i \in 1..Len(job)
      BY <1>2
    <3>2. job[i] \in [media : Rtmp!Media, pts : Stamps, dts : Stamps, size : Nat]
      BY <1>1, <3>1, ElementOfSeq, Zenon
    <3> QED BY <3>2, Zenon
  <2>2. PICK ts \in Int : ts = IF p.media = "video" THEN Rtmp!Or(Rtmp!Or(p.dts, p.pts), 0)
                               ELSE Rtmp!Or(p.pts, 0)
    BY DEF Rtmp!Or, Stamps
  <2>3. Rtmp!Tag(p.media, ts, i, p.size) \in TagSet
    BY TagTyped
  <2> QED BY <2>1, <2>2, <2>3 DEF Rtmp!PacketTag
<1>4. [i \in DOMAIN job |-> Rtmp!PacketTag(job[i], i)] \in Seq(TagSet)
  <2>1. [i \in 1..n |-> Rtmp!PacketTag(job[i], i)] \in [1..n -> TagSet]
    BY <1>3
  <2>2. [i \in 1..n |-> Rtmp!PacketTag(job[i], i)] \in Seq(TagSet)
    BY <2>1, FunctionIsSeq
  <2> QED BY <1>2, <2>2
<1>5. Rtmp!SequenceHeaders \in Seq(TagSet)
  <2>1. PICK N \in Nat : N = Len(Config) /\ DOMAIN Config = 1..N
    BY PublisherAssumption
  <2> DEFINE with == {k \in DOMAIN Config : Config[k].size > 0}
  <2>2. with \subseteq 1..N
    BY <2>1
  <2>3. PICK some \in Seq(1..N) : some = Rtmp!Ascending(with)
    <3>1. Ascending(with) \in Seq(1..N)
      BY <2>2, AscendingLists
    <3> QED BY <3>1, SameAscending
  <2>4. PICK m \in Nat : m = Len(some) /\ DOMAIN some = 1..m /\ \A k \in 1..m : some[k] \in 1..N
    BY ElementOfSeq
  <2>5. \A k \in 1..m : Rtmp!Tag(Config[some[k]].media, 0, 0 - k, Config[some[k]].size) \in TagSet
    <3> SUFFICES ASSUME NEW k \in 1..m
                 PROVE  Rtmp!Tag(Config[some[k]].media, 0, 0 - k, Config[some[k]].size) \in TagSet
      OBVIOUS
    <3>1. Config[some[k]] \in [media : Rtmp!Media, size : Nat]
      <4>1. some[k] \in 1..Len(Config)
        BY <2>1, <2>4
      <4>2. Config \in Seq([media : Rtmp!Media, size : Nat])
        BY PublisherAssumption
      <4> QED BY <4>1, <4>2, ElementOfSeq, Zenon
    <3>2. Config[some[k]].media \in Rtmp!Media /\ Config[some[k]].size \in Nat /\ 0 - k \in Int /\ 0 \in Int
      BY <3>1
    <3> QED BY <3>2, TagTyped
  <2>6. [k \in 1..m |-> Rtmp!Tag(Config[some[k]].media, 0, 0 - k, Config[some[k]].size)] \in Seq(TagSet)
    <3>1. [k \in 1..m |-> Rtmp!Tag(Config[some[k]].media, 0, 0 - k, Config[some[k]].size)] \in [1..m -> TagSet]
      BY <2>5
    <3> QED BY <3>1, FunctionIsSeq
  <2> HIDE DEF with
  <2>7. Rtmp!SequenceHeaders = [k \in 1..m |-> Rtmp!Tag(Config[some[k]].media, 0, 0 - k, Config[some[k]].size)]
    BY <2>3, <2>4 DEF with, Rtmp!SequenceHeaders
  <2> QED BY <2>6, <2>7
<1>6. (IF job = <<>> THEN <<>> ELSE Rtmp!SequenceHeaders) \in Seq(TagSet)
  <2>1. <<>> \in Seq(TagSet)
    BY EmptySeq
  <2> QED BY <1>5, <2>1
<1> QED BY <1>4, <1>6, ConcatProperties DEF Rtmp!Tags

\* All that the muxer writes is the signature and what is left after it.
LEMMA OutputFramed ==
    ASSUME NEW job \in Jobs, job # None
    PROVE  /\ Rtmp!Output(job) = <<Rtmp!Signature>> \o Left(Rtmp!Tags(job), 0)
           /\ Rtmp!Output(job) \in Seq(FlvTokens)
<1>1. PICK tags \in Seq(TagSet) : tags = Rtmp!Tags(job)
  BY TagsTyped
<1>2. PICK parts \in Seq(Seq(FlvTokens)) : parts = PartsOf(tags) /\ Len(parts) = Len(tags)
  BY PartsTyped
<1>3. SubSeq(parts, 0 + 1, Len(tags)) = parts
  BY <1>2, SubSeqFull
<1>4. PICK s \in Seq(FlvTokens), f \in Seq(FlvTokens), p \in Seq(FlvTokens) :
         s = <<Rtmp!Signature>> /\ f = FlattenSeq(parts) /\ p = <<Rtmp!PrevSize>>
  <2>1. FlattenSeq(parts) \in Seq(FlvTokens)
    BY FlattenType
  <2>2. <<Rtmp!Signature>> \in Seq(FlvTokens) /\ <<Rtmp!PrevSize>> \in Seq(FlvTokens)
    <3>1. Rtmp!Signature \in FlvTokens /\ Rtmp!PrevSize \in FlvTokens
      BY DEF FlvTokens
    <3> QED BY <3>1
  <2> QED BY <2>1, <2>2
<1>5. Rtmp!Output(job) = s \o f \o p
  <2>1. Rtmp!Output(job) = Rtmp!Flv(job)
    BY DEF Rtmp!Output
  <2>2. Rtmp!Flv(job) = <<Rtmp!Signature>> \o Rtmp!FlattenSeq(PartsOf(tags)) \o <<Rtmp!PrevSize>>
    BY <1>1 DEF Rtmp!Flv, PartsOf
  <2> QED BY <1>2, <1>4, <2>1, <2>2, SameFlatten
<1>6. Left(tags, 0) = f \o p
  BY <1>2, <1>3, <1>4 DEF Left
<1>7. s \o f \o p = s \o (f \o p) /\ s \o f \o p \in Seq(FlvTokens)
  <2>1. s \o f \in Seq(FlvTokens)
    BY ConcatProperties
  <2> QED BY <2>1, ConcatProperties, ConcatAssociative
<1> QED BY <1>1, <1>4, <1>5, <1>6, <1>7

\* The tags of the job, and the messages of the first k of them.
Tagged == IF packets = None THEN <<>> ELSE Rtmp!Tags(packets)
Heard(tags, k) == [n \in 1..k |-> Rtmp!Message(tags[n].type, tags[n].ts, tags[n].data)]

Early == rtmpPhase \in {"handshake", "connect", "createStream"}

\* What is pending and unwritten is the stream from some tag on, and the server
\* was sent the tags before it.
TagInv ==
    /\ packets \in Jobs
    /\ tagBytes \in Seq(FlvTokens) /\ unwritten \in Seq(FlvTokens)
    /\ Early => ~sawHeader
    /\ ~sawHeader => heard = <<>> /\ tagBytes \o unwritten = Rtmp!Output(packets)
    /\ sawHeader =>
          /\ packets # None
          /\ \E k \in 0..Len(Tagged) :
                /\ tagBytes \o unwritten = More(Tagged, k)
                /\ \E h \in 0..k : heard = Heard(Tagged, h) /\ (open => h = k)
    /\ (rtmpPhase = "done" /\ open) => Len(heard) = Len(Tagged)

\* The steps that leave the media alone.
MediaRest ==
    /\ UNCHANGED <<packets, unwritten, tagBytes, sawHeader, heard>>
    /\ open' = open \/ open' = FALSE
    /\ streamId' = streamId \/ Early
    /\ Early' => Early
    /\ rtmpPhase' = "done" => rtmpPhase = "done"

MediaStep ==
    \/ MediaRest
    \/ \E n \in 1..Len(unwritten) : Rtmp!Write(n)
    \/ Rtmp!PumpSignature \/ Rtmp!PumpTag \/ Rtmp!Flush

LEMMA OnlyMediaSteps ==
    ASSUME [Next]_vars
    PROVE  MediaStep
<1>1. ASSUME Rtmp!Handshake \/ Rtmp!HandshakeFails \/ Rtmp!ParseChunk
             \/ Rtmp!NoReplyYet \/ Rtmp!ClosedDuring \/ Rtmp!Deadline \/ Rtmp!ServerCloses
             \/ Rtmp!ServerStalls
      PROVE  MediaRest
  BY <1>1 DEF Rtmp!Handshake, Rtmp!HandshakeFails, Rtmp!ParseChunk, Rtmp!NoReplyYet,
              Rtmp!ClosedDuring, Rtmp!Deadline, Rtmp!ServerCloses, Rtmp!ServerStalls, Rtmp!Ask, Rtmp!FreshReader,
              Rtmp!readerVars, Rtmp!serverVars, Rtmp!flvVars, Rtmp!Awaiting, MediaRest, Early
<1>2. ASSUME Rtmp!Replied PROVE MediaRest
  BY <1>2 DEF Rtmp!Replied, Rtmp!Ask, Rtmp!FreshReader, Rtmp!Awaiting, Rtmp!NextPhase,
              Rtmp!serverVars, Rtmp!flvVars, MediaRest, Early
<1>3. ASSUME NEW n \in 1..Len(inbox), Rtmp!Read(n) PROVE MediaRest
  BY <1>3 DEF Rtmp!Read, Rtmp!flvVars, Rtmp!Awaiting, MediaRest, Early
<1>4. ASSUME UNCHANGED rtmpVars PROVE MediaRest
  BY <1>4 DEF rtmpVars, MediaRest, Early
<1>5. ASSUME Rtmp!Next PROVE MediaStep
  BY <1>1, <1>2, <1>3, <1>5 DEF Rtmp!Next, Rtmp!Publisher, MediaStep
<1>6. Rtmp!Next \/ UNCHANGED rtmpVars
  BY DEF Next, Udp, Publishing, Browsing, vars
<1> QED BY <1>4, <1>5, <1>6 DEF MediaStep

LEMMA TagInit == Init => TagInv
<1> SUFFICES ASSUME Init PROVE TagInv
  OBVIOUS
<1>1. /\ packets \in Jobs /\ unwritten = Rtmp!Output(packets) /\ tagBytes = <<>>
      /\ sawHeader = FALSE /\ heard = <<>> /\ rtmpPhase = "handshake"
  BY DEF Init, Rtmp!Init
<1>2. Rtmp!Output(packets) \in Seq(FlvTokens)
  <2>1. ASSUME packets = None PROVE Rtmp!Output(packets) \in Seq(FlvTokens)
    <3>1. Rtmp!PrevSize \in FlvTokens
      BY DEF FlvTokens
    <3> QED BY <2>1, <3>1 DEF Rtmp!Output
  <2> QED BY <1>1, <2>1, OutputFramed
<1>3. <<>> \in Seq(FlvTokens) /\ <<>> \o Rtmp!Output(packets) = Rtmp!Output(packets)
  <2>1. <<>> \in Seq(FlvTokens)
    BY EmptySeq
  <2> QED BY <1>2, <2>1, ConcatEmptySeq
<1> QED BY <1>1, <1>2, <1>3 DEF TagInv

\* The tags and the messages made of them stay.
LEMMA TagsStay ==
    ASSUME packets' = packets
    PROVE  /\ Tagged' = Tagged /\ Rtmp!Output(packets)' = Rtmp!Output(packets)
           /\ \A k : More(Tagged, k)' = More(Tagged, k)
           /\ streamId' = streamId => \A k : Heard(Tagged, k)' = Heard(Tagged, k)
<1>1. Tagged' = Tagged
  BY DEF Tagged
<1>2. streamId' = streamId => \A k : Heard(Tagged, k)' = Heard(Tagged, k)
  BY <1>1 DEF Heard, Rtmp!Message
<1> QED BY <1>1, <1>2

LEMMA RestKeeps == TagInv /\ MediaRest => TagInv'
<1> SUFFICES ASSUME TagInv, MediaRest PROVE TagInv'
  OBVIOUS
<1>1. Tagged' = Tagged /\ Rtmp!Output(packets)' = Rtmp!Output(packets)
  BY TagsStay DEF MediaRest
<1>2. ASSUME sawHeader'
      PROVE  \E k \in 0..Len(Tagged) :
                /\ tagBytes \o unwritten = More(Tagged, k)
                /\ \E h \in 0..k : heard = Heard(Tagged, h)' /\ (open' => h = k)
  <2>1. sawHeader /\ streamId' = streamId
    BY <1>2 DEF TagInv, MediaRest
  <2>2. \A h : Heard(Tagged, h)' = Heard(Tagged, h)
    BY <2>1, TagsStay DEF MediaRest
  <2>3. open' => open
    BY DEF MediaRest
  <2> QED BY <2>1, <2>2, <2>3 DEF TagInv
<1>3. ASSUME sawHeader'
      PROVE  \E k \in 0..Len(Tagged') :
                /\ tagBytes' \o unwritten' = More(Tagged, k)'
                /\ \E h \in 0..k : heard' = Heard(Tagged, h)' /\ (open' => h = k)
  <2>1. \A k : More(Tagged, k)' = More(Tagged, k)
    BY TagsStay DEF MediaRest
  <2> QED BY <1>1, <1>2, <1>3, <2>1 DEF MediaRest
<1>4. (rtmpPhase' = "done" /\ open') => Len(heard') = Len(Tagged')
  BY <1>1 DEF TagInv, MediaRest
<1>5. ~sawHeader' => heard' = <<>> /\ tagBytes' \o unwritten' = Rtmp!Output(packets)'
  BY <1>1 DEF TagInv, MediaRest
<1>6. packets' \in Jobs /\ tagBytes' \in Seq(FlvTokens) /\ unwritten' \in Seq(FlvTokens)
      /\ (Early' => ~sawHeader') /\ (sawHeader' => packets' # None)
  BY DEF TagInv, MediaRest
<1> QED BY <1>3, <1>4, <1>5, <1>6 DEF TagInv

\* A write moves bytes of the muxer over to the publisher.
LEMMA WriteKeeps ==
    ASSUME TagInv, NEW n \in 1..Len(unwritten), Rtmp!Write(n)
    PROVE  TagInv'
<1>1. /\ rtmpPhase = "live" /\ tagBytes' = tagBytes \o SubSeq(unwritten, 1, n)
      /\ unwritten' = SubSeq(unwritten, n + 1, Len(unwritten))
      /\ UNCHANGED <<rtmpPhase, open, streamId, packets, sawHeader, heard>>
  BY DEF Rtmp!Write, Rtmp!serverVars
<1>2. /\ tagBytes' \in Seq(FlvTokens) /\ unwritten' \in Seq(FlvTokens)
      /\ tagBytes' \o unwritten' = tagBytes \o unwritten
  <2>1. PICK b \in Seq(FlvTokens), u \in Seq(FlvTokens) : b = tagBytes /\ u = unwritten
    BY DEF TagInv
  <2>2. n \in 0..Len(u)
    BY <2>1
  <2>3. PICK v \in Seq(FlvTokens), w \in Seq(FlvTokens) :
           v = SubSeq(u, 1, n) /\ w = SubSeq(u, n + 1, Len(u)) /\ v \o w = u
    <3>1. /\ SubSeq(u, 1, n) \in Seq(FlvTokens) /\ SubSeq(u, n + 1, Len(u)) \in Seq(FlvTokens)
          /\ SubSeq(u, 1, n) \o SubSeq(u, n + 1, Len(u)) = u
      BY <2>2, TwoPortions, Zenon
    <3> QED BY <3>1, Zenon
  <2>4. tagBytes' = b \o v /\ unwritten' = w
    BY <1>1, <2>1, <2>3
  <2>5. b \o v \in Seq(FlvTokens) /\ (b \o v) \o w = b \o (v \o w)
    BY ConcatProperties, ConcatAssociative
  <2> QED BY <2>1, <2>3, <2>4, <2>5
<1>3. Tagged' = Tagged /\ Rtmp!Output(packets)' = Rtmp!Output(packets)
      /\ (\A k : More(Tagged, k)' = More(Tagged, k)) /\ (\A k : Heard(Tagged, k)' = Heard(Tagged, k))
  BY <1>1, TagsStay
<1>4. ASSUME sawHeader
      PROVE  \E k \in 0..Len(Tagged') :
                /\ tagBytes' \o unwritten' = More(Tagged, k)'
                /\ \E h \in 0..k : heard' = Heard(Tagged, h)' /\ (open' => h = k)
  BY <1>1, <1>2, <1>3, <1>4 DEF TagInv
<1>5. Early' => ~sawHeader'
  BY <1>1 DEF Early
<1>6. ~sawHeader' => heard' = <<>> /\ tagBytes' \o unwritten' = Rtmp!Output(packets)'
  BY <1>1, <1>2, <1>3 DEF TagInv
<1> QED BY <1>1, <1>2, <1>4, <1>5, <1>6 DEF TagInv

LEMMA TaggedTyped ==
    ASSUME packets \in Jobs
    PROVE  Tagged \in Seq(TagSet)
<1>1. <<>> \in Seq(TagSet)
  BY EmptySeq
<1> QED BY <1>1, TagsTyped DEF Tagged

\* The signature and the size after it are taken off, if the job is FLV.
LEMMA SignatureKeeps ==
    ASSUME TagInv, Rtmp!PumpSignature
    PROVE  TagInv'
<1>1. /\ rtmpPhase = "live" /\ ~sawHeader /\ Len(tagBytes) >= 2 /\ heard = <<>>
      /\ tagBytes \o unwritten = Rtmp!Output(packets) /\ packets \in Jobs
      /\ UNCHANGED <<open, streamId, packets, unwritten, heard>>
  BY DEF Rtmp!PumpSignature, Rtmp!SignatureReady, Rtmp!serverVars, TagInv
<1>2. CASE tagBytes[1] # Rtmp!Signature
  <2>1. rtmpPhase' = "not FLV" /\ UNCHANGED <<sawHeader, tagBytes>>
    BY <1>2 DEF Rtmp!PumpSignature
  <2>2. MediaRest
    BY <1>1, <2>1 DEF MediaRest, Early
  <2> QED BY <2>2, RestKeeps
<1>3. CASE tagBytes[1] = Rtmp!Signature
  <2>1. /\ sawHeader' = TRUE /\ rtmpPhase' = rtmpPhase
        /\ tagBytes' = SubSeq(tagBytes, 3, Len(tagBytes))
    BY <1>3 DEF Rtmp!PumpSignature
  <2>2. PICK b \in Seq(FlvTokens), u \in Seq(FlvTokens) : b = tagBytes /\ u = unwritten
    BY DEF TagInv
  <2>3. b \o u = Rtmp!Output(packets) /\ b[1] = Rtmp!Signature /\ Len(b) >= 2
    BY <1>1, <1>3, <2>2
  <2>4. packets # None
    <3>1. SUFFICES ASSUME packets = None PROVE FALSE
      OBVIOUS
    <3>2. b \o u = <<Rtmp!PrevSize, Rtmp!PrevSize>>
      BY <2>3, <3>1 DEF Rtmp!Output
    <3>3. (b \o u)[1] = b[1]
      BY <2>3
    <3>4. Rtmp!Signature = Rtmp!PrevSize
      BY <2>3, <3>2, <3>3
    <3> QED BY <3>4 DEF Rtmp!Signature, Rtmp!PrevSize
  <2>5. PICK tags \in Seq(TagSet) : tags = Tagged /\ tags = Rtmp!Tags(packets)
    BY <1>1, <2>4, TaggedTyped DEF Tagged
  <2>6. PICK more \in Seq(FlvTokens) : more = More(tags, 0) /\ Left(tags, 0) = <<Rtmp!PrevSize>> \o more
    <3>1. 0 \in 0..Len(tags)
      OBVIOUS
    <3> QED BY <3>1, LeftBegins, Zenon
  <2>7. PICK c \in Seq(FlvTokens) : c = <<Rtmp!Signature, Rtmp!PrevSize>> /\ Len(c) = 2
    <3>1. PICK s \in FlvTokens, p \in FlvTokens : s = Rtmp!Signature /\ p = Rtmp!PrevSize
      BY DEF FlvTokens
    <3>2. <<s, p>> \in Seq(FlvTokens) /\ Len(<<s, p>>) = 2
      OBVIOUS
    <3> QED BY <3>1, <3>2, Zenon
  <2>8. b \o u = c \o more
    <3>1. PICK s \in FlvTokens, p \in FlvTokens : s = Rtmp!Signature /\ p = Rtmp!PrevSize
      BY DEF FlvTokens
    <3>2. <<s>> \in Seq(FlvTokens) /\ <<p>> \in Seq(FlvTokens) /\ <<s, p>> = Append(<<s>>, p)
      OBVIOUS
    <3>3. Append(<<s>>, p) \o more = <<s>> \o (<<p>> \o more)
      BY <3>2, AppendConcat
    <3>4. b \o u = <<s>> \o (<<p>> \o more)
      BY <1>1, <2>3, <2>4, <2>5, <2>6, <3>1, OutputFramed
    <3> QED BY <2>7, <3>1, <3>2, <3>3, <3>4
  <2>9. SubSeq(b, 3, Len(b)) \in Seq(FlvTokens) /\ SubSeq(b, 3, Len(b)) \o u = more
    <3>1. /\ SubSeq(b, Len(c) + 1, Len(b)) \in Seq(FlvTokens)
          /\ SubSeq(b, Len(c) + 1, Len(b)) \o u = more
      <4>1. Len(b) >= Len(c)
        BY <2>3, <2>7
      <4>2. MadeOf(b \o u, b, u) /\ MadeOf(b \o u, c, more)
        BY <2>8, Zenon DEF MadeOf
      <4>3. SubSeq(b, Len(c) + 1, Len(b)) \in Seq(FlvTokens) /\ MadeOf(more, SubSeq(b, Len(c) + 1, Len(b)), u)
        BY <2>2, <2>6, <2>7, <4>1, <4>2, LongerBeginning, Zenon
      <4> QED BY <4>3 DEF MadeOf
    <3> QED BY <2>7, <3>1
  <2>10. tagBytes' \in Seq(FlvTokens) /\ tagBytes' \o unwritten' = More(Tagged, 0)'
    <3>1. More(Tagged, 0)' = More(Tagged, 0)
      BY <1>1, TagsStay
    <3> QED BY <1>1, <2>1, <2>2, <2>5, <2>6, <2>9, <3>1
  <2>11. heard' = Heard(Tagged, 0)'
    <3>1. Heard(Tagged, 0)' = <<>>
      BY DEF Heard
    <3> QED BY <1>1, <3>1
  <2>12. 0 \in 0..Len(Tagged')
    <3>1. Tagged' = Tagged
      BY <1>1, TagsStay
    <3> QED BY <2>5, <3>1
  <2>13. \E k \in 0..Len(Tagged') :
            /\ tagBytes' \o unwritten' = More(Tagged, k)'
            /\ \E h \in 0..k : heard' = Heard(Tagged, h)' /\ (open' => h = k)
    <3>1. 0 \in 0..0
      OBVIOUS
    <3> QED BY <2>10, <2>11, <2>12, <3>1
  <2>14. ~Early'
    BY <1>1, <2>1 DEF Early
  <2> QED BY <1>1, <2>1, <2>2, <2>4, <2>10, <2>13, <2>14 DEF TagInv
<1> QED BY <1>2, <1>3

\* A whole tag at the beginning: its header, its data and the size after it.
LEMMA FramedParts ==
    ASSUME NEW tag \in TagSet
    PROVE  /\ Framed(tag) \in Seq(FlvTokens) /\ Len(Framed(tag)) = Len(tag.data) + 2
           /\ Framed(tag)[1] = Header(tag) /\ Header(tag).size = Len(tag.data)
           /\ SubSeq(Framed(tag), 2, 1 + Len(tag.data)) = tag.data
<1>1. PICK data \in Seq(FlvTokens), N \in Nat : data = tag.data /\ Len(data) = N /\ DOMAIN data = 1..N
  <2>1. tag.data \in Seq(TagUnits)
    BY DEF TagSet
  <2>2. \A i \in 1..Len(tag.data) : tag.data[i] \in FlvTokens
    BY <2>1, ElementOfSeq DEF FlvTokens
  <2>3. tag.data \in Seq(FlvTokens)
    BY <2>1, <2>2, SeqOverElements
  <2> QED BY <2>3
<1>2. PICK h \in FlvTokens, p \in FlvTokens : h = Header(tag) /\ p = Rtmp!PrevSize
  BY <1>1 DEF FlvTokens, Header, Headers, TagSet
<1>3. <<h>> \in Seq(FlvTokens) /\ <<p>> \in Seq(FlvTokens) /\ Len(<<h>>) = 1 /\ Len(<<p>>) = 1
  OBVIOUS
<1>4. PICK tail \in Seq(FlvTokens) :
         /\ tail = data \o <<p>> /\ Len(tail) = N + 1 /\ \A i \in 1..N : tail[i] = data[i]
  <2>1. data \o <<p>> \in Seq(FlvTokens) /\ Len(data \o <<p>>) = N + 1
        /\ \A i \in 1..N : (data \o <<p>>)[i] = data[i]
    BY <1>1, <1>3, ConcatProperties
  <2> QED BY <2>1
<1>5. PICK f \in Seq(FlvTokens) :
         /\ f = <<h>> \o tail /\ Len(f) = N + 2 /\ f[1] = h /\ \A i \in 1..(N + 1) : f[i + 1] = tail[i]
  <2>1. <<h>> \o tail \in Seq(FlvTokens) /\ Len(<<h>> \o tail) = N + 2
        /\ (<<h>> \o tail)[1] = h /\ \A i \in 1..(N + 1) : (<<h>> \o tail)[i + 1] = tail[i]
    BY <1>3, <1>4, ConcatProperties
  <2> QED BY <2>1
<1>6. Framed(tag) = f
  BY <1>1, <1>2, <1>4, <1>5 DEF Framed
<1>7. SubSeq(f, 2, 1 + N) = data
  <2>1. SubSeq(f, 2, 1 + N) \in Seq(FlvTokens) /\ Len(SubSeq(f, 2, 1 + N)) = N
        /\ \A i \in 1..N : SubSeq(f, 2, 1 + N)[i] = f[i + 1]
    BY <1>5
  <2>2. \A i \in 1..N : SubSeq(f, 2, 1 + N)[i] = data[i]
    BY <1>4, <1>5, <2>1
  <2> QED BY <1>1, <2>1, <2>2, SeqEqual
<1>8. Header(tag).size = N
  BY <1>1 DEF Header
<1> QED BY <1>1, <1>2, <1>5, <1>6, <1>7, <1>8

\* What is left before the last tag begins with a whole one.
LEMMA MoreIsFramed ==
    ASSUME NEW tags \in Seq(TagSet), NEW k \in 0..Len(tags), k < Len(tags)
    PROVE  /\ More(tags, k) = Framed(tags[k + 1]) \o More(tags, k + 1)
           /\ More(tags, k + 1) \in Seq(FlvTokens) /\ tags[k + 1] \in TagSet
<1>1. k + 1 \in 0..Len(tags) /\ k + 1 \in 1..Len(tags)
  OBVIOUS
<1>2. PICK tag \in TagSet : tag = tags[k + 1]
  BY <1>1, ElementOfSeq
<1>3. PICK h \in FlvTokens, p \in FlvTokens, data \in Seq(FlvTokens) :
         h = Header(tag) /\ p = Rtmp!PrevSize /\ data = tag.data
  <2>1. tag.data \in Seq(TagUnits)
    BY DEF TagSet
  <2>2. \A i \in 1..Len(tag.data) : tag.data[i] \in FlvTokens
    BY <2>1, ElementOfSeq DEF FlvTokens
  <2>3. tag.data \in Seq(FlvTokens)
    BY <2>1, <2>2, SeqOverElements
  <2>4. Header(tag) \in FlvTokens /\ Rtmp!PrevSize \in FlvTokens
    BY <2>1 DEF FlvTokens, Header, Headers, TagSet
  <2> QED BY <2>3, <2>4
<1>4. PICK more \in Seq(FlvTokens) : more = More(tags, k + 1) /\ Left(tags, k + 1) = <<p>> \o more
  <2>1. More(tags, k + 1) \in Seq(FlvTokens) /\ Left(tags, k + 1) = <<Rtmp!PrevSize>> \o More(tags, k + 1)
    BY <1>1, LeftBegins, Zenon
  <2> QED BY <1>3, <2>1, Zenon
<1>5. More(tags, k) = (<<h>> \o data) \o (<<p>> \o more)
  <2>1. More(tags, k) = (<<Header(tags[k + 1])>> \o tags[k + 1].data) \o Left(tags, k + 1)
    BY LeftBegins, Zenon
  <2> QED BY <1>2, <1>3, <1>4, <2>1, Zenon
<1>6. (<<h>> \o data) \o (<<p>> \o more) = (<<h>> \o (data \o <<p>>)) \o more
  <2>1. <<h>> \in Seq(FlvTokens) /\ <<p>> \in Seq(FlvTokens)
    OBVIOUS
  <2>2. MadeOf((<<h>> \o data) \o (<<p>> \o more), <<h>> \o (data \o <<p>>), more)
    BY <1>3, <1>4, <2>1, Regrouped, Zenon
  <2> QED BY <2>2, Zenon DEF MadeOf
<1>7. Framed(tag) = <<h>> \o (data \o <<p>>)
  BY <1>3 DEF Framed
<1> QED BY <1>2, <1>4, <1>5, <1>6, <1>7

\* One message more is the messages of one tag more.
LEMMA HeardGrows ==
    ASSUME NEW tags, NEW k \in Nat
    PROVE  Append(Heard(tags, k), Rtmp!Message(tags[k + 1].type, tags[k + 1].ts, tags[k + 1].data))
               = Heard(tags, k + 1)
<1> DEFINE M(n) == Rtmp!Message(tags[n].type, tags[n].ts, tags[n].data)
           S == {M(n) : n \in 1..(k + 1)}
<1> HIDE DEF M
<1>1. [n \in 1..k |-> M(n)] \in [1..k -> S] /\ [n \in 1..(k + 1) |-> M(n)] \in [1..(k + 1) -> S]
      /\ M(k + 1) \in S
  OBVIOUS
<1> HIDE DEF S
<1>2. PICK h \in Seq(S), g \in Seq(S), m \in S :
         /\ h = [n \in 1..k |-> M(n)] /\ Len(h) = k
         /\ g = [n \in 1..(k + 1) |-> M(n)] /\ Len(g) = k + 1 /\ m = M(k + 1)
  <2>1. [n \in 1..k |-> M(n)] \in Seq(S) /\ Len([n \in 1..k |-> M(n)]) = k
    BY <1>1, FunctionIsSeq
  <2>2. [n \in 1..(k + 1) |-> M(n)] \in Seq(S) /\ Len([n \in 1..(k + 1) |-> M(n)]) = k + 1
    <3>1. PICK j \in Nat : j = k + 1
      OBVIOUS
    <3> QED BY <1>1, <3>1, FunctionIsSeq
  <2> QED BY <1>1, <2>1, <2>2
<1>3. Append(h, m) \in Seq(S) /\ Len(Append(h, m)) = k + 1
      /\ \A n \in 1..(k + 1) : Append(h, m)[n] = IF n = k + 1 THEN m ELSE h[n]
  BY <1>2
<1>4. \A n \in 1..(k + 1) : Append(h, m)[n] = g[n]
  BY <1>2, <1>3
<1>5. Append(h, m) = g
  BY <1>2, <1>3, <1>4, SeqEqual
<1> QED BY <1>2, <1>5 DEF Heard, M

\* A tag is taken off, and the server is sent its message if it still listens.
LEMMA TagKeeps ==
    ASSUME TagInv, Rtmp!PumpTag
    PROVE  TagInv'
<1>1. /\ rtmpPhase = "live" /\ sawHeader /\ tagBytes # <<>>
      /\ Len(tagBytes) >= 1 + tagBytes[1].size + 1
      /\ tagBytes' = SubSeq(tagBytes, 1 + tagBytes[1].size + 2, Len(tagBytes))
      /\ UNCHANGED <<open, streamId, packets, unwritten, sawHeader>>
      /\ packets \in Jobs /\ packets # None
  BY DEF Rtmp!PumpTag, Rtmp!TagReady, TagInv
<1>2. PICK tags \in Seq(TagSet) : tags = Tagged
  BY <1>1, TaggedTyped
<1>3. PICK k \in 0..Len(tags) :
         /\ tagBytes \o unwritten = More(tags, k)
         /\ \E h \in 0..k : heard = Heard(tags, h) /\ (open => h = k)
  BY <1>1, <1>2 DEF TagInv
<1>4. PICK h \in 0..k : heard = Heard(tags, h) /\ (open => h = k)
  BY <1>3
<1>5. PICK b \in Seq(FlvTokens), u \in Seq(FlvTokens) : b = tagBytes /\ u = unwritten
  BY DEF TagInv
<1>6. k < Len(tags)
  <2>1. SUFFICES ASSUME k = Len(tags) PROVE FALSE
    BY <1>3
  <2>2. b \o u = <<>>
    BY <1>3, <1>5, <2>1 DEF More
  <2>3. b # <<>>
    BY <1>1, <1>5
  <2>4. Len(b) > 0 /\ Len(b \o u) = Len(b) + Len(u)
    BY <2>3, ConcatProperties
  <2> QED BY <2>2, <2>4
<1>7. PICK tag \in TagSet, more \in Seq(FlvTokens), f \in Seq(FlvTokens), n \in Nat :
         /\ tag = tags[k + 1] /\ more = More(tags, k + 1) /\ f = Framed(tag) /\ n = Len(tag.data)
         /\ b \o u = f \o more
  <2>1. /\ More(tags, k) = Framed(tags[k + 1]) \o More(tags, k + 1)
        /\ More(tags, k + 1) \in Seq(FlvTokens) /\ tags[k + 1] \in TagSet
    BY <1>6, MoreIsFramed
  <2>2. Framed(tags[k + 1]) \in Seq(FlvTokens) /\ Len(tags[k + 1].data) \in Nat
    <3>1. tags[k + 1].data \in Seq(TagUnits)
      BY <2>1 DEF TagSet
    <3> QED BY <2>1, <3>1, FramedParts
  <2>3. b \o u = Framed(tags[k + 1]) \o More(tags, k + 1)
    BY <1>3, <1>5, <2>1, Zenon
  <2> QED BY <2>1, <2>2, <2>3, Zenon
<1>8. /\ Len(f) = n + 2 /\ f[1] = Header(tag) /\ Header(tag).size = n
      /\ SubSeq(f, 2, 1 + n) = tag.data
  BY <1>7, FramedParts
<1>9. tagBytes[1] = Header(tag) /\ tagBytes[1].size = n
  <2>1. (b \o u)[1] = b[1] /\ (f \o more)[1] = f[1]
    <3>1. 1 \in 1..Len(b) /\ 1 \in 1..Len(f)
      BY <1>1, <1>5, <1>8
    <3>2. \A s, t \in Seq(FlvTokens) : 1 \in 1..Len(s) => (s \o t)[1] = s[1]
      OBVIOUS
    <3> QED BY <1>5, <1>7, <3>1, <3>2, Zenon
  <2> QED BY <1>5, <1>7, <1>8, <2>1
<1>10. Len(b) >= Len(f)
  BY <1>1, <1>5, <1>8, <1>9
<1>11. /\ SubSeq(b, 1, Len(f)) = f
       /\ SubSeq(b, Len(f) + 1, Len(b)) \in Seq(FlvTokens)
       /\ SubSeq(b, Len(f) + 1, Len(b)) \o u = more
  <2>1. MadeOf(b \o u, b, u) /\ MadeOf(b \o u, f, more)
    BY <1>7, Zenon DEF MadeOf
  <2>2. /\ MadeOf(f, SubSeq(b, 1, Len(f)), <<>>)
        /\ SubSeq(b, Len(f) + 1, Len(b)) \in Seq(FlvTokens)
        /\ MadeOf(more, SubSeq(b, Len(f) + 1, Len(b)), u)
    BY <1>5, <1>7, <1>10, <2>1, LongerBeginning, Zenon
  <2>3. Len(f) \in 0..Len(b)
    BY <1>10
  <2>4. SubSeq(b, 1, Len(f)) \in Seq(FlvTokens)
    BY <2>3, TwoPortions, Zenon
  <2>5. SubSeq(b, 1, Len(f)) \o <<>> = SubSeq(b, 1, Len(f))
    BY <2>4, ConcatEmptySeq
  <2> QED BY <2>2, <2>5 DEF MadeOf
<1>12. SubSeq(tagBytes, 2, 1 + tagBytes[1].size) = tag.data
  <2>1. PICK B \in Nat : B = Len(b) /\ B >= n + 2
    BY <1>8, <1>10
  <2>2. SubSeq(b, 2, 1 + n) \in Seq(FlvTokens) /\ Len(SubSeq(b, 2, 1 + n)) = n
        /\ \A i \in 1..n : SubSeq(b, 2, 1 + n)[i] = b[i + 1]
    BY <2>1
  <2>3. SubSeq(f, 2, 1 + n) \in Seq(FlvTokens) /\ Len(SubSeq(f, 2, 1 + n)) = n
        /\ \A i \in 1..n : SubSeq(f, 2, 1 + n)[i] = f[i + 1]
    BY <1>8
  <2>4. \A i \in 1..(n + 2) : f[i] = b[i]
    <3>1. \A i \in 1..(n + 2) : SubSeq(b, 1, n + 2)[i] = b[i]
      BY <2>1
    <3> QED BY <1>8, <1>11, <3>1
  <2>5. SubSeq(b, 2, 1 + n) = SubSeq(f, 2, 1 + n)
    BY <2>2, <2>3, <2>4, SeqEqual
  <2> QED BY <1>5, <1>8, <1>9, <2>5
<1>13. tagBytes' \in Seq(FlvTokens) /\ tagBytes' \o unwritten' = More(Tagged, k + 1)'
  <2>1. tagBytes' = SubSeq(b, Len(f) + 1, Len(b))
    <3>1. 1 + tagBytes[1].size + 2 = Len(f) + 1
      BY <1>8, <1>9
    <3> QED BY <1>1, <1>5, <3>1
  <2>2. More(Tagged, k + 1)' = More(Tagged, k + 1)
    BY <1>1, TagsStay
  <2> QED BY <1>1, <1>2, <1>5, <1>7, <1>11, <2>1, <2>2
<1>14. Tagged' = Tagged /\ \A j : Heard(Tagged, j)' = Heard(Tagged, j)
  BY <1>1, TagsStay
<1>15. PICK g \in 0..(k + 1) : heard' = Heard(tags, g) /\ (open => g = k + 1)
  <2>1. ASSUME heard' = heard, ~open
        PROVE  \E g \in 0..(k + 1) : heard' = Heard(tags, g) /\ (open => g = k + 1)
    <3>1. h \in 0..(k + 1)
      OBVIOUS
    <3> QED BY <1>4, <2>1, <3>1
  <2>2. ASSUME open,
               heard' = Append(heard, Rtmp!Message(tagBytes[1].type, tagBytes[1].ts,
                                                   SubSeq(tagBytes, 2, 1 + tagBytes[1].size)))
        PROVE  \E g \in 0..(k + 1) : heard' = Heard(tags, g) /\ (open => g = k + 1)
    <3>1. tagBytes[1].type = tags[k + 1].type /\ tagBytes[1].ts = tags[k + 1].ts
      BY <1>7, <1>9 DEF Header
    <3>2. heard' = Append(Heard(tags, k), Rtmp!Message(tags[k + 1].type, tags[k + 1].ts, tags[k + 1].data))
      BY <1>4, <1>7, <1>12, <2>2, <3>1
    <3>3. heard' = Heard(tags, k + 1)
      BY <3>2, HeardGrows
    <3>4. k + 1 \in 0..(k + 1)
      OBVIOUS
    <3> QED BY <3>3, <3>4
  <2>3. \/ open /\ heard' = Append(heard, Rtmp!Message(tagBytes[1].type, tagBytes[1].ts,
                                                       SubSeq(tagBytes, 2, 1 + tagBytes[1].size)))
        \/ ~open /\ heard' = heard
    BY DEF Rtmp!PumpTag
  <2> QED BY <2>1, <2>2, <2>3
<1>16. \E j \in 0..Len(Tagged') :
          /\ tagBytes' \o unwritten' = More(Tagged, j)'
          /\ \E g1 \in 0..j : heard' = Heard(Tagged, g1)' /\ (open' => g1 = j)
  <2>1. k + 1 \in 0..Len(Tagged')
    BY <1>2, <1>6, <1>14
  <2>2. heard' = Heard(Tagged, g)' /\ (open' => g = k + 1)
    BY <1>1, <1>2, <1>14, <1>15
  <2> QED BY <1>13, <1>15, <2>1, <2>2
<1>17. ~Early' /\ rtmpPhase' # "done"
  BY <1>1 DEF Early, Rtmp!PumpTag
<1> QED BY <1>1, <1>13, <1>16, <1>17 DEF TagInv

\* When the muxer has finished and no tag is ready, the server was sent them all.
LEMMA FlushKeeps ==
    ASSUME TagInv, Rtmp!Flush
    PROVE  TagInv'
<1>1. /\ rtmpPhase = "live" /\ unwritten = <<>> /\ rtmpPhase' = "done"
      /\ ~Rtmp!SignatureReady /\ ~Rtmp!TagReady
      /\ UNCHANGED <<open, streamId, packets, unwritten, tagBytes, sawHeader, heard>>
  BY DEF Rtmp!Flush, Rtmp!serverVars, Rtmp!flvVars
<1>2. PICK tags \in Seq(TagSet) : tags = Tagged
  BY TaggedTyped DEF TagInv
<1>3. PICK b \in Seq(FlvTokens) : b = tagBytes /\ tagBytes \o unwritten = b
  <2>1. tagBytes \in Seq(FlvTokens)
    BY DEF TagInv
  <2> QED BY <1>1, <2>1, ConcatEmptySeq
<1>4. sawHeader
  <2>1. SUFFICES ASSUME ~sawHeader PROVE Len(b) >= 2
    BY <1>1, <1>3 DEF Rtmp!SignatureReady
  <2>2. b = Rtmp!Output(packets) /\ packets \in Jobs
    BY <1>3, <2>1 DEF TagInv
  <2>3. CASE packets = None
    BY <2>2, <2>3 DEF Rtmp!Output
  <2>4. CASE packets # None
    <3>1. b = <<Rtmp!Signature>> \o Left(tags, 0)
      BY <1>2, <2>2, <2>4, OutputFramed DEF Tagged
    <3>2. 0 \in 0..Len(tags)
      OBVIOUS
    <3>3. PICK more \in Seq(FlvTokens) : Left(tags, 0) = <<Rtmp!PrevSize>> \o more
      BY <3>2, LeftBegins, Zenon
    <3>4. PICK s \in FlvTokens, p \in FlvTokens : s = Rtmp!Signature /\ p = Rtmp!PrevSize
      BY DEF FlvTokens
    <3>5. PICK left \in Seq(FlvTokens) : left = <<p>> \o more /\ Len(left) >= 1
      <4>1. <<p>> \in Seq(FlvTokens) /\ Len(<<p>>) = 1 /\ Len(more) \in Nat
        BY <3>3, <3>4
      <4>2. <<p>> \o more \in Seq(FlvTokens) /\ Len(<<p>> \o more) = Len(<<p>>) + Len(more)
        BY <3>3, <4>1, ConcatProperties
      <4>3. Len(<<p>> \o more) >= 1
        BY <4>1, <4>2
      <4> QED BY <4>2, <4>3
    <3>6. Len(<<s>> \o left) >= 2
      BY <3>5
    <3> QED BY <3>1, <3>3, <3>4, <3>5, <3>6
  <2> QED BY <2>3, <2>4
<1>5. PICK k \in 0..Len(tags) :
         /\ b = More(tags, k) /\ \E h \in 0..k : heard = Heard(tags, h) /\ (open => h = k)
  BY <1>2, <1>3, <1>4 DEF TagInv
<1>6. k = Len(tags)
  <2>1. SUFFICES ASSUME k < Len(tags) PROVE FALSE
    BY <1>5
  <2>2. PICK tag \in TagSet, more \in Seq(FlvTokens), f \in Seq(FlvTokens), n \in Nat :
           /\ f = Framed(tag) /\ n = Len(tag.data) /\ b = f \o more
    <3>1. /\ More(tags, k) = Framed(tags[k + 1]) \o More(tags, k + 1)
          /\ More(tags, k + 1) \in Seq(FlvTokens) /\ tags[k + 1] \in TagSet
      BY <2>1, MoreIsFramed
    <3>2. Framed(tags[k + 1]) \in Seq(FlvTokens) /\ Len(tags[k + 1].data) \in Nat
      <4>1. tags[k + 1].data \in Seq(TagUnits)
        BY <3>1 DEF TagSet
      <4> QED BY <3>1, <4>1, FramedParts
    <3> QED BY <1>5, <3>1, <3>2, Zenon
  <2>3. Len(f) = n + 2 /\ f[1] = Header(tag) /\ Header(tag).size = n
    BY <2>2, FramedParts
  <2>4. b[1] = f[1] /\ Len(b) >= n + 2
    <3>1. Len(f \o more) = Len(f) + Len(more) /\ (f \o more)[1] = f[1]
      <4>1. \A s, t \in Seq(FlvTokens) : 1 \in 1..Len(s) => (s \o t)[1] = s[1] /\ Len(s \o t) = Len(s) + Len(t)
        OBVIOUS
      <4>2. 1 \in 1..Len(f)
        BY <2>3
      <4> QED BY <2>2, <4>1, <4>2, Zenon
    <3>2. Len(more) \in Nat
      OBVIOUS
    <3> QED BY <2>2, <2>3, <3>1, <3>2
  <2>5. b # <<>> /\ Len(b) >= 1 + b[1].size + 1
    BY <2>3, <2>4
  <2> QED BY <1>1, <1>3, <1>4, <2>5 DEF Rtmp!TagReady
<1>7. Tagged' = Tagged /\ Rtmp!Output(packets)' = Rtmp!Output(packets)
      /\ (\A j : More(Tagged, j)' = More(Tagged, j)) /\ (\A j : Heard(Tagged, j)' = Heard(Tagged, j))
  BY <1>1, TagsStay
<1>8. open => Len(heard) = Len(tags)
  <2>1. SUFFICES ASSUME open PROVE Len(heard) = Len(tags)
    OBVIOUS
  <2>2. heard = Heard(tags, Len(tags))
    BY <1>5, <1>6, <2>1
  <2>3. PICK n \in Nat : n = Len(tags)
    OBVIOUS
  <2>4. Len(Heard(tags, n)) = n
    BY DEF Heard
  <2> QED BY <2>2, <2>3, <2>4
<1>9. \E j \in 0..Len(Tagged') :
         /\ tagBytes' \o unwritten' = More(Tagged, j)'
         /\ \E h \in 0..j : heard' = Heard(Tagged, h)' /\ (open' => h = j)
  BY <1>1, <1>2, <1>3, <1>5, <1>7
<1>10. ~Early'
  BY <1>1 DEF Early
<1> QED BY <1>1, <1>2, <1>4, <1>7, <1>8, <1>9, <1>10 DEF TagInv

LEMMA TagInvariant == Spec => []TagInv
<1>1. TagInv /\ [Next]_vars => TagInv'
  BY OnlyMediaSteps, RestKeeps, WriteKeeps, SignatureKeeps, TagKeeps, FlushKeeps DEF MediaStep
<1> QED BY <1>1, TagInit, PTL DEF Spec

\* A message carries the data of its tag whole, in chunks of the size announced.
LEMMA MessageIsTheTag ==
    ASSUME NEW tag \in TagSet, NEW m, m = Rtmp!Message(tag.type, tag.ts, tag.data)
    PROVE  /\ m.type = tag.type /\ m.sid = streamId
           /\ m.ts = IF tag.ts > TsMax THEN TsMax ELSE tag.ts
           /\ FlattenSeq(m.chunks) = tag.data
           /\ \A k \in DOMAIN m.chunks : Len(m.chunks[k]) \in 1..OutChunk
<1>1. tag.data \in Seq(TagUnits) /\ OutChunk \in Nat \ {0}
  BY PublisherAssumption DEF TagSet
<1>2. m.chunks = Pieces(tag.data, OutChunk)
  BY DEF Rtmp!Message, Pieces, PieceCount
<1>3. /\ m.type = tag.type /\ m.sid = streamId
      /\ m.ts = IF tag.ts > TsMax THEN TsMax ELSE tag.ts
  BY DEF Rtmp!Message
<1>4. /\ FlattenSeq(Pieces(tag.data, OutChunk)) = tag.data
      /\ \A k \in DOMAIN Pieces(tag.data, OutChunk) : Len(Pieces(tag.data, OutChunk)[k]) \in 1..OutChunk
  BY <1>1, PiecesJoin
<1> QED BY <1>2, <1>3, <1>4

\* For every job, every server and however the muxer's writes fall: the server
\* is sent the tags in order, each once and whole, and all of them if the job
\* ends with the connection up.
THEOREM TagsReachTheServer == Spec => []TagsAreForwarded
<1>1. ASSUME TagInv PROVE TagsAreForwarded
  <2>1. PICK tags \in Seq(TagSet) : tags = Tagged
    BY <1>1, TaggedTyped DEF TagInv
  <2>2. PICK h \in 0..Len(tags) : heard = Heard(tags, h)
    <3>1. ASSUME ~sawHeader PROVE heard = Heard(tags, 0)
      BY <1>1, <3>1 DEF TagInv, Heard
    <3>2. ASSUME sawHeader PROVE \E h \in 0..Len(tags) : heard = Heard(tags, h)
      <4>1. PICK k \in 0..Len(tags) : \E h \in 0..k : heard = Heard(tags, h)
        BY <1>1, <2>1, <3>2 DEF TagInv
      <4>2. PICK h \in 0..k : heard = Heard(tags, h)
        BY <4>1
      <4>3. h \in 0..Len(tags)
        BY <4>1, <4>2
      <4> QED BY <4>2, <4>3
    <3>3. 0 \in 0..Len(tags)
      OBVIOUS
    <3> QED BY <3>1, <3>2, <3>3
  <2>3. DOMAIN heard = 1..h /\ Len(heard) = h /\ Len(heard) <= Len(tags)
    <3>1. DOMAIN heard = 1..h /\ Len(heard) = h
      BY <2>2 DEF Heard
    <3> QED BY <2>2, <3>1
  <2>4. ASSUME NEW n \in DOMAIN heard
        PROVE  /\ heard[n].type = tags[n].type /\ heard[n].sid = streamId
               /\ heard[n].ts = IF tags[n].ts > TsMax THEN TsMax ELSE tags[n].ts
               /\ Rtmp!FlattenSeq(heard[n].chunks) = tags[n].data
               /\ \A k \in DOMAIN heard[n].chunks : Len(heard[n].chunks[k]) \in 1..OutChunk
    <3>1. n \in 1..h /\ n \in 1..Len(tags)
      BY <2>2, <2>3
    <3>2. PICK tag \in TagSet : tag = tags[n]
      BY <3>1, ElementOfSeq
    <3>3. heard[n] = Rtmp!Message(tag.type, tag.ts, tag.data)
      BY <2>2, <3>1, <3>2 DEF Heard
    <3> QED BY <3>2, <3>3, MessageIsTheTag, SameFlatten
  <2>5. (rtmpPhase = "done" /\ open) => Len(heard) = Len(tags)
    BY <1>1, <2>1 DEF TagInv
  <2>6. tags = IF packets = None THEN <<>> ELSE Rtmp!Tags(packets)
    BY <2>1 DEF Tagged
  <2> HIDE DEF TagInv
  <2> QED BY <2>3, <2>4, <2>5, <2>6 DEF TagsAreForwarded, Rtmp!TagsAreForwarded
<1> QED BY <1>1, TagInvariant, PTL

-----------------------------------------------------------------------------
(* Parts of a sequence *)

\* o is what stands at some places of p, in its order.
PartOf(o, p) == \E S \in SUBSET (1..Len(p)) : o = AtPlaces(p, S)

\* One more element, which is taken.
LEMMA PickedAppend ==
    ASSUME NEW X, NEW p \in Seq(X), NEW e \in X, NEW S \in SUBSET (1..Len(p))
    PROVE  PartOf(Append(AtPlaces(p, S), e), Append(p, e))
<1>1. PICK N \in Nat : N = Len(p)
  OBVIOUS
<1>2. PICK w \in Seq(X) : w = Append(p, e) /\ AppendedTo(w, p, e, N)
  BY <1>1, AppendGrows
<1>3. Len(w) = N + 1 /\ w[N + 1] = e /\ \A i \in 1..N : w[i] = p[i]
  BY <1>2 DEF AppendedTo
<1>4. PICK T \in SUBSET (1..Len(w)) : T = S \cup {N + 1}
  <2>1. S \cup {N + 1} \subseteq 1..Len(w)
    <3>1. S \subseteq 1..N
      BY <1>1
    <3>2. 1..N \subseteq 1..(N + 1) /\ N + 1 \in 1..(N + 1)
      BY <1>1
    <3> QED BY <1>3, <3>1, <3>2
  <2> QED BY <2>1
<1>5. PICK places \in Seq(1..N) : places = Ascending(S)
  BY <1>1, PickedPlaces
<1>6. PICK n \in Nat : n = Len(places) /\ \A k \in 1..n : places[k] \in 1..N
  <2>1. Len(places) \in Nat /\ \A k \in 1..Len(places) : places[k] \in 1..N
    OBVIOUS
  <2> QED BY <2>1
<1>7. PICK longer : longer = Ascending(T) /\ longer \in Seq(1..Len(w))
  BY PickedPlaces
<1>8. AppendedTo(longer, places, N + 1, n)
  <2>1. N + 1 \in Int /\ N + 1 > N /\ S \subseteq 1..N
    BY <1>1
  <2>2. Ascending(S \cup {N + 1}) = Append(Ascending(S), N + 1)
    BY <2>1, AscendingAppend
  <2>3. places \in Seq(Nat) /\ N + 1 \in Nat
    BY <1>6, SeqOverElements
  <2>4. AppendedTo(Append(places, N + 1), places, N + 1, n)
    BY <1>6, <2>3, AppendGrows
  <2> QED BY <1>4, <1>5, <1>7, <2>2, <2>4
<1>9. Len(longer) = n + 1 /\ longer[n + 1] = N + 1 /\ \A k \in 1..n : longer[k] = places[k]
  BY <1>8 DEF AppendedTo
<1>10. PICK a \in Seq(X) : a = AtPlaces(p, S) /\ Len(a) = n /\ \A k \in 1..n : a[k] = p[places[k]]
  BY <1>1, <1>5, <1>6, PickedPlaces
<1>11. PICK b \in Seq(X) : b = AtPlaces(w, T) /\ Len(b) = n + 1 /\ \A k \in 1..(n + 1) : b[k] = w[longer[k]]
  <2>1. /\ AtPlaces(w, T) \in Seq(X) /\ Len(AtPlaces(w, T)) = Len(Ascending(T))
        /\ \A k \in 1..Len(Ascending(T)) : AtPlaces(w, T)[k] = w[Ascending(T)[k]]
    BY PickedPlaces
  <2> QED BY <1>7, <1>9, <2>1
<1>12. AppendedTo(b, a, e, n)
  <2>1. ASSUME NEW k \in 1..n PROVE b[k] = a[k]
    <3>1. places[k] \in 1..N /\ longer[k] = places[k] /\ k \in 1..(n + 1)
      BY <1>6, <1>9
    <3> QED BY <1>3, <1>10, <1>11, <3>1
  <2>2. b[n + 1] = e
    <3>1. n + 1 \in 1..(n + 1)
      BY <1>6
    <3> QED BY <1>3, <1>9, <1>11, <3>1
  <2> QED BY <1>11, <2>1, <2>2 DEF AppendedTo
<1>13. Append(a, e) \in Seq(X) /\ AppendedTo(Append(a, e), a, e, n)
  <2>1. n = Len(a)
    BY <1>10
  <2> QED BY <2>1, AppendGrows
<1>14. b = Append(a, e)
  BY <1>12, <1>13, AppendedAlike, Zenon
<1>15. Append(a, e) = AtPlaces(w, T)
  BY <1>11, <1>14
<1> QED BY <1>2, <1>10, <1>15 DEF PartOf

LEMMA PartTyped ==
    ASSUME NEW X, NEW p \in Seq(X), NEW o, PartOf(o, p)
    PROVE  o \in Seq(X)
BY PickedPlaces DEF PartOf

LEMMA NothingIsPart ==
    ASSUME NEW X, NEW p \in Seq(X)
    PROVE  PartOf(<<>>, p)
<1>1. {} \in SUBSET (1..Len(p)) /\ Len(p) \in Nat /\ {} \subseteq 1..Len(p)
  OBVIOUS
<1>2. Ascending({}) = <<>>
  BY <1>1, AscendingLists
<1>3. AtPlaces(p, {}) \in Seq(X) /\ Len(AtPlaces(p, {})) = Len(<<>>)
  BY <1>1, <1>2, PickedPlaces
<1>4. AtPlaces(p, {}) = <<>>
  BY <1>3
<1> QED BY <1>1, <1>4 DEF PartOf

LEMMA PartLater ==
    ASSUME NEW X, NEW p \in Seq(X), NEW t \in Seq(X), NEW o, PartOf(o, p)
    PROVE  PartOf(o, p \o t)
<1>1. PICK S \in SUBSET (1..Len(p)) : o = AtPlaces(p, S)
  BY DEF PartOf
<1>2. S \in SUBSET (1..Len(p \o t)) /\ AtPlaces(p \o t, S) = AtPlaces(p, S)
  BY PickedLater
<1> QED BY <1>1, <1>2 DEF PartOf

LEMMA PartAppend ==
    ASSUME NEW X, NEW p \in Seq(X), NEW e \in X, NEW o, PartOf(o, p)
    PROVE  PartOf(Append(o, e), Append(p, e))
<1>1. PICK S \in SUBSET (1..Len(p)) : o = AtPlaces(p, S)
  BY DEF PartOf
<1>2. PartOf(Append(AtPlaces(p, S), e), Append(p, e))
  BY PickedAppend
<1> QED BY <1>1, <1>2

\* More of the sequence, all of which is taken.
LEMMA PartBoth ==
    ASSUME NEW X, NEW p \in Seq(X), NEW t \in Seq(X), NEW o, PartOf(o, p)
    PROVE  PartOf(o \o t, p \o t)
<1> DEFINE First(n) == SubSeq(t, 1, n)
           Holds(n) == PartOf(o \o First(n), p \o First(n))
           T == {n \in 0..Len(t) : Holds(n)}
<1>0. o \in Seq(X) /\ Len(t) \in Nat
  BY PartTyped
<1>1. 0 \in T
  <2>1. First(0) = <<>>
    OBVIOUS
  <2>2. o \o <<>> = o /\ p \o <<>> = p
    BY <1>0, ConcatEmptySeq
  <2>3. Holds(0)
    BY <2>1, <2>2
  <2> QED BY <1>0, <2>3
<1>2. ASSUME NEW n \in 1..Len(t), n - 1 \in T PROVE n \in T
  <2>1. PICK s \in Seq(X), e \in X : s = First(n - 1) /\ e = t[n] /\ First(n) = Append(s, e)
    <3>1. First(n - 1) \in Seq(X) /\ t[n] \in X
      BY <1>0
    <3>2. First(n) = Append(First(n - 1), t[n])
      BY <1>0
    <3> QED BY <3>1, <3>2
  <2>2. PartOf(o \o s, p \o s)
    BY <1>2, <2>1
  <2>3. p \o s \in Seq(X)
    BY <2>1, ConcatProperties
  <2>4. PartOf(Append(o \o s, e), Append(p \o s, e))
    BY <2>1, <2>2, <2>3, PartAppend
  <2>5. o \o Append(s, e) = Append(o \o s, e) /\ p \o Append(s, e) = Append(p \o s, e)
    BY <1>0, <2>1, ConcatAppend
  <2>6. Holds(n)
    BY <2>1, <2>4, <2>5
  <2> QED BY <2>6
<1>3. 0..Len(t) \subseteq T
  <2> HIDE DEF T
  <2> QED BY <1>0, <1>1, <1>2, InductionUpTo
<1>4. Holds(Len(t))
  BY <1>0, <1>3
<1>5. First(Len(t)) = t
  OBVIOUS
<1> QED BY <1>4, <1>5

-----------------------------------------------------------------------------
(* A stream that is being read *)

\* Of w, o was read; what is ahead is still to come.  Nothing was left out if
\* all went well.
Going(w, o, ahead, well) ==
    \E past \in Seq(Nat) : MadeOf(w, past, ahead) /\ PartOf(o, past) /\ (well => o = past)

LEMMA GoingStarts ==
    ASSUME NEW w \in Seq(Nat), NEW well
    PROVE  Going(w, <<>>, w, well)
<1>1. <<>> \in Seq(Nat) /\ MadeOf(w, <<>>, w)
  BY ConcatEmptySeq DEF MadeOf
<1>2. PartOf(<<>>, <<>>)
  BY <1>1, NothingIsPart
<1> QED BY <1>1, <1>2 DEF Going

\* The next of what is ahead is read.
LEMMA GoingReads ==
    ASSUME NEW w, NEW o, NEW a \in Seq(Nat), NEW b \in Seq(Nat), NEW well,
           Going(w, o, a \o b, well)
    PROVE  Going(w, o \o a, b, well)
<1>1. PICK past \in Seq(Nat) : MadeOf(w, past, a \o b) /\ PartOf(o, past) /\ (well => o = past)
  BY DEF Going
<1>2. past \o a \in Seq(Nat)
  BY ConcatProperties
<1>3. MadeOf(past \o (a \o b), past \o a, b)
  BY GroupedLeft
<1>4. MadeOf(w, past \o a, b)
  BY <1>1, <1>3 DEF MadeOf
<1>5. PartOf(o \o a, past \o a)
  BY <1>1, PartBoth
<1> QED BY <1>1, <1>2, <1>4, <1>5 DEF Going

\* The next of what is ahead is passed over.
LEMMA GoingSkips ==
    ASSUME NEW w, NEW o, NEW a \in Seq(Nat), NEW b \in Seq(Nat), NEW well,
           Going(w, o, a \o b, well)
    PROVE  Going(w, o, b, FALSE)
<1>1. PICK past \in Seq(Nat) : MadeOf(w, past, a \o b) /\ PartOf(o, past)
  BY DEF Going
<1>2. past \o a \in Seq(Nat)
  BY ConcatProperties
<1>3. MadeOf(past \o (a \o b), past \o a, b)
  BY GroupedLeft
<1>4. MadeOf(w, past \o a, b)
  BY <1>1, <1>3 DEF MadeOf
<1>5. PartOf(o, past \o a)
  BY <1>1, PartLater
<1> QED BY <1>2, <1>4, <1>5 DEF Going

LEMMA GoingWorse ==
    ASSUME NEW w, NEW o, NEW a, NEW well, NEW still, still => well, Going(w, o, a, well)
    PROVE  Going(w, o, a, still)
BY DEF Going

\* Wherever it stops, what was read is a part; where nothing is ahead, the whole.
LEMMA GoingStops ==
    ASSUME NEW w, NEW o, NEW a \in Seq(Nat), NEW well, Going(w, o, a, well)
    PROVE  PartOf(o, w) /\ o \in Seq(Nat) /\ (a = <<>> /\ well => o = w)
<1>1. PICK past \in Seq(Nat) : MadeOf(w, past, a) /\ PartOf(o, past) /\ (well => o = past)
  BY DEF Going
<1>2. PartOf(o, past \o a) /\ o \in Seq(Nat)
  BY <1>1, PartLater, PartTyped
<1>3. w = past \o a
  BY <1>1 DEF MadeOf
<1>4. past \o <<>> = past
  BY ConcatEmptySeq
<1> QED BY <1>1, <1>2, <1>3, <1>4

-----------------------------------------------------------------------------
(* What a segment's URL ends in *)

AllUrls == STRING \X STRING
Ends == [url \in AllUrls |-> Hls!Body(url)]

Answered == {Web[url] : url \in DOMAIN Web} \cup {Hls!NoAnswer}

\* One more redirect may be followed.
FollowedFrom(v) ==
    [url \in DOMAIN Web |->
        IF Web[url].kind # "redirect" THEN Web[url]
        ELSE IF Web[url].to \in DOMAIN Web THEN v[Web[url].to] ELSE Hls!NoAnswer]
NotFollowed ==
    [url \in DOMAIN Web |-> IF Web[url].kind # "redirect" THEN Web[url] ELSE Hls!NoAnswer]

LEMMA EndOfIsDefined ==
    /\ Hls!EndOf \in [0..MaxRedirects -> [DOMAIN Web -> Answered]]
    /\ Hls!EndOf[0] = NotFollowed
    /\ \A n \in 1..MaxRedirects : Hls!EndOf[n] = FollowedFrom(Hls!EndOf[n - 1])
<1> DEFINE V == [DOMAIN Web -> Answered]
           H == [n \in 1..MaxRedirects |-> [v \in V |-> FollowedFrom(v)]]
           Equation(g) == g = [n \in 0..MaxRedirects |->
               [url \in DOMAIN Web |->
                   IF Web[url].kind # "redirect" THEN Web[url]
                   ELSE IF n > 0 /\ Web[url].to \in DOMAIN Web THEN g[n - 1][Web[url].to]
                   ELSE Hls!NoAnswer]]
<1>0. MaxRedirects \in Nat
  BY WebAssumption
<1>1. NotFollowed \in V
  BY DEF NotFollowed, Answered
<1>2. \A v \in V : FollowedFrom(v) \in V
  BY DEF FollowedFrom, Answered
<1>3. H \in [1..MaxRedirects -> [V -> V]]
  BY <1>2
<1>4. PICK f \in [0..MaxRedirects -> V] : Computes(f, NotFollowed, H, MaxRedirects)
  <2> HIDE DEF V, H
  <2> QED BY <1>0, <1>1, <1>3, RecursionExists
<1>5. f[0] = NotFollowed /\ \A n \in 1..MaxRedirects : f[n] = FollowedFrom(f[n - 1])
  <2>1. ASSUME NEW n \in 1..MaxRedirects PROVE f[n] = FollowedFrom(f[n - 1])
    <3>1. f[n] = H[n][f[n - 1]] /\ n - 1 \in 0..MaxRedirects
      <4> HIDE DEF V, H, Equation
      <4> QED BY <1>0, <1>4 DEF Computes
    <3>2. f[n - 1] \in V
      BY <3>1
    <3> QED BY <3>1, <3>2
  <2> QED BY <1>4, <2>1 DEF Computes
<1>6. Equation(f)
  <2> DEFINE row(n) == [url \in DOMAIN Web |->
                   IF Web[url].kind # "redirect" THEN Web[url]
                   ELSE IF n > 0 /\ Web[url].to \in DOMAIN Web THEN f[n - 1][Web[url].to]
                   ELSE Hls!NoAnswer]
  <2>1. f[0] = row(0)
    BY <1>5 DEF NotFollowed
  <2>2. ASSUME NEW n \in 1..MaxRedirects PROVE f[n] = row(n)
    <3>1. n > 0
      BY <1>0
    <3> QED BY <1>5, <3>1 DEF FollowedFrom
  <2>3. \A n \in 0..MaxRedirects : n = 0 \/ n \in 1..MaxRedirects
    BY <1>0
  <2>4. \A n \in 0..MaxRedirects : f[n] = row(n)
    <3> HIDE DEF row
    <3> QED BY <2>1, <2>2, <2>3
  <2> HIDE DEF row
  <2>5. f = [n \in 0..MaxRedirects |-> row(n)]
    BY <2>4
  <2> QED BY <2>5 DEF row
<1>7. Equation(Hls!EndOf)
  BY <1>6, Zenon DEF Hls!EndOf
<1>8. Hls!EndOf[0] = NotFollowed
  BY <1>0, <1>7 DEF NotFollowed
<1>9. \A n \in 1..MaxRedirects : Hls!EndOf[n] = FollowedFrom(Hls!EndOf[n - 1])
  <2> DEFINE row(n) == [url \in DOMAIN Web |->
                   IF Web[url].kind # "redirect" THEN Web[url]
                   ELSE IF n > 0 /\ Web[url].to \in DOMAIN Web THEN Hls!EndOf[n - 1][Web[url].to]
                   ELSE Hls!NoAnswer]
  <2>1. Hls!EndOf = [n \in 0..MaxRedirects |-> row(n)]
    BY <1>7
  <2>2. ASSUME NEW n \in 1..MaxRedirects PROVE row(n) = FollowedFrom(Hls!EndOf[n - 1])
    <3>1. n > 0
      BY <1>0
    <3> QED BY <3>1 DEF FollowedFrom
  <2> HIDE DEF row, V, H, Equation
  <2>3. \A n \in 1..MaxRedirects : n \in 0..MaxRedirects
    BY <1>0
  <2>4. \A n \in 0..MaxRedirects : Hls!EndOf[n] = row(n)
    BY <2>1
  <2> QED BY <2>2, <2>3, <2>4
<1>10. Hls!EndOf \in [0..MaxRedirects -> V]
  <2> DEFINE T == {n \in 0..MaxRedirects : Hls!EndOf[n] \in V}
  <2>1. 0 \in T
    BY <1>0, <1>1, <1>8
  <2>2. ASSUME NEW n \in 1..MaxRedirects, n - 1 \in T PROVE n \in T
    BY <1>0, <1>2, <1>9, <2>2
  <2>3. 0..MaxRedirects \subseteq T
    <3> HIDE DEF T
    <3> QED BY <1>0, <2>1, <2>2, InductionUpTo
  <2>4. PICK g : g = Hls!EndOf /\ g = [n \in 0..MaxRedirects |-> g[n]]
    BY <1>7
  <2>5. \A n \in 0..MaxRedirects : Hls!EndOf[n] \in V
    BY <2>3
  <2> HIDE DEF V, T, H, Equation
  <2>6. \A n \in 0..MaxRedirects : g[n] \in V
    BY <2>4, <2>5
  <2>7. [n \in 0..MaxRedirects |-> g[n]] \in [0..MaxRedirects -> V]
    BY <2>6
  <2>8. g \in [0..MaxRedirects -> V]
    BY <2>4, <2>7
  <2> QED BY <2>4, <2>8
<1> QED BY <1>8, <1>9, <1>10

\* What is there to read at the end of a URL's redirects.
Content(end) == IF end.kind \in {"playlist", "media"} THEN FlattenSeq(end.chunks) ELSE <<>>
Contents ==
    [n \in 0..MaxRedirects |-> [url \in AllUrls |->
        Content(IF url \in DOMAIN Web THEN Hls!EndOf[n][url] ELSE Hls!NoAnswer)]]

LEMMA ContentsStay == Contents' = Contents
BY DEF Contents, Content, AllUrls, Hls!EndOf, Hls!NoAnswer

LEMMA SameFlattenHls == \A ss : Hls!FlattenSeq(ss) = FlattenSeq(ss)
BY DEF Hls!FlattenSeq, FlattenSeq

LEMMA SamePickedHls == \A p, S : Hls!AtPlaces(p, S) = AtPlaces(p, S)
BY DEF Hls!AtPlaces, AtPlaces, Hls!Ascending, Ascending, Hls!InOrder, InOrder, Hls!Place, Place,
       Hls!Cardinality, Cardinality

LEMMA ChunksTyped ==
    ASSUME NEW url \in DOMAIN Web, Web[url].kind \in {"playlist", "media"}
    PROVE  Web[url].chunks \in Seq(Seq(Nat) \ {<<>>}) /\ Web[url].chunks \in Seq(Seq(Nat))
<1>1. Web[url].chunks \in Seq(Seq(Nat) \ {<<>>})
  BY WebAssumption
<1>2. \A i \in 1..Len(Web[url].chunks) : Web[url].chunks[i] \in Seq(Nat)
  BY <1>1
<1> QED BY <1>1, <1>2, SeqOverElements

LEMMA ContentTyped ==
    ASSUME NEW end \in Answered
    PROVE  Content(end) \in Seq(Nat)
<1>1. CASE end.kind \in {"playlist", "media"}
  <2>1. PICK url \in DOMAIN Web : end = Web[url]
    <3>1. Hls!NoAnswer.kind \notin {"playlist", "media"}
      BY DEF Hls!NoAnswer
    <3> QED BY <1>1, <3>1 DEF Answered
  <2>2. FlattenSeq(end.chunks) \in Seq(Nat)
    BY <1>1, <2>1, ChunksTyped, FlattenType
  <2> QED BY <1>1, <2>2 DEF Content
<1>2. CASE end.kind \notin {"playlist", "media"}
  BY <1>2 DEF Content
<1> QED BY <1>1, <1>2

LEMMA ContentsTyped ==
    /\ Contents \in [0..MaxRedirects -> [AllUrls -> Seq(Nat)]]
    /\ MaxRedirects \in 0..MaxRedirects
<1>1. ASSUME NEW n \in 0..MaxRedirects, NEW url \in AllUrls
      PROVE  Content(IF url \in DOMAIN Web THEN Hls!EndOf[n][url] ELSE Hls!NoAnswer) \in Seq(Nat)
  <2>1. (IF url \in DOMAIN Web THEN Hls!EndOf[n][url] ELSE Hls!NoAnswer) \in Answered
    <3>1. url \in DOMAIN Web => Hls!EndOf[n][url] \in Answered
      BY EndOfIsDefined
    <3>2. Hls!NoAnswer \in Answered
      BY DEF Answered
    <3> QED BY <3>1, <3>2
  <2> QED BY <2>1, ContentTyped
<1>2. MaxRedirects \in 0..MaxRedirects
  BY WebAssumption
<1> QED BY <1>1, <1>2 DEF Contents

LEMMA ContentsAreBodies ==
    ASSUME NEW url \in AllUrls
    PROVE  Contents[MaxRedirects][url] = Hls!Body(url)
<1>1. MaxRedirects \in 0..MaxRedirects
  BY ContentsTyped
<1>2. Contents[MaxRedirects][url] =
          Content(IF url \in DOMAIN Web THEN Hls!EndOf[MaxRedirects][url] ELSE Hls!NoAnswer)
  BY <1>1 DEF Contents
<1> QED BY <1>2, SameFlattenHls DEF Content, Hls!Body

\* A redirect has what it is to has, with one redirect less.
LEMMA ContentsFollow ==
    ASSUME NEW url \in AllUrls, NEW n \in 0..MaxRedirects, n > 0, Hls!Answers(url).kind = "redirect"
    PROVE  /\ Hls!Answers(url).to \in AllUrls /\ n - 1 \in 0..MaxRedirects
           /\ Contents[n - 1][Hls!Answers(url).to] = Contents[n][url]
<1>1. url \in DOMAIN Web /\ Hls!Answers(url) = Web[url] /\ Web[url].kind = "redirect"
  <2>1. Hls!NoAnswer.kind # "redirect"
    BY DEF Hls!NoAnswer
  <2> QED BY <2>1 DEF Hls!Answers
<1>2. PICK to \in AllUrls : to = Web[url].to
  BY <1>1, WebAssumption DEF Hls!Urls, AllUrls
<1>3. n \in 1..MaxRedirects /\ n - 1 \in 0..MaxRedirects
  BY WebAssumption
<1>4. Hls!EndOf[n][url] = IF to \in DOMAIN Web THEN Hls!EndOf[n - 1][to] ELSE Hls!NoAnswer
  <2>1. Hls!EndOf[n] = FollowedFrom(Hls!EndOf[n - 1])
    BY <1>3, EndOfIsDefined
  <2> QED BY <1>1, <1>2, <2>1 DEF FollowedFrom
<1>5. Contents[n][url] = Content(Hls!EndOf[n][url])
  BY <1>1, <1>3 DEF Contents
<1>6. Contents[n - 1][to] = Content(IF to \in DOMAIN Web THEN Hls!EndOf[n - 1][to] ELSE Hls!NoAnswer)
  BY <1>2, <1>3 DEF Contents
<1> QED BY <1>1, <1>2, <1>3, <1>4, <1>5, <1>6

\* What answers with a body has that body.
LEMMA ContentsFetched ==
    ASSUME NEW url \in AllUrls, NEW n \in 0..MaxRedirects, Hls!Answers(url).kind \in {"playlist", "media"}
    PROVE  /\ url \in DOMAIN Web /\ Hls!Answers(url) = Web[url]
           /\ Web[url].chunks \in Seq(Seq(Nat) \ {<<>>})
           /\ Contents[n][url] = FlattenSeq(Web[url].chunks)
<1>1. url \in DOMAIN Web /\ Hls!Answers(url) = Web[url] /\ Web[url].kind \in {"playlist", "media"}
  <2>1. Hls!NoAnswer.kind \notin {"playlist", "media"}
    BY DEF Hls!NoAnswer
  <2> QED BY <2>1 DEF Hls!Answers
<1>2. Hls!EndOf[n][url] = Web[url]
  <2>1. CASE n = 0
    BY <1>1, <2>1, EndOfIsDefined DEF NotFollowed
  <2>2. CASE n \in 1..MaxRedirects
    BY <1>1, <2>2, EndOfIsDefined DEF FollowedFrom
  <2> QED BY <2>1, <2>2, WebAssumption
<1>3. Contents[n][url] = Content(Web[url])
  BY <1>1, <1>2 DEF Contents
<1> QED BY <1>1, <1>3, ChunksTyped DEF Content

-----------------------------------------------------------------------------
(* What is left of a response *)

Responses == [cur : Seq(Nat), rest : Seq(Seq(Nat) \ {<<>>}), sized : BOOLEAN, up : BOOLEAN]
Remains(c) == c.cur \o FlattenSeq(c.rest)

LEMMA ChunksFlatten ==
    ASSUME NEW rest \in Seq(Seq(Nat) \ {<<>>})
    PROVE  rest \in Seq(Seq(Nat)) /\ FlattenSeq(rest) \in Seq(Nat)
<1>1. \A i \in 1..Len(rest) : rest[i] \in Seq(Nat)
  OBVIOUS
<1>2. rest \in Seq(Seq(Nat))
  BY <1>1, SeqOverElements
<1> QED BY <1>2, FlattenType

LEMMA RemainsTyped ==
    ASSUME NEW c \in Responses
    PROVE  Remains(c) \in Seq(Nat)
<1>1. c.cur \in Seq(Nat) /\ FlattenSeq(c.rest) \in Seq(Nat)
  BY ChunksFlatten DEF Responses
<1> QED BY <1>1, ConcatProperties DEF Remains

LEMMA LoadedRemains ==
    ASSUME NEW c \in Responses
    PROVE  /\ Hls!Loaded(c) \in Responses /\ Hls!Loaded(c).up = c.up
           /\ Remains(Hls!Loaded(c)) = Remains(c)
           /\ c.cur # <<>> \/ c.rest # <<>> => Hls!Loaded(c).cur # <<>>
<1>1. CASE ~(c.cur = <<>> /\ c.rest # <<>>)
  <2>1. Hls!Loaded(c) = c
    BY <1>1 DEF Hls!Loaded
  <2> QED BY <1>1, <2>1
<1>2. CASE c.cur = <<>> /\ c.rest # <<>>
  <2>1. PICK rest \in Seq(Seq(Nat) \ {<<>>}) : rest = c.rest
    BY DEF Responses
  <2>2. Hls!Loaded(c) = [c EXCEPT !.cur = Head(rest), !.rest = Tail(rest)]
    BY <1>2, <2>1 DEF Hls!Loaded
  <2>3. rest # <<>>
    BY <1>2, <2>1
  <2>4. Head(rest) \in Seq(Nat) \ {<<>>} /\ Tail(rest) \in Seq(Seq(Nat) \ {<<>>}) /\ Head(rest) = rest[1]
    BY <2>3
  <2>5. FlattenSeq(rest) = Head(rest) \o FlattenSeq(Tail(rest))
    <3>1. rest \in Seq(Seq(Nat)) /\ 1 \in 1..Len(rest)
      BY <2>3, ChunksFlatten
    <3>2. FlattenSeq(SubSeq(rest, 1, Len(rest))) = rest[1] \o FlattenSeq(SubSeq(rest, 1 + 1, Len(rest)))
      BY <3>1, FlattenNext
    <3>3. SubSeq(rest, 1, Len(rest)) = rest
      BY <3>1, SubSeqFull
    <3>4. Tail(rest) = SubSeq(rest, 1 + 1, Len(rest))
      BY <2>3
    <3> QED BY <2>4, <3>2, <3>3, <3>4
  <2>6. Remains(c) = FlattenSeq(rest)
    <3>1. FlattenSeq(rest) \in Seq(Nat)
      BY ChunksFlatten
    <3>2. <<>> \o FlattenSeq(rest) = FlattenSeq(rest)
      BY <3>1, ConcatEmptySeq
    <3> QED BY <1>2, <2>1, <3>2 DEF Remains
  <2>7. Remains(Hls!Loaded(c)) = Head(rest) \o FlattenSeq(Tail(rest))
    <3>1. Hls!Loaded(c).cur = Head(rest) /\ Hls!Loaded(c).rest = Tail(rest)
      BY <2>2 DEF Responses
    <3> QED BY <3>1 DEF Remains
  <2>8. Remains(Hls!Loaded(c)) = Remains(c)
    BY <2>5, <2>6, <2>7
  <2>9. Hls!Loaded(c) \in Responses
    <3>1. Head(rest) \in Seq(Nat)
      BY <2>4
    <3> QED BY <2>2, <2>4, <3>1 DEF Responses
  <2>10. Hls!Loaded(c).cur # <<>> /\ Hls!Loaded(c).up = c.up
    BY <2>2, <2>4 DEF Responses
  <2> QED BY <2>8, <2>9, <2>10
<1> QED BY <1>1, <1>2

\* n units are taken.
Without(c, n) == [c EXCEPT !.cur = SubSeq(c.cur, n + 1, Len(c.cur))]

LEMMA TakenRemains ==
    ASSUME NEW c \in Responses, NEW n \in 1..Len(c.cur)
    PROVE  /\ Without(c, n) \in Responses /\ Without(c, n).up = c.up
           /\ SubSeq(c.cur, 1, n) \in Seq(Nat)
           /\ MadeOf(Remains(c), SubSeq(c.cur, 1, n), Remains(Without(c, n)))
<1>1. PICK cur \in Seq(Nat) : cur = c.cur
  BY DEF Responses
<1>2. PICK rest \in Seq(Seq(Nat) \ {<<>>}) : rest = c.rest
  BY DEF Responses
<1>3. n \in 0..Len(cur)
  BY <1>1
<1>4. PICK a \in Seq(Nat) : a = SubSeq(cur, 1, n)
  BY <1>3, TwoPortions
<1>5. PICK b \in Seq(Nat) : b = SubSeq(cur, n + 1, Len(cur))
  BY <1>3, TwoPortions
<1>6. a \o b = cur
  <2>1. SubSeq(cur, 1, n) \o SubSeq(cur, n + 1, Len(cur)) = cur
    BY <1>3, TwoPortions
  <2> QED BY <1>4, <1>5, <2>1
<1>7. Without(c, n) = [c EXCEPT !.cur = b]
  BY <1>1, <1>5 DEF Without
<1>8. PICK r \in Seq(Nat) : r = FlattenSeq(rest)
  BY ChunksFlatten
<1>9. Remains(c) = (a \o b) \o r
  BY <1>1, <1>2, <1>6, <1>8 DEF Remains
<1>10. Remains(Without(c, n)) = b \o r
  <2>1. Without(c, n).cur = b /\ Without(c, n).rest = rest
    BY <1>2, <1>7 DEF Responses
  <2> QED BY <1>8, <2>1 DEF Remains
<1>11. MadeOf(a \o (b \o r), a \o b, r)
  BY GroupedLeft
<1>12. MadeOf(Remains(c), a, Remains(Without(c, n)))
  BY <1>9, <1>10, <1>11 DEF MadeOf
<1>13. Without(c, n) \in Responses /\ Without(c, n).up = c.up
  BY <1>2, <1>7 DEF Responses
<1> QED BY <1>1, <1>4, <1>12, <1>13

-----------------------------------------------------------------------------
(* The stream, for what b says the URLs have *)

BodiesOf(b, s) == [k \in DOMAIN s |-> b[s[k]]]
AllOf(b, s) == FlattenSeq(BodiesOf(b, s))

\* The bodies of the segments from the n-th.
Later(b, s, n) == FlattenSeq(SubSeq(BodiesOf(b, s), n, Len(s)))

\* What is left of the segment that is asked for or read.
Here(b, s, n, c, t) ==
    IF c # None THEN Remains(c) ELSE IF t # None THEN b[s[n - 1]] ELSE <<>>

Flow(b, s, n, c, t, o, well) == Going(AllOf(b, s), o, Here(b, s, n, c, t) \o Later(b, s, n), well)

LEMMA BodiesTyped ==
    ASSUME NEW b \in [AllUrls -> Seq(Nat)], NEW s \in Seq(AllUrls)
    PROVE  /\ BodiesOf(b, s) \in Seq(Seq(Nat)) /\ Len(BodiesOf(b, s)) = Len(s)
           /\ \A k \in 1..Len(s) : s[k] \in AllUrls /\ BodiesOf(b, s)[k] = b[s[k]]
           /\ AllOf(b, s) \in Seq(Nat)
<1>1. PICK n \in Nat : n = Len(s) /\ DOMAIN s = 1..n /\ \A k \in 1..n : s[k] \in AllUrls
  <2>1. Len(s) \in Nat /\ DOMAIN s = 1..Len(s) /\ \A k \in 1..Len(s) : s[k] \in AllUrls
    OBVIOUS
  <2> QED BY <2>1, Zenon
<1>2. BodiesOf(b, s) \in [1..n -> Seq(Nat)] /\ \A k \in 1..n : BodiesOf(b, s)[k] = b[s[k]]
  BY <1>1 DEF BodiesOf
<1>3. BodiesOf(b, s) \in Seq(Seq(Nat)) /\ Len(BodiesOf(b, s)) = n
  BY <1>2, FunctionIsSeq
<1>4. AllOf(b, s) \in Seq(Nat)
  BY <1>3, FlattenType DEF AllOf
<1> QED BY <1>1, <1>2, <1>3, <1>4

LEMMA LaterSteps ==
    ASSUME NEW b \in [AllUrls -> Seq(Nat)], NEW s \in Seq(AllUrls)
    PROVE  /\ Later(b, s, 1) = AllOf(b, s)
           /\ \A n \in 1..Len(s) : Later(b, s, n) = b[s[n]] \o Later(b, s, n + 1)
           /\ \A n \in 1..(Len(s) + 1) : Later(b, s, n) \in Seq(Nat)
           /\ Later(b, s, Len(s) + 1) = <<>>
<1>1. PICK bodies \in Seq(Seq(Nat)) : bodies = BodiesOf(b, s)
  BY BodiesTyped
<1>2. PICK m \in Nat : m = Len(s) /\ m = Len(bodies) /\ \A k \in 1..m : bodies[k] = b[s[k]]
  <2>1. Len(s) \in Nat
    OBVIOUS
  <2> QED BY <1>1, <2>1, BodiesTyped
<1>3. \A n : Later(b, s, n) = FlattenSeq(SubSeq(bodies, n, m))
  BY <1>1, <1>2 DEF Later
<1>4. Later(b, s, 1) = AllOf(b, s)
  <2>1. SubSeq(bodies, 1, m) = bodies
    BY <1>2, SubSeqFull
  <2> QED BY <1>1, <1>3, <2>1 DEF AllOf
<1>5. ASSUME NEW n \in 1..m PROVE Later(b, s, n) = b[s[n]] \o Later(b, s, n + 1)
  <2>1. n \in 1..Len(bodies)
    BY <1>2
  <2>2. FlattenSeq(SubSeq(bodies, n, Len(bodies))) = bodies[n] \o FlattenSeq(SubSeq(bodies, n + 1, Len(bodies)))
    BY <2>1, FlattenNext
  <2> QED BY <1>2, <1>3, <2>2
<1>6. ASSUME NEW n \in 1..(m + 1) PROVE Later(b, s, n) \in Seq(Nat)
  <2>1. SubSeq(bodies, n, m) \in Seq(Seq(Nat))
    <3>1. \A i \in n..m : bodies[i] \in Seq(Nat)
      BY <1>2
    <3> QED BY <3>1, SubSeqProperties
  <2> QED BY <1>3, <2>1, FlattenType
<1>7. Later(b, s, m + 1) = <<>>
  <2>1. SubSeq(bodies, m + 1, m) = <<>>
    BY SubSeqEmpty
  <2> QED BY <1>3, <2>1, FlattenEmpty
<1> QED BY <1>2, <1>4, <1>5, <1>6, <1>7

\* Nothing is asked for yet.
LEMMA FlowStarts ==
    ASSUME NEW b \in [AllUrls -> Seq(Nat)], NEW s \in Seq(AllUrls), NEW well
    PROVE  Flow(b, s, 1, None, None, <<>>, well)
<1>1. AllOf(b, s) \in Seq(Nat) /\ Later(b, s, 1) = AllOf(b, s)
  BY BodiesTyped, LaterSteps
<1>2. Going(AllOf(b, s), <<>>, AllOf(b, s), well)
  BY <1>1, GoingStarts
<1>3. <<>> \o AllOf(b, s) = AllOf(b, s)
  BY <1>1, ConcatEmptySeq
<1> QED BY <1>1, <1>2, <1>3 DEF Flow, Here

LEMMA HereTyped ==
    ASSUME NEW b \in [AllUrls -> Seq(Nat)], NEW s \in Seq(AllUrls), NEW n \in 1..(Len(s) + 1), NEW c, NEW t,
           c # None => c \in Responses, t # None => n > 1
    PROVE  Here(b, s, n, c, t) \in Seq(Nat) /\ Later(b, s, n) \in Seq(Nat)
<1>1. c # None => Remains(c) \in Seq(Nat)
  BY RemainsTyped
<1>2. t # None => b[s[n - 1]] \in Seq(Nat)
  <2>1. t # None => n - 1 \in 1..Len(s)
    OBVIOUS
  <2> QED BY <2>1, BodiesTyped
<1>3. Later(b, s, n) \in Seq(Nat)
  BY LaterSteps
<1>4. <<>> \in Seq(Nat)
  OBVIOUS
<1> QED BY <1>1, <1>2, <1>3, <1>4 DEF Here

\* What is left of the segment is given up.
LEMMA FlowSkips ==
    ASSUME NEW b \in [AllUrls -> Seq(Nat)], NEW s \in Seq(AllUrls), NEW n \in 1..(Len(s) + 1), NEW c, NEW t,
           NEW o, NEW well, c # None => c \in Responses, t # None => n > 1,
           Flow(b, s, n, c, t, o, well)
    PROVE  Flow(b, s, n, None, None, o, FALSE)
<1>1. Here(b, s, n, c, t) \in Seq(Nat) /\ Later(b, s, n) \in Seq(Nat)
  BY HereTyped
<1>2. Going(AllOf(b, s), o, Here(b, s, n, c, t) \o Later(b, s, n), well)
  BY DEF Flow
<1>3. Going(AllOf(b, s), o, Later(b, s, n), FALSE)
  BY <1>1, <1>2, GoingSkips
<1>4. <<>> \o Later(b, s, n) = Later(b, s, n)
  BY <1>1, ConcatEmptySeq
<1>5. Here(b, s, n, None, None) = <<>>
  BY DEF Here
<1> QED BY <1>3, <1>4, <1>5 DEF Flow

\* Nothing is left of the segment.
LEMMA FlowLeaves ==
    ASSUME NEW b, NEW s, NEW n, NEW c, NEW o, NEW well,
           c # None => Remains(c) = <<>>, Flow(b, s, n, c, None, o, well)
    PROVE  Flow(b, s, n, None, None, o, well)
<1>1. Here(b, s, n, c, None) = <<>> /\ Here(b, s, n, None, None) = <<>>
  BY DEF Here
<1> QED BY <1>1 DEF Flow

\* The next segment is asked for.
LEMMA FlowOpens ==
    ASSUME NEW b \in [AllUrls -> Seq(Nat)], NEW s \in Seq(AllUrls), NEW n \in 1..Len(s), NEW t, t # None,
           NEW o, NEW well, Flow(b, s, n, None, None, o, well)
    PROVE  Flow(b, s, n + 1, None, t, o, well)
<1>1. Later(b, s, n) \in Seq(Nat) /\ Later(b, s, n) = b[s[n]] \o Later(b, s, n + 1)
  <2>1. n \in 1..(Len(s) + 1)
    OBVIOUS
  <2> QED BY <2>1, LaterSteps
<1>2. Here(b, s, n, None, None) = <<>>
  BY DEF Here
<1>3. Here(b, s, n + 1, None, t) = b[s[n]]
  <2>1. (n + 1) - 1 = n
    OBVIOUS
  <2> QED BY <2>1 DEF Here
<1>4. <<>> \o Later(b, s, n) = Later(b, s, n)
  BY <1>1, ConcatEmptySeq
<1>5. Going(AllOf(b, s), o, <<>> \o Later(b, s, n), well)
  BY <1>2 DEF Flow
<1>6. Going(AllOf(b, s), o, b[s[n]] \o Later(b, s, n + 1), well)
  BY <1>1, <1>4, <1>5
<1> QED BY <1>3, <1>6 DEF Flow

\* What is left to be read is the same.
LEMMA FlowStays ==
    ASSUME NEW b, NEW s, NEW n, NEW c, NEW t, NEW d, NEW u, NEW o, NEW well, NEW still, still => well,
           Here(b, s, n, c, t) = Here(b, s, n, d, u), Flow(b, s, n, c, t, o, well)
    PROVE  Flow(b, s, n, d, u, o, still)
BY GoingWorse DEF Flow

\* What was left is what is taken and what is left then.
LEMMA FlowTakes ==
    ASSUME NEW b \in [AllUrls -> Seq(Nat)], NEW s \in Seq(AllUrls), NEW n \in 1..(Len(s) + 1), NEW c, NEW d,
           c # None, d # None, d \in Responses, NEW a \in Seq(Nat), MadeOf(Remains(c), a, Remains(d)),
           NEW o, NEW well, Flow(b, s, n, c, None, o, well)
    PROVE  /\ Flow(b, s, n, d, None, o \o a, well)
           /\ Flow(b, s, n, d, None, o, FALSE)
<1>1. Remains(d) \in Seq(Nat) /\ Later(b, s, n) \in Seq(Nat)
  BY RemainsTyped, LaterSteps
<1>2. PICK r \in Seq(Nat), l \in Seq(Nat) : r = Remains(d) /\ l = Later(b, s, n)
  BY <1>1
<1>3. MadeOf(Remains(c), a, r)
  BY <1>2
<1>4. Going(AllOf(b, s), o, Remains(c) \o l, well)
  BY <1>2 DEF Flow, Here
<1>5. Going(AllOf(b, s), o, a \o (r \o l), well)
  <2>1. Going(AllOf(b, s), o, (a \o r) \o l, well)
    BY <1>3, <1>4 DEF MadeOf
  <2>2. MadeOf(a \o (r \o l), a \o r, l)
    BY GroupedLeft
  <2>3. a \o (r \o l) = (a \o r) \o l
    BY <2>2 DEF MadeOf
  <2> QED BY <2>1, <2>3
<1>6. r \o l \in Seq(Nat)
  BY ConcatProperties
<1>7. Going(AllOf(b, s), o \o a, r \o l, well) /\ Going(AllOf(b, s), o, r \o l, FALSE)
  BY <1>5, <1>6, GoingReads, GoingSkips
<1>8. Here(b, s, n, d, None) = r
  BY <1>2 DEF Here
<1> QED BY <1>2, <1>7, <1>8 DEF Flow

\* Wherever the stream ends.
LEMMA FlowEnds ==
    ASSUME NEW b \in [AllUrls -> Seq(Nat)], NEW s \in Seq(AllUrls), NEW n \in 1..(Len(s) + 1), NEW c, NEW t,
           NEW o, NEW well, c # None => c \in Responses, t # None => n > 1, Flow(b, s, n, c, t, o, well)
    PROVE  /\ PartOf(o, AllOf(b, s))
           /\ (n > Len(s) /\ c = None /\ t = None /\ well) => o = AllOf(b, s)
<1>1. Here(b, s, n, c, t) \in Seq(Nat) /\ Later(b, s, n) \in Seq(Nat)
  BY HereTyped
<1>2. PICK a \in Seq(Nat) : a = Here(b, s, n, c, t) \o Later(b, s, n)
  BY <1>1, ConcatProperties
<1>3. Going(AllOf(b, s), o, a, well)
  BY <1>2 DEF Flow
<1>4. PartOf(o, AllOf(b, s)) /\ (a = <<>> /\ well => o = AllOf(b, s))
  BY <1>3, GoingStops
<1>5. (n > Len(s) /\ c = None /\ t = None) => a = <<>>
  <2>1. SUFFICES ASSUME n > Len(s), c = None, t = None PROVE a = <<>>
    OBVIOUS
  <2>2. n = Len(s) + 1
    BY <2>1
  <2>3. Later(b, s, n) = <<>>
    BY <2>2, LaterSteps
  <2>4. Here(b, s, n, c, t) = <<>>
    BY <2>1 DEF Here
  <2> QED BY <1>2, <2>3, <2>4
<1> QED BY <1>4, <1>5

-----------------------------------------------------------------------------
(* The invariant *)

\* The stream is being read.
Streams(m, s, n, c, t, o, well) ==
    /\ n \in 1..(Len(s) + 1)
    /\ Flow(m[MaxRedirects], s, n, c, t, o, well)
    /\ t # None => n > 1 /\ m[t.hops][t.url] = m[MaxRedirects][s[n - 1]]

\* The stream has been read.
Streamed(m, s, o, well) ==
    PartOf(o, AllOf(m[MaxRedirects], s)) /\ (well => o = AllOf(m[MaxRedirects], s))

Well == ~broken /\ ~missed

HlsTypeOK ==
    /\ hlsPhase \in {"resolve", "scan", "packets", "ended", "failed"}
    /\ playlist \in AllUrls /\ segments \in Seq(AllUrls)
    /\ target # None => target.url \in AllUrls /\ target.hops \in 0..MaxRedirects
    /\ conn # None => conn \in Responses
    /\ target = None \/ conn = None
    /\ broken \in BOOLEAN /\ missed \in BOOLEAN

HlsInv ==
    /\ HlsTypeOK
    /\ conn # None /\ ~conn.up => broken
    /\ hlsPhase = "resolve" => next = 1 /\ conn = None
    /\ hlsPhase \in {"resolve", "failed"} => segments = <<>> /\ read = <<>>
    /\ hlsPhase \in {"scan", "packets"} => Streams(Contents, segments, next, conn, target, read, Well)
    /\ hlsPhase = "ended" => Streamed(Contents, segments, read, Well)

LEMMA NotNone ==
    /\ \A u \in AllUrls, h \in 0..MaxRedirects : [url |-> u, hops |-> h] # None
    /\ \A c \in Responses : c # None
BY WebAssumption DEF Hls!Requests, Hls!Responses, Hls!Urls, AllUrls, Responses

LEMMA HlsInit == Init => HlsInv
<1>1. SUFFICES ASSUME Hls!Init, playlist \in Sources PROVE HlsInv
  <2>1. ASSUME Init PROVE Hls!Init /\ playlist \in Sources
    BY <2>1 DEF Init, Hls!Init
  <2> QED BY <2>1
<1>2. playlist \in AllUrls /\ target = [url |-> playlist, hops |-> MaxRedirects] /\ MaxRedirects \in 0..MaxRedirects
  BY <1>1, WebAssumption, ContentsTyped DEF Hls!Init, Hls!Urls, AllUrls
<1>3. conn = None /\ broken = FALSE /\ hlsPhase = "resolve" /\ segments = <<>> /\ next = 1 /\ read = <<>> /\ missed = FALSE
  BY <1>1 DEF Hls!Init
<1>4. HlsTypeOK
  <2>1. target.url \in AllUrls /\ target.hops \in 0..MaxRedirects
    BY <1>2
  <2>2. <<>> \in Seq(AllUrls)
    OBVIOUS
  <2> QED BY <1>2, <1>3, <2>1, <2>2 DEF HlsTypeOK
<1> QED BY <1>3, <1>4 DEF HlsInv

\* When the reader is told of an end: what was read is the whole, or not all
\* went well.
LEMMA StreamStops ==
    ASSUME NEW m \in [0..MaxRedirects -> [AllUrls -> Seq(Nat)]], NEW s \in Seq(AllUrls), NEW n, NEW c, NEW t,
           NEW o, NEW well, c # None => c \in Responses, Streams(m, s, n, c, t, o, well),
           well => n > Len(s) /\ c = None /\ t = None
    PROVE  Streamed(m, s, o, well)
<1>1. PICK b \in [AllUrls -> Seq(Nat)] : b = m[MaxRedirects]
  BY ContentsTyped
<1>2. n \in 1..(Len(s) + 1) /\ (t # None => n > 1) /\ Flow(b, s, n, c, t, o, well)
  BY <1>1 DEF Streams
<1>3. PartOf(o, AllOf(b, s)) /\ ((n > Len(s) /\ c = None /\ t = None /\ well) => o = AllOf(b, s))
  BY <1>2, FlowEnds
<1> QED BY <1>1, <1>3 DEF Streamed

LEMMA FollowKeepsHls ==
    ASSUME HlsInv, Hls!Follow
    PROVE  HlsInv'
<1>1. /\ target # None /\ conn = None /\ target.url \in AllUrls /\ target.hops \in 0..MaxRedirects
      /\ Hls!Answers(target.url).kind = "redirect" /\ target.hops > 0
      /\ target' = [url |-> Hls!Answers(target.url).to, hops |-> target.hops - 1]
      /\ conn' = conn /\ broken' = broken /\ hlsPhase' = hlsPhase /\ playlist' = playlist
      /\ segments' = segments /\ next' = next /\ read' = read /\ missed' = missed
  BY DEF HlsInv, HlsTypeOK, Hls!Follow, Hls!Redirected, Hls!Hops, Hls!chainVars
<1>2. PICK to, h : to = Hls!Answers(target.url).to /\ h = target.hops - 1
  OBVIOUS
<1>3. to \in AllUrls /\ h \in 0..MaxRedirects /\ Contents[h][to] = Contents[target.hops][target.url]
  BY <1>1, <1>2, ContentsFollow
<1>4. target' = [url |-> to, hops |-> h] /\ target' # None
  BY <1>1, <1>2, <1>3, NotNone
<1>5. HlsTypeOK'
  BY <1>1, <1>3, <1>4 DEF HlsInv, HlsTypeOK
<1>6. ASSUME Streams(Contents, segments, next, conn, target, read, Well)
      PROVE  Streams(Contents, segments, next, conn, target, read, Well)'
  <2>1. PICK m : m = Contents /\ m = Contents'
    BY ContentsStay
  <2>2. PICK t : t = target' /\ t # None /\ t.hops = h /\ t.url = to
    BY <1>4
  <2>3. PICK b : b = m[MaxRedirects]
    OBVIOUS
  <2>4. Here(b, segments, next, conn, target) = Here(b, segments, next, conn, t)
    BY <1>1, <2>2 DEF Here
  <2>5. Flow(b, segments, next, conn, target, read, Well)
    BY <1>6, <2>1, <2>3 DEF Streams
  <2>6. Flow(b, segments, next, conn, t, read, Well)
    BY <2>4, <2>5, FlowStays
  <2>7. Streams(m, segments, next, conn, t, read, Well)
    BY <1>1, <1>3, <1>6, <2>1, <2>2, <2>3, <2>6 DEF Streams
  <2>8. Well' = Well
    BY <1>1 DEF Well
  <2> QED BY <1>1, <2>1, <2>2, <2>7, <2>8
<1>7. Streamed(Contents, segments, read, Well) => Streamed(Contents, segments, read, Well)'
  <2>1. Well' = Well
    BY <1>1 DEF Well
  <2> QED BY <1>1, <2>1, ContentsStay
<1>8. conn' = None
  BY <1>1
<1>9. (hlsPhase \in {"resolve", "failed"} => segments = <<>> /\ read = <<>>)' /\ (hlsPhase = "resolve" => next = 1)'
  BY <1>1 DEF HlsInv
<1>10. (hlsPhase \in {"scan", "packets"} => Streams(Contents, segments, next, conn, target, read, Well))'
  BY <1>1, <1>6 DEF HlsInv
<1>11. (hlsPhase = "ended" => Streamed(Contents, segments, read, Well))'
  BY <1>1, <1>7 DEF HlsInv
<1> QED BY <1>5, <1>8, <1>9, <1>10, <1>11 DEF HlsInv

LEMMA ResolveFailsKeepsHls ==
    ASSUME HlsInv, Hls!ResolveFails
    PROVE  HlsInv'
<1>1. /\ target' = None /\ conn = None /\ conn' = None /\ hlsPhase' = "failed"
      /\ segments = <<>> /\ read = <<>> /\ segments' = <<>> /\ read' = <<>>
      /\ playlist' = playlist /\ broken' = broken /\ missed' = missed
  BY DEF HlsInv, HlsTypeOK, Hls!ResolveFails, Hls!FetchFails
<1>2. HlsTypeOK'
  BY <1>1 DEF HlsInv, HlsTypeOK
<1> QED BY <1>1, <1>2 DEF HlsInv

\* The lines of a playlist are URLs.
LEMMA LinesTyped ==
    ASSUME playlist \in AllUrls, NEW web, NEW n \in 0..Len(web.entries), NEW cut \in BOOLEAN,
           web.entries \in Seq([dir : STRING \cup {None}, name : STRING])
    PROVE  /\ Hls!Lines(web, n, cut) \in Seq(AllUrls)
           /\ Hls!Lines(web, n, cut) # <<>> => Hls!Lines(web, n, cut)[1] \in AllUrls
<1>1. PICK entries \in Seq([dir : STRING \cup {None}, name : STRING]) : entries = web.entries
  OBVIOUS
<1>2. ASSUME NEW k \in 1..n PROVE Hls!Resolve(entries[k]) \in AllUrls
  <2>1. PICK e \in [dir : STRING \cup {None}, name : STRING] : e = entries[k]
    <3>1. Len(entries) \in Nat /\ n \in 0..Len(entries)
      BY <1>1
    <3>2. k \in 1..Len(entries)
      BY <3>1
    <3> QED BY <3>2, ElementOfSeq
  <2>2. e.name \in STRING /\ (e.dir # None => e.dir \in STRING) /\ playlist[1] \in STRING
    BY DEF AllUrls
  <2> QED BY <2>1, <2>2 DEF Hls!Resolve, AllUrls
<1>3. [k \in 1..n |-> Hls!Resolve(entries[k])] \in Seq(AllUrls)
  <2>1. n \in Nat
    BY <1>1
  <2>2. [k \in 1..n |-> Hls!Resolve(entries[k])] \in [1..n -> AllUrls]
    BY <1>2
  <2> QED BY <2>1, <2>2, FunctionIsSeq
<1>4. (IF cut THEN <<CutUrl>> ELSE <<>>) \in Seq(AllUrls)
  <2>1. CutUrl \in AllUrls
    BY WebAssumption DEF Hls!Urls, AllUrls
  <2> QED BY <2>1
<1>5. Hls!Lines(web, n, cut) \in Seq(AllUrls)
  BY <1>1, <1>3, <1>4, ConcatProperties DEF Hls!Lines
<1>6. \A lines \in Seq(AllUrls) : lines # <<>> => lines[1] \in AllUrls
  OBVIOUS
<1> QED BY <1>5, <1>6

LEMMA ReadPlaylistKeepsHls ==
    ASSUME HlsInv, Hls!ReadPlaylist
    PROVE  HlsInv'
<1> DEFINE web == Hls!Answers(target.url)
           all == IF web.kind = "playlist" THEN Len(web.entries) ELSE 0
<1>1. /\ hlsPhase = "resolve" /\ target # None /\ target.url \in AllUrls
      /\ web.kind \in {"playlist", "media"}
      /\ conn = None /\ conn' = None /\ segments = <<>> /\ next = 1 /\ next' = 1
      /\ read = <<>> /\ read' = <<>> /\ missed' = missed /\ playlist \in AllUrls
  BY DEF HlsInv, HlsTypeOK, Hls!ReadPlaylist, Hls!Successful
<1>2. PICK n \in 0..all, cut \in BOOLEAN :
         LET lines == Hls!Lines(web, n, cut)
         IN  /\ broken' = (broken \/ n < all)
             /\ IF web.kind # "playlist" \/ web.fmp4 \/ lines = <<>>
                THEN /\ hlsPhase' = "failed" /\ target' = None
                     /\ UNCHANGED <<depth, playlist, segments>>
                ELSE IF web.master
                THEN /\ depth' = depth - 1
                     /\ playlist' = lines[1]
                     /\ IF depth > 1 THEN Hls!Open(lines[1]) /\ UNCHANGED hlsPhase
                        ELSE target' = None /\ hlsPhase' = "failed"
                     /\ UNCHANGED segments
                ELSE /\ segments' = lines
                     /\ hlsPhase' = "scan" /\ target' = None
                     /\ UNCHANGED <<depth, playlist>>
  BY DEF Hls!ReadPlaylist
<1>3. PICK lines : lines = Hls!Lines(web, n, cut)
  OBVIOUS
<1>4. broken' \in BOOLEAN /\ missed' \in BOOLEAN
  BY <1>1, <1>2 DEF HlsInv, HlsTypeOK
<1>5. CASE web.kind # "playlist" \/ web.fmp4 \/ lines = <<>>
  <2>1. hlsPhase' = "failed" /\ target' = None /\ playlist' = playlist /\ segments' = segments
    BY <1>2, <1>3, <1>5
  <2>2. HlsTypeOK'
    BY <1>1, <1>4, <2>1 DEF HlsInv, HlsTypeOK
  <2> QED BY <1>1, <2>1, <2>2 DEF HlsInv
<1>6. ASSUME web.kind = "playlist", lines # <<>>
      PROVE  lines \in Seq(AllUrls) /\ lines[1] \in AllUrls
  <2>1. target.url \in DOMAIN Web /\ web = Web[target.url]
    BY <1>1, ContentsFetched, ContentsTyped
  <2>2. web.entries \in Seq([dir : STRING \cup {None}, name : STRING])
    BY <1>6, <2>1, WebAssumption
  <2>3. n \in 0..Len(web.entries)
    BY <1>6
  <2> HIDE DEF web
  <2> QED BY <1>1, <1>3, <1>6, <2>2, <2>3, LinesTyped
<1>7. CASE ~(web.kind # "playlist" \/ web.fmp4 \/ lines = <<>>) /\ web.master
  <2>1. lines[1] \in AllUrls
    BY <1>6, <1>7
  <2>2. /\ playlist' = lines[1] /\ segments' = segments
        /\ \/ target' = [url |-> lines[1], hops |-> MaxRedirects] /\ hlsPhase' = hlsPhase
           \/ target' = None /\ hlsPhase' = "failed"
    BY <1>2, <1>3, <1>7 DEF Hls!Open
  <2>3. target' # None => target'.url \in AllUrls /\ target'.hops \in 0..MaxRedirects
    BY <2>1, <2>2, ContentsTyped
  <2>4. HlsTypeOK'
    BY <1>1, <1>4, <2>1, <2>2, <2>3 DEF HlsInv, HlsTypeOK
  <2> QED BY <1>1, <2>2, <2>4 DEF HlsInv
<1>8. CASE ~(web.kind # "playlist" \/ web.fmp4 \/ lines = <<>>) /\ ~web.master
  <2>1. lines \in Seq(AllUrls)
    BY <1>6, <1>8
  <2>2. segments' = lines /\ hlsPhase' = "scan" /\ target' = None /\ playlist' = playlist
    BY <1>2, <1>3, <1>8
  <2>3. HlsTypeOK'
    BY <1>1, <1>4, <2>1, <2>2 DEF HlsInv, HlsTypeOK
  <2>4. PICK m : m = Contents' /\ m \in [0..MaxRedirects -> [AllUrls -> Seq(Nat)]]
    BY ContentsStay, ContentsTyped
  <2>5. Flow(m[MaxRedirects], lines, 1, None, None, <<>>, Well')
    <3>1. m[MaxRedirects] \in [AllUrls -> Seq(Nat)]
      BY <2>4, ContentsTyped
    <3> QED BY <2>1, <3>1, FlowStarts
  <2>6. 1 \in 1..(Len(lines) + 1)
    BY <2>1
  <2>7. Streams(m, lines, 1, None, None, <<>>, Well')
    BY <2>5, <2>6 DEF Streams
  <2>8. Streams(Contents, segments, next, conn, target, read, Well)'
    BY <1>1, <2>2, <2>4, <2>7
  <2> QED BY <1>1, <2>2, <2>3, <2>8 DEF HlsInv
<1> QED BY <1>5, <1>7, <1>8

\* A step while the stream is read.
LEMMA ReadingStep ==
    ASSUME HlsInv, playlist' = playlist, segments' = segments,
           target' # None => target'.url \in AllUrls /\ target'.hops \in 0..MaxRedirects,
           conn' # None => conn' \in Responses, target' = None \/ conn' = None,
           broken' \in BOOLEAN, missed' \in BOOLEAN,
           conn' # None /\ ~conn'.up => broken',
           Streams(Contents, segments, next', conn', target', read', Well'),
           \/ hlsPhase' \in {"scan", "packets"}
           \/ hlsPhase' = "ended" /\ (Well' => next' > Len(segments) /\ conn' = None /\ target' = None)
    PROVE  HlsInv'
<1>1. HlsTypeOK'
  BY DEF HlsInv, HlsTypeOK
<1>2. PICK m \in [0..MaxRedirects -> [AllUrls -> Seq(Nat)]] : m = Contents /\ m = Contents'
  BY ContentsStay, ContentsTyped
<1>3. Streams(Contents, segments, next, conn, target, read, Well)'
  BY <1>2
<1>4. ASSUME hlsPhase' = "ended" PROVE Streamed(Contents, segments, read, Well)'
  <2>1. PICK s, n, c, t, o, well :
           s = segments /\ n = next' /\ c = conn' /\ t = target' /\ o = read' /\ well = Well'
    OBVIOUS
  <2>2. s \in Seq(AllUrls) /\ Streams(m, s, n, c, t, o, well)
    BY <1>2, <2>1 DEF HlsInv, HlsTypeOK
  <2>3. (c # None => c \in Responses) /\ (well => n > Len(s) /\ c = None /\ t = None)
    BY <1>4, <2>1
  <2>4. Streamed(m, s, o, well)
    BY <2>2, <2>3, StreamStops
  <2> QED BY <1>2, <2>1, <2>4
<1>5. hlsPhase' \in {"scan", "packets", "ended"}
  OBVIOUS
<1> QED BY <1>1, <1>3, <1>4, <1>5 DEF HlsInv

\* What the steps below start from.
LEMMA WhileReading ==
    ASSUME HlsInv, Hls!Reading
    PROVE  /\ HlsTypeOK /\ Streams(Contents, segments, next, conn, target, read, Well)
           /\ hlsPhase \in {"scan", "packets"}
           /\ conn # None /\ ~conn.up => broken
BY DEF HlsInv, Hls!Reading

LEMMA ServeKeepsHls ==
    ASSUME HlsInv, NEW n, Hls!Serve(n)
    PROVE  HlsInv'
<1>1. /\ conn # None /\ conn.up /\ n \in 1..Len(Hls!Loaded(conn).cur)
      /\ conn' = [Hls!Loaded(conn) EXCEPT !.cur = SubSeq(@, n + 1, Len(@))]
      /\ read' = read \o SubSeq(Hls!Loaded(conn).cur, 1, n)
      /\ target' = target /\ broken' = broken /\ missed' = missed /\ hlsPhase' = hlsPhase
      /\ playlist' = playlist /\ segments' = segments /\ next' = next
  BY DEF Hls!Serve, Hls!Bytes, Hls!Delivered
<1>2. /\ HlsTypeOK /\ Streams(Contents, segments, next, conn, target, read, Well)
      /\ hlsPhase \in {"scan", "packets"}
  BY WhileReading DEF Hls!Serve
<1>3. conn \in Responses /\ target = None
  BY <1>1, <1>2 DEF HlsTypeOK
<1>4. PICK l \in Responses : l = Hls!Loaded(conn) /\ l.up = conn.up /\ Remains(l) = Remains(conn)
  BY <1>3, LoadedRemains
<1>5. PICK d \in Responses, a \in Seq(Nat) :
         d = conn' /\ a = SubSeq(l.cur, 1, n) /\ d.up = l.up /\ MadeOf(Remains(l), a, Remains(d))
  <2>1. Without(l, n) = conn'
    BY <1>1, <1>4 DEF Without
  <2>2. n \in 1..Len(l.cur)
    BY <1>1, <1>4
  <2> QED BY <2>1, <2>2, TakenRemains
<1>6. Streams(Contents, segments, next, d, None, read \o a, Well)
  <2>1. PICK b \in [AllUrls -> Seq(Nat)] : b = Contents[MaxRedirects]
    BY ContentsTyped
  <2>2. PICK s \in Seq(AllUrls), k \in 1..(Len(segments) + 1) : s = segments /\ k = next
    BY <1>2 DEF HlsTypeOK, Streams
  <2>3. Flow(b, s, k, conn, None, read, Well)
    BY <1>2, <1>3, <2>1, <2>2 DEF Streams
  <2>4. MadeOf(Remains(conn), a, Remains(d)) /\ d # None
    BY <1>4, <1>5, NotNone
  <2>5. Flow(b, s, k, d, None, read \o a, Well)
    BY <1>1, <2>2, <2>3, <2>4, FlowTakes
  <2> QED BY <2>1, <2>2, <2>5 DEF Streams
<1>7. Streams(Contents, segments, next', conn', target', read', Well')
  <2>1. Well' = Well
    BY <1>1 DEF Well
  <2>2. read' = read \o a /\ target' = None /\ conn' = d /\ next' = next
    BY <1>1, <1>3, <1>4, <1>5
  <2> QED BY <1>6, <2>1, <2>2
<1>8. target' = None /\ conn' \in Responses /\ conn'.up /\ broken' \in BOOLEAN /\ missed' \in BOOLEAN
  BY <1>1, <1>2, <1>3, <1>4, <1>5 DEF HlsTypeOK
<1>9. hlsPhase' \in {"scan", "packets"} /\ playlist' = playlist /\ segments' = segments
  BY <1>1, <1>2
<1> QED BY <1>7, <1>8, <1>9, ReadingStep

LEMMA BreaksKeepsHls ==
    ASSUME HlsInv, Hls!Breaks
    PROVE  HlsInv'
<1>1. /\ conn # None /\ conn.up
      /\ conn' = [conn EXCEPT !.up = FALSE] /\ broken' = TRUE
      /\ target' = target /\ missed' = missed /\ hlsPhase' = hlsPhase
      /\ playlist' = playlist /\ segments' = segments /\ next' = next /\ read' = read
  BY DEF Hls!Breaks, Hls!Break, Hls!chainVars
<1>2. /\ HlsTypeOK /\ Streams(Contents, segments, next, conn, target, read, Well)
      /\ hlsPhase \in {"scan", "packets"}
  BY WhileReading DEF Hls!Breaks
<1>3. conn \in Responses /\ target = None
  BY <1>1, <1>2 DEF HlsTypeOK
<1>4. /\ conn' \in Responses /\ conn'.cur = conn.cur /\ conn'.rest = conn.rest
      /\ Remains(conn') = Remains(conn)
  BY <1>1, <1>3 DEF Responses, Remains
<1>5. PICK d \in Responses : d = conn' /\ Remains(d) = Remains(conn) /\ d # None
  BY <1>4, NotNone
<1>6. Streams(Contents, segments, next, d, None, read, FALSE)
  <2>1. PICK b : b = Contents[MaxRedirects]
    OBVIOUS
  <2>2. Here(b, segments, next, conn, None) = Here(b, segments, next, d, None)
    BY <1>1, <1>5 DEF Here
  <2>3. Flow(b, segments, next, conn, None, read, Well)
    BY <1>2, <1>3, <2>1 DEF Streams
  <2>4. Flow(b, segments, next, d, None, read, FALSE)
    BY <2>2, <2>3, FlowStays
  <2> QED BY <1>2, <2>1, <2>4 DEF Streams
<1>7. Well' = FALSE
  BY <1>1 DEF Well
<1>8. Streams(Contents, segments, next', conn', target', read', Well')
  BY <1>1, <1>3, <1>5, <1>6, <1>7
<1>9. target' = None /\ broken' \in BOOLEAN /\ missed' \in BOOLEAN
  BY <1>1, <1>2, <1>3 DEF HlsTypeOK
<1>10. hlsPhase' \in {"scan", "packets"} /\ playlist' = playlist /\ segments' = segments
  BY <1>1, <1>2
<1> QED BY <1>1, <1>4, <1>8, <1>9, <1>10, ReadingStep

\* Nothing is left of a segment at whose end the reader is, unless its
\* connection broke.
LEMMA AtTheEnd ==
    ASSUME HlsInv, Hls!Reading, target = None, conn = None \/ Hls!ReadsEnd
    PROVE  Streams(Contents, segments, next, None, None, read, Well)
<1>1. /\ HlsTypeOK /\ Streams(Contents, segments, next, conn, target, read, Well)
      /\ (conn # None /\ ~conn.up) => broken
  BY WhileReading
<1>2. PICK b \in [AllUrls -> Seq(Nat)] : b = Contents[MaxRedirects]
  BY ContentsTyped
<1>3. PICK s \in Seq(AllUrls), k \in 1..(Len(segments) + 1) : s = segments /\ k = next
  BY <1>1 DEF HlsTypeOK, Streams
<1>4. Flow(b, s, k, conn, None, read, Well) /\ (conn # None => conn \in Responses)
  BY <1>1, <1>2, <1>3 DEF Streams, HlsTypeOK
<1>5. ASSUME Flow(b, s, k, None, None, read, Well)
      PROVE  Streams(Contents, segments, next, None, None, read, Well)
  BY <1>2, <1>3, <1>5 DEF Streams
<1>6. CASE conn # None /\ ~conn.up
  <2>1. Well = FALSE
    BY <1>1, <1>6 DEF Well
  <2>2. Flow(b, s, k, None, None, read, FALSE)
    BY <1>3, <1>4, FlowSkips
  <2> QED BY <1>5, <2>1, <2>2
<1>7. CASE conn # None /\ conn.up
  <2>1. conn.cur = <<>> /\ conn.rest = <<>>
    BY <1>7 DEF Hls!ReadsEnd
  <2>2. Remains(conn) = <<>>
    BY <2>1, FlattenEmpty, ConcatEmptySeq DEF Remains
  <2>3. Flow(b, s, k, None, None, read, Well)
    BY <1>4, <2>2, FlowLeaves
  <2> QED BY <1>5, <2>3
<1>8. CASE conn = None
  BY <1>4, <1>5, <1>8
<1> QED BY <1>6, <1>7, <1>8

LEMMA OpenNextKeepsHls ==
    ASSUME HlsInv, Hls!OpenNext
    PROVE  HlsInv'
<1>1. /\ Hls!Reading /\ target = None /\ (conn = None \/ Hls!ReadsEnd) /\ next <= Len(segments)
      /\ target' = [url |-> segments[next], hops |-> MaxRedirects] /\ next' = next + 1 /\ conn' = None
      /\ broken' = broken /\ missed' = missed /\ hlsPhase' = hlsPhase
      /\ playlist' = playlist /\ segments' = segments /\ read' = read
  BY DEF Hls!OpenNext, Hls!Open, Hls!Advance
<1>2. HlsTypeOK /\ hlsPhase \in {"scan", "packets"}
  BY <1>1, WhileReading
<1>3. Streams(Contents, segments, next, None, None, read, Well)
  BY <1>1, AtTheEnd
<1>4. PICK s \in Seq(AllUrls), k \in 1..Len(segments) : s = segments /\ k = next
  BY <1>1, <1>2, <1>3 DEF HlsTypeOK, Streams
<1>5. s[k] \in AllUrls /\ k + 1 \in 1..(Len(s) + 1) /\ k + 1 > 1 /\ (k + 1) - 1 = k
  BY <1>4
<1>6. PICK t : t = target' /\ t # None /\ t.url = s[k] /\ t.hops = MaxRedirects
  <2>1. PICK u \in AllUrls : u = s[k]
    BY <1>5
  <2>2. [url |-> u, hops |-> MaxRedirects] # None
    BY ContentsTyped, NotNone
  <2>3. target' = [url |-> u, hops |-> MaxRedirects]
    BY <1>1, <1>4, <2>1
  <2> QED BY <2>1, <2>2, <2>3
<1>7. Streams(Contents, s, k + 1, None, t, read, Well)
  <2>1. PICK b \in [AllUrls -> Seq(Nat)] : b = Contents[MaxRedirects]
    BY ContentsTyped
  <2>2. Flow(b, s, k, None, None, read, Well)
    BY <1>3, <1>4, <2>1 DEF Streams
  <2>3. Flow(b, s, k + 1, None, t, read, Well)
    BY <1>4, <1>6, <2>2, FlowOpens
  <2> QED BY <1>5, <1>6, <2>1, <2>3 DEF Streams
<1>8. Streams(Contents, segments, next', conn', target', read', Well')
  <2>1. Well' = Well
    BY <1>1 DEF Well
  <2> QED BY <1>1, <1>4, <1>6, <1>7, <2>1
<1>9. target'.url \in AllUrls /\ target'.hops \in 0..MaxRedirects
  BY <1>5, <1>6, ContentsTyped
<1>10. conn' = None /\ broken' \in BOOLEAN /\ missed' \in BOOLEAN
  BY <1>1, <1>2 DEF HlsTypeOK
<1>11. hlsPhase' \in {"scan", "packets"} /\ playlist' = playlist /\ segments' = segments
  BY <1>1, <1>2
<1> QED BY <1>8, <1>9, <1>10, <1>11, ReadingStep

LEMMA OpenedKeepsHls ==
    ASSUME HlsInv, Hls!Opened
    PROVE  HlsInv'
<1>1. PICK known \in BOOLEAN :
      /\ Hls!Reading /\ target # None /\ Hls!Answers(target.url).kind \in {"playlist", "media"}
      /\ conn' = [cur |-> <<>>, rest |-> Web[target.url].chunks, sized |-> known, up |-> TRUE]
      /\ target' = None
      /\ broken' = broken /\ missed' = missed /\ hlsPhase' = hlsPhase
      /\ playlist' = playlist /\ segments' = segments /\ next' = next /\ read' = read
  BY DEF Hls!Opened, Hls!Fetched, Hls!Successful, Hls!chainVars
<1>2. /\ HlsTypeOK /\ Streams(Contents, segments, next, conn, target, read, Well)
      /\ hlsPhase \in {"scan", "packets"}
  BY <1>1, WhileReading
<1>3. target.url \in AllUrls /\ target.hops \in 0..MaxRedirects /\ conn = None
  BY <1>1, <1>2 DEF HlsTypeOK
<1>4. PICK chunks \in Seq(Seq(Nat) \ {<<>>}) :
         chunks = Web[target.url].chunks /\ Contents[target.hops][target.url] = FlattenSeq(chunks)
  BY <1>1, <1>3, ContentsFetched
<1>5. conn' \in Responses /\ conn' # None /\ conn'.up
  <2>1. <<>> \in Seq(Nat) /\ TRUE \in BOOLEAN
    OBVIOUS
  <2>2. [cur |-> <<>>, rest |-> chunks, sized |-> known, up |-> TRUE] \in Responses
    BY <2>1 DEF Responses
  <2> QED BY <1>1, <1>4, <2>2, NotNone
<1>6. Remains(conn') = FlattenSeq(chunks)
  <2>1. FlattenSeq(chunks) \in Seq(Nat)
    BY ChunksFlatten
  <2>2. conn'.cur = <<>> /\ conn'.rest = chunks
    BY <1>1, <1>4
  <2>3. <<>> \o FlattenSeq(chunks) = FlattenSeq(chunks)
    BY <2>1, ConcatEmptySeq
  <2> QED BY <2>2, <2>3 DEF Remains
<1>7. PICK d \in Responses : d = conn' /\ d # None /\ Remains(d) = FlattenSeq(chunks)
  BY <1>5, <1>6
<1>8. Streams(Contents, segments, next, d, None, read, Well)
  <2>1. PICK b : b = Contents[MaxRedirects]
    OBVIOUS
  <2>2. Here(b, segments, next, None, target) = b[segments[next - 1]]
    BY <1>1 DEF Here
  <2>3. b[segments[next - 1]] = FlattenSeq(chunks)
    BY <1>1, <1>2, <1>4, <2>1 DEF Streams
  <2>4. Here(b, segments, next, d, None) = FlattenSeq(chunks)
    BY <1>7 DEF Here
  <2>5. Flow(b, segments, next, None, target, read, Well)
    BY <1>2, <1>3, <2>1 DEF Streams
  <2>6. Flow(b, segments, next, d, None, read, Well)
    BY <2>2, <2>3, <2>4, <2>5, FlowStays
  <2> QED BY <1>2, <2>1, <2>6 DEF Streams
<1>9. Streams(Contents, segments, next', conn', target', read', Well')
  <2>1. Well' = Well
    BY <1>1 DEF Well
  <2> QED BY <1>1, <1>7, <1>8, <2>1
<1>10. target' = None /\ broken' \in BOOLEAN /\ missed' \in BOOLEAN
  BY <1>1, <1>2 DEF HlsTypeOK
<1>11. hlsPhase' \in {"scan", "packets"} /\ playlist' = playlist /\ segments' = segments
  BY <1>1, <1>2
<1> QED BY <1>5, <1>9, <1>10, <1>11, ReadingStep

LEMMA OpenFailsKeepsHls ==
    ASSUME HlsInv, Hls!OpenFails
    PROVE  HlsInv'
<1>1. /\ Hls!Reading /\ target # None /\ target' = None /\ conn' = conn /\ broken' = broken /\ missed' = TRUE
      /\ hlsPhase' \in {"packets", "ended"}
      /\ playlist' = playlist /\ segments' = segments /\ next' = next /\ read' = read
  BY DEF Hls!OpenFails, Hls!FetchFails, Hls!Told
<1>2. HlsTypeOK /\ Streams(Contents, segments, next, conn, target, read, Well)
  BY <1>1, WhileReading
<1>3. conn = None
  BY <1>1, <1>2 DEF HlsTypeOK
<1>4. Streams(Contents, segments, next, None, None, read, FALSE)
  <2>1. PICK b \in [AllUrls -> Seq(Nat)] : b = Contents[MaxRedirects]
    BY ContentsTyped
  <2>2. PICK s \in Seq(AllUrls), k \in 1..(Len(segments) + 1) : s = segments /\ k = next
    BY <1>2 DEF HlsTypeOK, Streams
  <2>3. Flow(b, s, k, None, target, read, Well) /\ k > 1
    BY <1>1, <1>2, <1>3, <2>1, <2>2 DEF Streams
  <2>4. Flow(b, s, k, None, None, read, FALSE)
    BY <2>2, <2>3, FlowSkips
  <2> QED BY <2>1, <2>2, <2>4 DEF Streams
<1>5. Well' = FALSE
  BY <1>1 DEF Well
<1>6. Streams(Contents, segments, next', conn', target', read', Well')
  BY <1>1, <1>3, <1>4, <1>5
<1>7. target' = None /\ conn' = None /\ broken' \in BOOLEAN /\ missed' \in BOOLEAN
  BY <1>1, <1>2, <1>3 DEF HlsTypeOK
<1> QED BY <1>1, <1>5, <1>6, <1>7, ReadingStep

LEMMA ReadFailsKeepsHls ==
    ASSUME HlsInv, Hls!ReadFails
    PROVE  HlsInv'
<1>1. /\ Hls!Reading /\ conn # None /\ ~conn.up
      /\ \/ conn' = conn
         \/ conn' = [Hls!Loaded(conn) EXCEPT !.up = TRUE, !.cur = SubSeq(@, 2, Len(@))]
      /\ hlsPhase' \in {"packets", "ended"} /\ target' = target /\ broken' = broken /\ missed' = missed
      /\ playlist' = playlist /\ segments' = segments /\ next' = next /\ read' = read
  BY DEF Hls!ReadFails, Hls!ReadsError, Hls!Told
<1>2. /\ HlsTypeOK /\ Streams(Contents, segments, next, conn, target, read, Well)
      /\ broken
  BY <1>1, WhileReading
<1>3. conn \in Responses /\ target = None
  BY <1>1, <1>2 DEF HlsTypeOK
<1>4. Well' = FALSE /\ Well = FALSE
  BY <1>1, <1>2 DEF Well
<1>5. target' = None /\ broken' /\ broken' \in BOOLEAN /\ missed' \in BOOLEAN
  BY <1>1, <1>2, <1>3 DEF HlsTypeOK
<1>6. CASE conn' = conn
  <2>1. Streams(Contents, segments, next', conn', target', read', Well')
    BY <1>1, <1>2, <1>3, <1>4, <1>6
  <2>2. conn' \in Responses
    BY <1>3, <1>6
  <2> QED BY <1>1, <1>4, <1>5, <2>1, <2>2, ReadingStep
<1>7. CASE conn' = [Hls!Loaded(conn) EXCEPT !.up = TRUE, !.cur = SubSeq(@, 2, Len(@))]
  <2>1. PICK l \in Responses : l = Hls!Loaded(conn) /\ Remains(l) = Remains(conn)
    BY <1>3, LoadedRemains
  <2>2. PICK w \in Responses, a \in Seq(Nat) : w = Without(l, 1) /\ MadeOf(Remains(l), a, Remains(w))
    <3>1. PICK cur \in Seq(Nat) : cur = l.cur
      BY DEF Responses
    <3>2. CASE cur # <<>>
      <4>1. 1 \in 1..Len(l.cur)
        BY <3>1, <3>2
      <4> QED BY <4>1, TakenRemains
    <3>3. CASE cur = <<>>
      <4>1. SubSeq(cur, 1 + 1, Len(cur)) = cur
        BY <3>3
      <4>2. Without(l, 1) = l
        BY <3>1, <4>1 DEF Without, Responses
      <4>3. MadeOf(Remains(l), <<>>, Remains(l))
        BY RemainsTyped, ConcatEmptySeq DEF MadeOf
      <4>4. <<>> \in Seq(Nat)
        OBVIOUS
      <4> QED BY <4>2, <4>3, <4>4
    <3> QED BY <3>2, <3>3
  <2>3. w = [l EXCEPT !.cur = SubSeq(l.cur, 2, Len(l.cur))]
    BY <2>2 DEF Without
  <2>4. conn' = [l EXCEPT !.up = TRUE, !.cur = SubSeq(l.cur, 2, Len(l.cur))]
    BY <1>7, <2>1
  <2>5. conn' = [w EXCEPT !.up = TRUE]
    BY <2>3, <2>4 DEF Responses
  <2>6. PICK d \in Responses : d = conn' /\ d.up /\ d # None /\ Remains(d) = Remains(w)
    <3>1. [w EXCEPT !.up = TRUE] \in Responses /\ [w EXCEPT !.up = TRUE].up
      BY DEF Responses
    <3>2. Remains([w EXCEPT !.up = TRUE]) = Remains(w)
      BY DEF Responses, Remains
    <3> QED BY <2>5, <3>1, <3>2, NotNone
  <2>7. Streams(Contents, segments, next, d, None, read, FALSE)
    <3>1. PICK b \in [AllUrls -> Seq(Nat)] : b = Contents[MaxRedirects]
      BY ContentsTyped
    <3>2. PICK s \in Seq(AllUrls), k \in 1..(Len(segments) + 1) : s = segments /\ k = next
      BY <1>2 DEF HlsTypeOK, Streams
    <3>3. Flow(b, s, k, conn, None, read, Well)
      BY <1>2, <1>3, <3>1, <3>2 DEF Streams
    <3>4. MadeOf(Remains(conn), a, Remains(d))
      BY <2>1, <2>2, <2>6
    <3>5. Flow(b, s, k, d, None, read, FALSE)
      BY <1>1, <2>6, <3>2, <3>3, <3>4, FlowTakes
    <3> QED BY <3>1, <3>2, <3>5 DEF Streams
  <2>8. Streams(Contents, segments, next', conn', target', read', Well')
    BY <1>1, <1>4, <1>5, <2>6, <2>7
  <2>9. conn' \in Responses /\ conn'.up
    BY <2>6
  <2> QED BY <1>1, <1>4, <1>5, <2>8, <2>9, ReadingStep
<1> QED BY <1>1, <1>6, <1>7

LEMMA ChainEndsKeepsHls ==
    ASSUME HlsInv, Hls!ChainEnds
    PROVE  HlsInv'
<1>1. /\ Hls!Reading /\ target = None /\ (conn = None \/ Hls!ReadsEnd) /\ next > Len(segments)
      /\ hlsPhase' \in {"packets", "ended"} /\ conn' = None /\ target' = target
      /\ broken' = broken /\ missed' = missed
      /\ playlist' = playlist /\ segments' = segments /\ next' = next /\ read' = read
  BY DEF Hls!ChainEnds, Hls!Told
<1>2. Streams(Contents, segments, next, None, None, read, Well) /\ HlsTypeOK
  BY <1>1, AtTheEnd, WhileReading
<1>3. Well' = Well
  BY <1>1 DEF Well
<1>4. Streams(Contents, segments, next', conn', target', read', Well')
  BY <1>1, <1>2, <1>3
<1>5. target' = None /\ conn' = None /\ broken' \in BOOLEAN /\ missed' \in BOOLEAN /\ next' > Len(segments)
  BY <1>1, <1>2 DEF HlsTypeOK
<1> QED BY <1>1, <1>4, <1>5, ReadingStep

LEMMA IdleKeepsHls ==
    ASSUME HlsInv, hlsPhase' = hlsPhase \/ (hlsPhase = "scan" /\ hlsPhase' = "packets"),
           UNCHANGED <<target, conn, broken, playlist, segments, next, read, missed>>
    PROVE  HlsInv'
<1>1. HlsTypeOK'
  BY DEF HlsInv, HlsTypeOK
<1>2. Well' = Well /\ Contents' = Contents
  BY ContentsStay DEF Well
<1>3. Streams(Contents, segments, next, conn, target, read, Well)
          => Streams(Contents, segments, next, conn, target, read, Well)'
  BY <1>2
<1>4. Streamed(Contents, segments, read, Well) => Streamed(Contents, segments, read, Well)'
  BY <1>2
<1> QED BY <1>1, <1>3, <1>4 DEF HlsInv

LEMMA HlsInvariant == Spec => []HlsInv
<1>1. HlsInv /\ [Next]_vars => HlsInv'
  <2> SUFFICES ASSUME HlsInv, [Next]_vars PROVE HlsInv'
    OBVIOUS
  <2>1. CASE UNCHANGED hlsVars
    BY <2>1, IdleKeepsHls DEF hlsVars
  <2>2. CASE Hls!Next
    <3>1. \/ Hls!Follow \/ Hls!ResolveFails \/ Hls!ReadPlaylist \/ (\E n : Hls!Serve(n))
          \/ Hls!OpenNext \/ Hls!Opened \/ Hls!OpenFails \/ Hls!ReadFails \/ Hls!ChainEnds
          \/ Hls!ScanDone \/ Hls!Breaks
      BY <2>2 DEF Hls!Next, Hls!Reader
    <3>2. Hls!ScanDone => HlsInv'
      BY IdleKeepsHls DEF Hls!ScanDone, Hls!httpVars
    <3> QED BY <3>1, <3>2, FollowKeepsHls, ResolveFailsKeepsHls, ReadPlaylistKeepsHls, ServeKeepsHls,
               OpenNextKeepsHls, OpenedKeepsHls, OpenFailsKeepsHls, ReadFailsKeepsHls,
               ChainEndsKeepsHls, BreaksKeepsHls
  <2> QED BY <2>1, <2>2 DEF Next, Udp, Publishing, Browsing, vars
<1> QED BY <1>1, HlsInit, PTL DEF Spec

\* For every web, every playlist and whichever connections fail: what is read
\* is in the order of the playlist's segments with nothing in it twice, and if
\* nothing failed it is complete.
THEOREM StreamsArePlaylists == Spec => []StreamIsThePlaylist
<1>1. ASSUME HlsInv PROVE StreamIsThePlaylist
  <2>1. PICK m \in [0..MaxRedirects -> [AllUrls -> Seq(Nat)]] : m = Contents
    BY ContentsTyped
  <2>2. PICK b \in [AllUrls -> Seq(Nat)] : b = m[MaxRedirects]
    BY ContentsTyped
  <2>3. PICK s \in Seq(AllUrls) : s = segments
    BY <1>1 DEF HlsInv, HlsTypeOK
  <2>4. Hls!Whole = AllOf(b, s) /\ AllOf(b, s) \in Seq(Nat)
    <3>1. \A k \in DOMAIN s : s[k] \in AllUrls
      OBVIOUS
    <3>2. \A k \in DOMAIN s : Hls!Body(s[k]) = b[s[k]]
      BY <2>1, <2>2, <3>1, ContentsAreBodies
    <3>3. [k \in DOMAIN s |-> Hls!Body(s[k])] = BodiesOf(b, s)
      BY <3>2 DEF BodiesOf
    <3> QED BY <2>3, <3>3, BodiesTyped, SameFlattenHls DEF Hls!Whole, AllOf
  <2>5. PartOf(read, AllOf(b, s)) /\ (hlsPhase = "ended" /\ ~broken /\ ~missed => read = AllOf(b, s))
    <3>1. CASE hlsPhase \in {"resolve", "failed"}
      <4>1. read = <<>> /\ hlsPhase # "ended"
        BY <1>1, <3>1 DEF HlsInv
      <4> QED BY <2>4, <4>1, NothingIsPart
    <3>2. CASE hlsPhase \in {"scan", "packets"}
      <4>1. Streams(m, s, next, conn, target, read, Well) /\ (conn # None => conn \in Responses)
        BY <1>1, <2>1, <2>3, <3>2 DEF HlsInv, HlsTypeOK
      <4>2. Streams(m, s, next, conn, target, read, FALSE)
        BY <4>1, FlowStays DEF Streams
      <4>3. Streamed(m, s, read, FALSE)
        BY <4>1, <4>2, StreamStops
      <4> QED BY <2>2, <3>2, <4>3 DEF Streamed
    <3>3. CASE hlsPhase = "ended"
      <4>1. Streamed(m, s, read, Well)
        BY <1>1, <2>1, <2>3, <3>3 DEF HlsInv
      <4> QED BY <2>2, <4>1 DEF Streamed, Well
    <3> QED BY <1>1, <3>1, <3>2, <3>3 DEF HlsInv, HlsTypeOK
  <2>6. \E places \in SUBSET DOMAIN Hls!Whole : read = Hls!AtPlaces(Hls!Whole, places)
    <3>1. PICK S \in SUBSET (1..Len(AllOf(b, s))) : read = AtPlaces(AllOf(b, s), S)
      BY <2>5 DEF PartOf
    <3>2. DOMAIN AllOf(b, s) = 1..Len(AllOf(b, s))
      BY <2>4
    <3> QED BY <2>4, <3>1, <3>2, SamePickedHls
  <2> QED BY <2>4, <2>5, <2>6 DEF StreamIsThePlaylist, Hls!StreamIsThePlaylist
<1> QED BY <1>1, HlsInvariant, PTL

-----------------------------------------------------------------------------
(* MPEG-TS over UDP, from end to end *)
\* Until read_packet ends, what was received is what was taken and what is buffered, and
\* for every stream the packets out and ready hold the undamaged units of what was taken,
\* but for the one in progress (Growing). At the end of the input that one is emitted
\* too, or is not whole.

UnitsOf(s) == [n \in DOMAIN s |-> s[n].unit]
FirstUnits(s) == [n \in DOMAIN s |-> s[n].data[1].unit]

\* Every piece of the unit whose head is at place k of in, and no more.
IntactIn(us, in, k) ==
    LET u == in[k].unit
        n == us[u].size
    IN  /\ k + n - 1 <= Len(in)
        /\ \A j \in 1..n : in[k + j - 1] = Ts(us[u].pid, u, j)
        /\ in[k].pid \in Video => k + n - 1 = Len(in) \/ in[k + n].piece = 1

IntactPlaces(us, in) == {k \in DOMAIN in : IntactIn(us, in, k)}
IntactOf(us, in) == UnitsOf(AtPlaces(in, IntactPlaces(us, in)))

\* The packet is a unit as it was given to the muxer.
PiecesFor(us, u) == [j \in 1..us[u].size |-> Ts(us[u].pid, u, j)]
IsWhole(us, pkt) ==
    LET u == pkt.data[1].unit
        stamp == IF us[u].pts = None THEN 0 ELSE us[u].pts % StampMod
    IN  /\ pkt.data = PiecesFor(us, u) /\ pkt.pid = us[u].pid /\ pkt.pts = stamp
        /\ pkt.dts = IF us[u].dts = None THEN stamp ELSE us[u].dts % StampMod

WholePlaces(us, p, s) == {k \in DOMAIN s : s[k].pid = p /\ IsWhole(us, s[k])}
WholeOf(us, p, s) == FirstUnits(AtPlaces(s, WholePlaces(us, p, s)))

\* The tables among what was taken, and what came for a stream after them.
HasPat(all, j) == \E i \in 1..(j - 1) : all[i].pid = PAT
HasPmt(all, k) == \E j \in 1..(k - 1) : all[j].pid = PMT /\ HasPat(all, j)
TakenPlaces(all, p) == {k \in DOMAIN all : all[k].pid = p /\ HasPmt(all, k)}
TakenFor(all, p) == AtPlaces(all, TakenPlaces(all, p))

IsHead(in, h) == h \in DOMAIN in /\ in[h].piece = 1 /\ \A k \in DOMAIN in : k > h => in[k].piece # 1

\* The unit in progress is what came from its head on.
Growing(us, pes, p, in, list, part, h) ==
    LET u == in[h].unit
    IN  /\ IsHead(in, h)
        /\ part.pid = p /\ part.pts = pes[u].pts /\ part.dts = pes[u].dts /\ part.expect = pes[u].expect
        /\ part.data = SubSeq(in, h, Len(in))
        /\ p \in Video \/ Len(in) - h + 1 <= us[u].size
        /\ list = UnitsOf(AtPlaces(in, IntactPlaces(us, in) \ {h}))

\* The last unit was complete at its length, if one began at all.
Closed(us, p, in, list) ==
    /\ list = IntactOf(us, in)
    /\ \A h \in DOMAIN in : IsHead(in, h) => p \notin Video /\ h + us[in[h].unit].size - 1 <= Len(in)

Parsed(us, pes, p, in, list, part) ==
    IF part = None THEN Closed(us, p, in, list)
    ELSE ~Complete(part) /\ \E h \in DOMAIN in : Growing(us, pes, p, in, list, part, h)

\* The demuxer, after it has taken c: what it knows, the units in progress, and the packets s.
Fed(us, pes, c, pmt, streams, parts, s) ==
    /\ pmt = HasPat(c, Len(c) + 1) /\ streams = HasPmt(c, Len(c) + 1)
    /\ \A p \in Pids : Parsed(us, pes, p, TakenFor(c, p), WholeOf(us, p, s), parts[p])

\* What was received is what was taken, and what is buffered.
Took(c, b, r) == r = c \o b \/ (b = <<Garbage>> /\ r = c)

Ended == phase \in {"flushed", "done"}

\* What a stream is made of.
StreamOf(us, p) == {x \in PiecesOf(us) : x.pid = p}

\* A unit in progress that is emitted.
Extended(us, list, part) ==
    IF IsWhole(us, AfterPacket(part)) THEN Append(list, part.data[1].unit) ELSE list

\* The PES headers of us say what the muxer was given.
Announces(us, pes) ==
    \A u \in DOMAIN us :
        LET stamp == IF us[u].pts = None THEN 0 ELSE us[u].pts % StampMod
        IN  /\ pes[u].pts = stamp
            /\ (IF pes[u].dts = None THEN pes[u].pts ELSE pes[u].dts)
                   = IF us[u].dts = None THEN stamp ELSE us[u].dts % StampMod
            /\ pes[u].expect = IF us[u].pid \in Video THEN 0 ELSE us[u].size

\* What a muxer can be given.
Given(us) == us \in Seq(Units)

\* A head comes after place k of in, or is x.
HeadAfter(in, x, k) == x.piece = 1 \/ \E h \in DOMAIN in : h > k /\ in[h].piece = 1

\* w is c with x taken after its n packets.
TablesGrow(c, x, w, n) ==
    /\ Len(w) = n + 1 /\ n \in Nat
    /\ HasPat(w, n + 2) <=> HasPat(c, n + 1) \/ x.pid = PAT
    /\ HasPmt(w, n + 2) <=> HasPmt(c, n + 1) \/ (x.pid = PMT /\ HasPat(c, n + 1))
    /\ \A k \in 1..(n + 1) : HasPmt(w, k) <=> HasPmt(c, k)

\* What x makes of the unit in progress and of the list of what came out.
Takes(us, pes, part, list, x, more, ended, after, rest) ==
    /\ more = IF x.piece = 1 THEN PesOf(pes, x)
              ELSE IF part = None THEN None ELSE [part EXCEPT !.data = Append(@, x)]
    /\ ended = IF x.piece = 1 /\ part # None THEN Extended(us, list, part) ELSE list
    /\ after = IF Complete(more) THEN Extended(us, ended, more) ELSE ended
    /\ rest = IF Complete(more) THEN None ELSE more

LEMMA UnitsAppend ==
    ASSUME NEW X, NEW s \in Seq(X), NEW e \in X
    PROVE  /\ UnitsOf(Append(s, e)) = Append(UnitsOf(s), e.unit)
           /\ FirstUnits(Append(s, e)) = Append(FirstUnits(s), e.data[1].unit)
<1>1. PICK n \in Nat : n = Len(s) /\ DOMAIN s = 1..n
  OBVIOUS
<1>2. PICK w : /\ w = Append(s, e) /\ DOMAIN w = 1..(n + 1) /\ w[n + 1] = e
               /\ \A k \in 1..n : w[k] = s[k]
  <2>1. /\ DOMAIN Append(s, e) = 1..(Len(s) + 1) /\ Append(s, e)[Len(s) + 1] = e
        /\ \A k \in 1..Len(s) : Append(s, e)[k] = s[k]
    BY OneMore
  <2> QED BY <1>1, <2>1
<1> DEFINE f == UnitsOf(s)
           g == UnitsOf(w)
           V == {w[k].unit : k \in 1..(n + 1)}
<1>3. f \in [1..n -> V] /\ g \in [1..(n + 1) -> V] /\ g[n + 1] = e.unit /\ \A k \in 1..n : g[k] = f[k]
  <2>1. g \in [1..(n + 1) -> V] /\ g[n + 1] = e.unit /\ \A k \in 1..n : g[k] = w[k].unit
    BY <1>1, <1>2 DEF UnitsOf
  <2>2. f = [k \in 1..n |-> w[k].unit]
    BY <1>1, <1>2 DEF UnitsOf
  <2>3. \A k \in 1..n : w[k].unit \in V
    BY <1>1
  <2> HIDE DEF f, g, V
  <2> QED BY <2>1, <2>2, <2>3
<1> DEFINE a == FirstUnits(s)
           b == FirstUnits(w)
           W == {w[k].data[1].unit : k \in 1..(n + 1)}
<1>4. /\ a \in [1..n -> W] /\ b \in [1..(n + 1) -> W] /\ b[n + 1] = e.data[1].unit
      /\ \A k \in 1..n : b[k] = a[k]
  <2>1. /\ b \in [1..(n + 1) -> W] /\ b[n + 1] = e.data[1].unit
        /\ \A k \in 1..n : b[k] = w[k].data[1].unit
    BY <1>1, <1>2 DEF FirstUnits
  <2>2. a = [k \in 1..n |-> w[k].data[1].unit]
    BY <1>1, <1>2 DEF FirstUnits
  <2>3. \A k \in 1..n : w[k].data[1].unit \in W
    BY <1>1
  <2> HIDE DEF a, b, W
  <2> QED BY <2>1, <2>2, <2>3
<1> HIDE DEF f, g, V, a, b, W
<1>5. g = Append(f, e.unit) /\ b = Append(a, e.data[1].unit)
  <2>1. g = Append(f, g[n + 1])
    BY <1>3, LongerByOne
  <2>2. b = Append(a, b[n + 1])
    BY <1>4, LongerByOne
  <2> QED BY <1>3, <1>4, <2>1, <2>2
<1> QED BY <1>2, <1>5 DEF f, g, a, b

LEMMA StreamTyped ==
    ASSUME NEW us, Given(us), NEW p \in Pids, NEW in \in Seq(StreamOf(us, p)), NEW k \in DOMAIN in
    PROVE  /\ k \in Nat /\ k >= 1 /\ k <= Len(in) /\ Len(in) \in Nat
           /\ in[k] \in StreamOf(us, p) /\ in[k] \in TsPacketSet /\ in[k].pid = p /\ in[k].piece \in Nat
           /\ in[k].unit \in DOMAIN us /\ us[in[k].unit].pid = p /\ us[in[k].unit].size \in Nat \ {0}
<1>1. DOMAIN in = 1..Len(in) /\ Len(in) \in Nat /\ in[k] \in StreamOf(us, p)
  BY ElementOfSeq
<1>2. in[k] \in PiecesOf(us) /\ in[k].pid = p
  BY <1>1 DEF StreamOf
<1>3. in[k] \in TsPacketSet /\ in[k].unit \in DOMAIN us /\ us[in[k].unit].pid = p
  BY <1>2 DEF PiecesOf
<1>4. us[in[k].unit] \in Units
  BY <1>3, ElementOfSeq DEF Given
<1> QED BY <1>1, <1>2, <1>3, <1>4 DEF TsPacketSet, Units

\* A unit begins with a head.
LEMMA IntactBegins ==
    ASSUME NEW us, Given(us), NEW p \in Pids, NEW in \in Seq(StreamOf(us, p)), NEW k \in DOMAIN in,
           IntactIn(us, in, k)
    PROVE  in[k].piece = 1
<1>1. k \in Nat /\ us[in[k].unit].size \in Nat \ {0}
  BY StreamTyped
<1>2. 1 \in 1..us[in[k].unit].size
  BY <1>1
<1>3. in[k + 1 - 1] = Ts(us[in[k].unit].pid, in[k].unit, 1)
  BY <1>2 DEF IntactIn
<1>4. k + 1 - 1 = k
  BY <1>1
<1> QED BY <1>3, <1>4 DEF Ts

\* What comes after does not make a unit intact, nor damages it, if it is a head
\* or if there was one since.
LEMMA IntactStays ==
    ASSUME NEW us, Given(us), NEW p \in Pids, NEW in \in Seq(StreamOf(us, p)),
           NEW x \in StreamOf(us, p), NEW k \in DOMAIN in,
           HeadAfter(in, x, k)
    PROVE  IntactIn(us, Append(in, x), k) <=> IntactIn(us, in, k)
<1>1. PICK N \in Nat, n \in Nat :
         /\ N = Len(in) /\ DOMAIN in = 1..N /\ n >= 1
         /\ k \in 1..N /\ k \in Nat /\ n = us[in[k].unit].size
  <2>1. us[in[k].unit].size \in Nat /\ us[in[k].unit].size >= 1
    BY StreamTyped
  <2>2. k \in 1..Len(in) /\ DOMAIN in = 1..Len(in) /\ k \in Nat /\ Len(in) \in Nat
    BY StreamTyped
  <2> QED BY <2>1, <2>2, Zenon
<1>11. /\ N \in Nat /\ n \in Nat /\ n >= 1 /\ k \in 1..N /\ k \in Nat
  BY <1>1
<1>12. PICK u : u = in[k].unit
  OBVIOUS
<1>2. PICK w \in Seq(StreamOf(us, p)) :
         /\ w = Append(in, x) /\ Len(w) = N + 1 /\ w[N + 1] = x /\ \A i \in 1..N : w[i] = in[i]
  <2>1. /\ Append(in, x) \in Seq(StreamOf(us, p)) /\ DOMAIN Append(in, x) = 1..(Len(in) + 1)
        /\ Append(in, x)[Len(in) + 1] = x /\ \A i \in 1..Len(in) : Append(in, x)[i] = in[i]
    BY OneMore
  <2>2. Len(Append(in, x)) = Len(in) + 1
    BY AppendProperties
  <2> QED BY <1>1, <2>1, <2>2
<1>3. w[k] = in[k]
  BY <1>1, <1>2
<1> DEFINE Made(v) == \A j \in 1..n : v[k + j - 1] = Ts(us[u].pid, u, j)
<1>4. ASSUME NEW i \in Nat, i > k, i <= k + n - 1
      PROVE  (Made(in) => in[i].piece # 1) /\ (Made(w) => w[i].piece # 1)
  <2>1. PICK j \in 1..n : j = i - k + 1 /\ k + j - 1 = i /\ j # 1
    <3>1. i - k + 1 \in 1..n /\ k + (i - k + 1) - 1 = i /\ i - k + 1 # 1
      BY <1>1, <1>4
    <3> QED BY <3>1
  <2>2. Ts(us[u].pid, u, j).piece # 1
    BY <2>1 DEF Ts
  <2> QED BY <2>1, <2>2
<1>5. k + n - 1 <= N => (Made(in) <=> Made(w))
  <2> SUFFICES ASSUME k + n - 1 <= N, NEW j \in 1..n PROVE w[k + j - 1] = in[k + j - 1]
    OBVIOUS
  <2>1. k + j - 1 \in 1..N
    BY <1>1
  <2> QED BY <1>2, <2>1
<1>6. ASSUME NEW v, v = in \/ v = w
      PROVE  IntactIn(us, v, k) <=>
                 /\ k + n - 1 <= Len(v) /\ Made(v)
                 /\ in[k].pid \in Video => k + n - 1 = Len(v) \/ v[k + n].piece = 1
  BY <1>1, <1>12, <1>3, <1>6 DEF IntactIn
<1> HIDE DEF Pieces
<1>7. ASSUME IntactIn(us, in, k) PROVE IntactIn(us, w, k)
  <2>1. /\ k + n - 1 <= N /\ Made(in) /\ Made(w)
        /\ in[k].pid \in Video => k + n - 1 = N \/ in[k + n].piece = 1
    BY <1>1, <1>5, <1>6, <1>7
  <2>2. ASSUME k + n - 1 = N PROVE w[k + n].piece = 1
    <3>1. ~ \E h \in DOMAIN in : h > k /\ in[h].piece = 1
      BY <1>1, <1>4, <2>1, <2>2
    <3>2. k + n = N + 1
      BY <1>11, <2>2
    <3> QED BY <1>2, <3>1, <3>2 DEF HeadAfter
  <2>3. ASSUME k + n - 1 # N PROVE w[k + n] = in[k + n]
    <3>1. k + n \in 1..N
      BY <1>1, <2>1, <2>3
    <3> QED BY <1>2, <3>1
  <2>4. k + n - 1 <= N + 1
    BY <1>1, <2>1
  <2> QED BY <1>2, <1>6, <2>1, <2>2, <2>3, <2>4
<1>8. ASSUME IntactIn(us, w, k) PROVE IntactIn(us, in, k)
  <2>1. /\ k + n - 1 <= N + 1 /\ Made(w)
        /\ in[k].pid \in Video => k + n - 1 = N + 1 \/ w[k + n].piece = 1
    BY <1>2, <1>6, <1>8
  <2>10. k + n - 1 <= N + 1
    BY <2>1
  <2>2. k + n - 1 # N + 1
    <3> SUFFICES ASSUME k + n - 1 = N + 1 PROVE FALSE
      OBVIOUS
    <3>1. N + 1 \in Nat /\ N + 1 > k /\ N + 1 <= k + n - 1
      BY <1>1
    <3>2. x.piece # 1
      BY <1>2, <1>4, <2>1, <3>1
    <3>3. PICK h \in 1..N : h > k /\ in[h].piece = 1
      BY <1>1, <3>2 DEF HeadAfter
    <3>4. h \in Nat /\ h <= k + n - 1
      BY <1>1, <3>3
    <3>5. w[h].piece # 1
      BY <1>4, <2>1, <3>3, <3>4
    <3> QED BY <1>2, <3>3, <3>5
  <2>3. k + n - 1 <= N
    <3>1. PICK e \in Int : e = k + n - 1
      BY <1>11
    <3>2. e <= N + 1 /\ e # N + 1
      BY <2>10, <2>2, <3>1
    <3>3. e <= N
      BY <1>11, <3>2
    <3> QED BY <3>1, <3>3
  <2>4. Made(in)
    BY <1>5, <2>1, <2>3
  <2>5. k + n - 1 # N => w[k + n] = in[k + n]
    <3> SUFFICES ASSUME k + n - 1 # N PROVE w[k + n] = in[k + n]
      OBVIOUS
    <3>1. k + n \in 1..N
      BY <1>11, <2>3
    <3> QED BY <1>2, <3>1
  <2> QED BY <1>1, <1>6, <2>1, <2>2, <2>3, <2>4, <2>5
<1> QED BY <1>2, <1>7, <1>8

\* The places of intact units lie in the sequence, and the list of their units grows by one.
LEMMA UnitsPicked ==
    ASSUME NEW us, NEW p, NEW in \in Seq(StreamOf(us, p)), NEW h \in 1..Len(in), NEW S \in SUBSET (1..(h - 1))
    PROVE  UnitsOf(AtPlaces(in, S \cup {h})) = Append(UnitsOf(AtPlaces(in, S)), in[h].unit)
<1>1. AtPlaces(in, S \cup {h}) = Append(AtPlaces(in, S), in[h])
  BY PickedLast
<1>2. S \in SUBSET (1..Len(in))
  OBVIOUS
<1>3. AtPlaces(in, S) \in Seq(StreamOf(us, p)) /\ in[h] \in StreamOf(us, p)
  <2>1. AtPlaces(in, S) \in Seq(StreamOf(us, p))
    BY <1>2, PickedPlaces
  <2> QED BY <2>1, ElementOfSeq
<1> QED BY <1>1, <1>3, UnitsAppend

\* The unit in progress is intact if what it would be emitted as is whole.
LEMMA GrowingIsIntact ==
    ASSUME NEW us, Given(us), NEW pes, Announces(us, pes), NEW p \in Pids,
           NEW in \in Seq(StreamOf(us, p)), NEW list, NEW part, NEW h,
           Growing(us, pes, p, in, list, part, h)
    PROVE  /\ IntactIn(us, in, h) <=> IsWhole(us, AfterPacket(part))
           /\ part.data[1].unit = in[h].unit
<1>1. h \in DOMAIN in /\ IsHead(in, h)
  BY DEF Growing, IsHead
<1>2. PICK N \in Nat, n \in Nat :
         /\ N = Len(in) /\ DOMAIN in = 1..N /\ n >= 1
         /\ h \in 1..N /\ h \in Nat /\ n = us[in[h].unit].size
  <2>1. us[in[h].unit].size \in Nat /\ us[in[h].unit].size >= 1
    BY <1>1, StreamTyped
  <2>2. h \in 1..Len(in) /\ DOMAIN in = 1..Len(in) /\ h \in Nat /\ Len(in) \in Nat
    BY <1>1, StreamTyped
  <2> QED BY <2>1, <2>2, Zenon
<1>3. /\ N \in Nat /\ n \in Nat /\ n >= 1 /\ h \in 1..N /\ h \in Nat
  BY <1>2
<1>4. PICK u : u = in[h].unit
  OBVIOUS
<1>5. us[u].pid = p /\ u \in DOMAIN us /\ in[h].pid = p
  BY <1>1, <1>4, StreamTyped
<1>6. PICK d \in Seq(StreamOf(us, p)), m \in Nat :
         /\ d = part.data /\ m = N - h + 1 /\ m >= 1 /\ Len(d) = m
         /\ \A j \in 1..m : d[j] = in[h + j - 1]
  <2>1. SubSeq(in, h, N) \in Seq(StreamOf(us, p))
    BY <1>2, SubSeqProperties
  <2>2. Len(SubSeq(in, h, N)) = N - h + 1 /\ \A j \in 1..(N - h + 1) : SubSeq(in, h, N)[j] = in[h + j - 1]
    BY <1>2, SubSeqProperties
  <2>3. N - h + 1 \in Nat /\ N - h + 1 >= 1
    BY <1>3
  <2>4. part.data = SubSeq(in, h, N)
    BY <1>2 DEF Growing
  <2> QED BY <2>1, <2>2, <2>3, <2>4
<1>7. d[1] = in[h]
  <2>1. 1 \in 1..m /\ h + 1 - 1 = h
    BY <1>3, <1>6
  <2> QED BY <1>6, <2>1
<1> DEFINE Made == \A j \in 1..n : in[h + j - 1] = Ts(p, u, j)
<1>8. IntactIn(us, in, h) <=> n = m /\ Made
  <2>1. IntactIn(us, in, h) <=>
            h + n - 1 <= N /\ Made /\ (p \in Video => h + n - 1 = N \/ in[h + n].piece = 1)
    BY <1>2, <1>4, <1>5 DEF IntactIn
  <2> HIDE DEF Made
  <2>2. ASSUME h + n - 1 <= N, p \in Video => h + n - 1 = N \/ in[h + n].piece = 1
        PROVE  n = m
    <3>1. CASE p \in Video
      <4>1. h + n - 1 = N \/ (h + n \in 1..N /\ h + n > h)
        BY <1>3, <2>2
      <4>2. h + n \in 1..N /\ h + n > h => in[h + n].piece # 1
        BY <1>1, <1>2 DEF IsHead
      <4>3. h + n - 1 = N
        BY <2>2, <3>1, <4>1, <4>2
      <4> QED BY <1>3, <1>6, <4>3
    <3>2. CASE p \notin Video
      <4>1. N - h + 1 <= n
        BY <1>2, <1>4, <3>2 DEF Growing
      <4> QED BY <1>3, <1>6, <2>2, <4>1
    <3> QED BY <3>1, <3>2
  <2>3. n = m => h + n - 1 = N
    BY <1>3, <1>6
  <2>4. h + n - 1 = N => h + n - 1 <= N
    BY <1>3
  <2> QED BY <2>1, <2>2, <2>3, <2>4
<1>9. d = PiecesFor(us, u) <=> n = m /\ Made
  <2>1. PiecesFor(us, u) = [j \in 1..n |-> Ts(p, u, j)]
    BY <1>2, <1>4, <1>5 DEF PiecesFor
  <2>2. DOMAIN d = 1..m /\ d = [j \in 1..m |-> d[j]]
    BY <1>6
  <2>3. ASSUME d = PiecesFor(us, u) PROVE n = m /\ Made
    <3>1. 1..n = 1..m
      BY <2>1, <2>2, <2>3
    <3>2. n = m
      BY <1>3, <1>6, <3>1
    <3>3. ASSUME NEW j \in 1..n PROVE in[h + j - 1] = Ts(p, u, j)
      BY <1>6, <2>1, <2>3, <3>2
    <3> QED BY <3>2, <3>3
  <2>4. ASSUME n = m, Made PROVE d = PiecesFor(us, u)
    <3>1. \A j \in 1..m : d[j] = Ts(p, u, j)
      BY <1>6, <2>4
    <3> QED BY <2>1, <2>2, <2>4, <3>1
  <2> QED BY <2>3, <2>4
<1>10. IsWhole(us, AfterPacket(part)) <=> d = PiecesFor(us, u)
  <2>1. /\ part.pid = p /\ part.pts = pes[u].pts /\ part.dts = pes[u].dts
    BY <1>4 DEF Growing
  <2>2. /\ AfterPacket(part).data = d /\ AfterPacket(part).pid = p
        /\ AfterPacket(part).pts = pes[u].pts /\ d[1].unit = u
        /\ AfterPacket(part).dts = IF pes[u].dts = None THEN pes[u].pts ELSE pes[u].dts
    BY <1>4, <1>6, <1>7, <2>1 DEF AfterPacket
  <2>3. LET stamp == IF us[u].pts = None THEN 0 ELSE us[u].pts % StampMod
        IN  /\ AfterPacket(part).pts = stamp
            /\ AfterPacket(part).dts = IF us[u].dts = None THEN stamp ELSE us[u].dts % StampMod
    BY <1>5, <2>2 DEF Announces
  <2> QED BY <1>5, <2>2, <2>3 DEF IsWhole
<1> HIDE DEF Made
<1> QED BY <1>4, <1>6, <1>7, <1>8, <1>9, <1>10

\* UpTo the last head.
LEMMA IntactBefore ==
    ASSUME NEW us, Given(us), NEW p \in Pids, NEW in \in Seq(StreamOf(us, p)), NEW h, IsHead(in, h)
    PROVE  /\ h \in 1..Len(in) /\ IntactPlaces(us, in) \in SUBSET (1..Len(in))
           /\ IntactPlaces(us, in) \ {h} \in SUBSET (1..(h - 1))
<1>1. DOMAIN in = 1..Len(in) /\ Len(in) \in Nat /\ h \in 1..Len(in)
  BY DEF IsHead
<1>2. IntactPlaces(us, in) \in SUBSET (1..Len(in))
  BY <1>1 DEF IntactPlaces
<1>3. ASSUME NEW k \in IntactPlaces(us, in), k # h PROVE k \in 1..(h - 1)
  <2>1. k \in DOMAIN in /\ IntactIn(us, in, k)
    BY DEF IntactPlaces
  <2>2. in[k].piece = 1
    BY <2>1, IntactBegins
  <2>3. ~(k > h)
    BY <2>1, <2>2 DEF IsHead
  <2> QED BY <1>1, <1>3, <2>1, <2>3
<1> QED BY <1>1, <1>2, <1>3

\* A unit in progress is emitted.
LEMMA GrowingCloses ==
    ASSUME NEW us, Given(us), NEW pes, Announces(us, pes), NEW p \in Pids,
           NEW in \in Seq(StreamOf(us, p)), NEW list, NEW part, NEW h,
           Growing(us, pes, p, in, list, part, h)
    PROVE  Extended(us, list, part) = IntactOf(us, in)
<1>1. PICK S, T : S = IntactPlaces(us, in) /\ T = IntactPlaces(us, in) \ {h}
  OBVIOUS
<1>2. IsHead(in, h) /\ list = UnitsOf(AtPlaces(in, T))
  BY <1>1 DEF Growing
<1>3. h \in 1..Len(in) /\ T \in SUBSET (1..(h - 1))
  BY <1>1, <1>2, IntactBefore
<1>4. (h \in S <=> IsWhole(us, AfterPacket(part))) /\ part.data[1].unit = in[h].unit
  <2>1. h \in S <=> IntactIn(us, in, h)
    BY <1>1, <1>2 DEF IntactPlaces, IsHead
  <2> QED BY <2>1, GrowingIsIntact
<1>5. CASE h \in S
  <2>1. S = T \cup {h}
    BY <1>1, <1>5
  <2>2. UnitsOf(AtPlaces(in, T \cup {h})) = Append(UnitsOf(AtPlaces(in, T)), in[h].unit)
    BY <1>3, UnitsPicked
  <2> QED BY <1>1, <1>2, <1>4, <1>5, <2>1, <2>2 DEF Extended, IntactOf
<1>6. CASE h \notin S
  BY <1>1, <1>2, <1>4, <1>6 DEF Extended, IntactOf
<1> QED BY <1>5, <1>6

\* It is emitted because it is complete.
LEMMA GrowingEnds ==
    ASSUME NEW us, Given(us), NEW pes, Announces(us, pes), NEW p \in Pids,
           NEW in \in Seq(StreamOf(us, p)), NEW list, NEW part, NEW h,
           Growing(us, pes, p, in, list, part, h), Complete(part)
    PROVE  Closed(us, p, in, Extended(us, list, part))
<1>1. IsHead(in, h) /\ h \in DOMAIN in
  BY DEF Growing, IsHead
<1>2. PICK N \in Nat, n \in Nat : /\ N = Len(in) /\ n = us[in[h].unit].size /\ h \in 1..N /\ DOMAIN in = 1..N
  <2>1. us[in[h].unit].size \in Nat
    BY <1>1, StreamTyped
  <2>2. h \in 1..Len(in) /\ DOMAIN in = 1..Len(in) /\ Len(in) \in Nat
    BY <1>1, StreamTyped
  <2> QED BY <2>1, <2>2, Zenon
<1>3. in[h].unit \in DOMAIN us /\ us[in[h].unit].pid = p
  BY <1>1, StreamTyped
<1>4. part.expect = IF p \in Video THEN 0 ELSE n
  BY <1>2, <1>3 DEF Growing, Announces
<1>5. p \notin Video /\ Len(part.data) >= n
  BY <1>4 DEF Complete
<1>6. Len(part.data) = N - h + 1
  <2>1. Len(SubSeq(in, h, N)) = N - h + 1
    BY <1>2, SubSeqProperties
  <2> QED BY <1>2, <2>1 DEF Growing
<1>7. h + n - 1 <= N
  BY <1>2, <1>5, <1>6
<1>8. ASSUME NEW g \in DOMAIN in, IsHead(in, g) PROVE g = h
  BY <1>1, <1>2, <1>8 DEF IsHead
<1>9. Extended(us, list, part) = IntactOf(us, in)
  BY GrowingCloses
<1> QED BY <1>2, <1>5, <1>7, <1>8, <1>9 DEF Closed

\* A piece is appended to the unit in progress.
LEMMA GrowingGrows ==
    ASSUME NEW us, Given(us), NEW pes, Announces(us, pes), NEW p \in Pids,
           NEW in \in Seq(StreamOf(us, p)), NEW list, NEW part \in PesSet, NEW h,
           Growing(us, pes, p, in, list, part, h), ~Complete(part), part # None,
           NEW x \in StreamOf(us, p), x.piece # 1
    PROVE  Growing(us, pes, p, Append(in, x), list, [part EXCEPT !.data = Append(@, x)], h)
<1>1. IsHead(in, h) /\ h \in DOMAIN in
  BY DEF Growing, IsHead
<1>2. PICK N \in Nat, n \in Nat :
         /\ N = Len(in) /\ n = us[in[h].unit].size /\ n >= 1 /\ h \in 1..N /\ DOMAIN in = 1..N
  <2>1. us[in[h].unit].size \in Nat /\ us[in[h].unit].size >= 1
    BY <1>1, StreamTyped
  <2>2. h \in 1..Len(in) /\ DOMAIN in = 1..Len(in) /\ Len(in) \in Nat
    BY <1>1, StreamTyped
  <2> QED BY <2>1, <2>2, Zenon
<1>3. PICK w \in Seq(StreamOf(us, p)) :
         /\ w = Append(in, x) /\ Len(w) = N + 1 /\ DOMAIN w = 1..(N + 1)
         /\ w[N + 1] = x /\ \A i \in 1..N : w[i] = in[i]
  <2>1. /\ Append(in, x) \in Seq(StreamOf(us, p)) /\ DOMAIN Append(in, x) = 1..(Len(in) + 1)
        /\ Append(in, x)[Len(in) + 1] = x /\ \A i \in 1..Len(in) : Append(in, x)[i] = in[i]
    BY OneMore
  <2>2. Len(Append(in, x)) = Len(in) + 1
    BY AppendProperties
  <2> QED BY <1>2, <2>1, <2>2
<1>4. IsHead(w, h)
  <2>1. h \in DOMAIN w /\ w[h].piece = 1
    BY <1>1, <1>2, <1>3 DEF IsHead
  <2>2. ASSUME NEW k \in DOMAIN w, k > h PROVE w[k].piece # 1
    <3>1. k = N + 1 \/ k \in 1..N
      BY <1>2, <1>3
    <3> QED BY <1>1, <1>2, <1>3, <2>2, <3>1 DEF IsHead
  <2> QED BY <2>1, <2>2 DEF IsHead
<1>5. w[h] = in[h]
  BY <1>2, <1>3
<1> DEFINE more == [part EXCEPT !.data = Append(@, x)]
<1>6. /\ more.pid = part.pid /\ more.pts = part.pts /\ more.dts = part.dts /\ more.expect = part.expect
      /\ more.data = Append(part.data, x)
  BY DEF PesSet
<1> HIDE DEF more
<1>7. more.data = SubSeq(w, h, N + 1)
  <2>1. part.data = SubSeq(in, h, N)
    BY <1>2 DEF Growing
  <2>2. Append(SubSeq(in, h, N), x) = SubSeq(w, h, N + 1)
    <3>1. /\ SubSeq(in, h, N) \in Seq(StreamOf(us, p)) /\ Len(SubSeq(in, h, N)) = N - h + 1
          /\ \A j \in 1..(N - h + 1) : SubSeq(in, h, N)[j] = in[h + j - 1]
      BY <1>2, SubSeqProperties
    <3>2. /\ SubSeq(w, h, N + 1) \in Seq(StreamOf(us, p)) /\ Len(SubSeq(w, h, N + 1)) = N + 1 - h + 1
          /\ \A j \in 1..(N + 1 - h + 1) : SubSeq(w, h, N + 1)[j] = w[h + j - 1]
      BY <1>2, <1>3, SubSeqProperties
    <3>3. PICK a \in Seq(StreamOf(us, p)), b \in Seq(StreamOf(us, p)), m \in Nat :
             /\ a = SubSeq(in, h, N) /\ b = SubSeq(w, h, N + 1) /\ m = N - h + 1
      <4>1. N - h + 1 \in Nat
        BY <1>2
      <4> QED BY <3>1, <3>2, <4>1
    <3>4. Append(a, x) \in Seq(StreamOf(us, p)) /\ AppendedTo(Append(a, x), a, x, m)
      BY <3>1, <3>3, AppendGrows
    <3>7. N \in Nat /\ h \in 1..N /\ m = N - h + 1
      BY <1>2, <3>3
    <3>5. AppendedTo(b, a, x, m)
      <4>1. Len(b) = m + 1
        BY <1>2, <3>2, <3>3
      <4>2. b[m + 1] = x
        <5>1. m + 1 \in 1..(N + 1 - h + 1) /\ h + (m + 1) - 1 = N + 1
          BY <3>7
        <5> QED BY <1>3, <3>2, <3>3, <5>1
      <4>3. ASSUME NEW j \in 1..m PROVE b[j] = a[j]
        <5>1. j \in 1..(N - h + 1) /\ j \in 1..(N + 1 - h + 1) /\ h + j - 1 \in 1..N
          BY <3>7
        <5> QED BY <1>3, <3>1, <3>2, <3>3, <5>1
      <4> QED BY <4>1, <4>2, <4>3 DEF AppendedTo
    <3>6. b = Append(a, x)
      <4>1. PICK r \in Seq(StreamOf(us, p)) : r = Append(a, x) /\ AppendedTo(r, a, x, m)
        BY <3>4
      <4>3. a \in Seq(StreamOf(us, p)) /\ b \in Seq(StreamOf(us, p)) /\ m \in Nat
        BY <3>3
      <4>2. b = r
        BY <3>5, <4>1, <4>3, AppendedAlike, Zenon
      <4> QED BY <4>1, <4>2
    <3> QED BY <3>3, <3>6
  <2> QED BY <1>6, <2>1, <2>2
<1>8. p \in Video \/ N + 1 - h + 1 <= n
  <2> SUFFICES ASSUME p \notin Video PROVE N + 1 - h + 1 <= n
    OBVIOUS
  <2>1. part.expect = n
    <3>1. in[h].unit \in DOMAIN us /\ us[in[h].unit].pid = p
      BY <1>1, StreamTyped
    <3> QED BY <1>2, <3>1 DEF Growing, Announces
  <2>2. ~(Len(part.data) >= n)
    BY <1>2, <2>1 DEF Complete
  <2>3. Len(part.data) = N - h + 1
    <3>1. Len(SubSeq(in, h, N)) = N - h + 1
      BY <1>2, SubSeqProperties
    <3> QED BY <1>2, <3>1 DEF Growing
  <2> QED BY <1>2, <2>2, <2>3
<1>9. list = UnitsOf(AtPlaces(w, IntactPlaces(us, w) \ {h}))
  <2>1. PICK S : S = IntactPlaces(us, in) \ {h}
    OBVIOUS
  <2>2. S \in SUBSET (1..Len(in))
    BY <1>1, <2>1, IntactBefore
  <2>3. AtPlaces(w, S) = AtPlaces(in, S)
    <3>1. AtPlaces(Append(in, x), S) = AtPlaces(in, S)
      BY <2>2, PickedNext, Zenon
    <3> QED BY <1>3, <3>1
  <2>4. IntactPlaces(us, w) \ {h} = S
    <3>1. ASSUME NEW k \in DOMAIN in, k # h PROVE IntactIn(us, w, k) <=> IntactIn(us, in, k)
      <4>1. CASE k < h
        <5>1. HeadAfter(in, x, k)
          BY <1>1, <4>1 DEF HeadAfter, IsHead
        <5> QED BY <1>3, <5>1, IntactStays
      <4>2. CASE k > h
        <5>1. in[k].piece # 1 /\ w[k].piece # 1
          <6>1. in[k].piece # 1 /\ w[k] = in[k]
            BY <1>1, <1>2, <1>3, <4>2 DEF IsHead
          <6> QED BY <6>1
        <5>2. k \in DOMAIN w
          BY <1>2, <1>3
        <5> QED BY <5>1, <5>2, IntactBegins
      <4>3. k < h \/ k > h
        BY <1>2, <3>1
      <4> QED BY <4>1, <4>2, <4>3
    <3>2. ~IntactIn(us, w, N + 1)
      <4>1. N + 1 \in DOMAIN w /\ w[N + 1].piece # 1
        BY <1>2, <1>3
      <4> QED BY <4>1, IntactBegins
    <3>3. \A k \in DOMAIN w : k \in DOMAIN in \/ k = N + 1
      BY <1>2, <1>3
    <3>4. \A k \in DOMAIN in : k \in DOMAIN w
      BY <1>2, <1>3
    <3> QED BY <2>1, <3>1, <3>2, <3>3, <3>4 DEF IntactPlaces
  <2> QED BY <2>1, <2>3, <2>4 DEF Growing
<1> QED BY <1>2, <1>3, <1>4, <1>5, <1>6, <1>7, <1>8, <1>9 DEF Growing, more

\* A unit begins.
LEMMA HeadGrows ==
    ASSUME NEW us, Given(us), NEW pes, NEW p \in Pids,
           NEW in \in Seq(StreamOf(us, p)), NEW x \in StreamOf(us, p), x.piece = 1
    PROVE  Growing(us, pes, p, Append(in, x), IntactOf(us, in), PesOf(pes, x), Len(in) + 1)
<1>1. PICK N \in Nat : N = Len(in) /\ DOMAIN in = 1..N
  OBVIOUS
<1>2. PICK w \in Seq(StreamOf(us, p)) :
         /\ w = Append(in, x) /\ Len(w) = N + 1 /\ DOMAIN w = 1..(N + 1)
         /\ w[N + 1] = x /\ \A i \in 1..N : w[i] = in[i]
  <2>1. /\ Append(in, x) \in Seq(StreamOf(us, p)) /\ DOMAIN Append(in, x) = 1..(Len(in) + 1)
        /\ Append(in, x)[Len(in) + 1] = x /\ \A i \in 1..Len(in) : Append(in, x)[i] = in[i]
    BY OneMore
  <2>2. Len(Append(in, x)) = Len(in) + 1
    BY AppendProperties
  <2> QED BY <1>1, <2>1, <2>2
<1>3. IsHead(w, N + 1)
  BY <1>1, <1>2 DEF IsHead
<1>4. x.pid = p /\ us[x.unit].size \in Nat /\ us[x.unit].size >= 1
  <2>1. N + 1 \in DOMAIN w
    BY <1>1, <1>2
  <2>2. w[N + 1].pid = p /\ us[w[N + 1].unit].size \in Nat \ {0}
    BY <2>1, StreamTyped
  <2> QED BY <1>2, <2>2
<1>5. SubSeq(w, N + 1, N + 1) = <<x>>
  <2>1. N + 1 \in 1..Len(w)
    BY <1>1, <1>2
  <2>2. Len(SubSeq(w, N + 1, N + 1)) = 1 /\ SubSeq(w, N + 1, N + 1)[1] = x
    BY <1>2, <2>1, SubSeqProperties
  <2>3. SubSeq(w, N + 1, N + 1) \in Seq(StreamOf(us, p))
    BY <1>2, <2>1, SubSeqProperties
  <2>4. PICK s \in Seq(StreamOf(us, p)) : s = SubSeq(w, N + 1, N + 1)
    BY <2>3
  <2>5. Len(s) = 1 /\ s[1] = x
    BY <2>2, <2>4
  <2>6. s = <<x>>
    BY <2>5
  <2> QED BY <2>4, <2>6
<1>6. IntactOf(us, in) = UnitsOf(AtPlaces(w, IntactPlaces(us, w) \ {N + 1}))
  <2>1. IntactPlaces(us, w) \ {N + 1} = IntactPlaces(us, in)
    <3>1. ASSUME NEW k \in DOMAIN in PROVE IntactIn(us, w, k) <=> IntactIn(us, in, k)
      <4>1. HeadAfter(in, x, k)
        BY DEF HeadAfter
      <4> QED BY <1>2, <4>1, IntactStays
    <3>2. \A k : k \in DOMAIN w /\ k # N + 1 <=> k \in DOMAIN in
      BY <1>1, <1>2
    <3> QED BY <3>1, <3>2 DEF IntactPlaces
  <2>2. PICK S : S = IntactPlaces(us, in)
    OBVIOUS
  <2>3. S \in SUBSET (1..Len(in))
    BY <1>1, <2>2 DEF IntactPlaces
  <2>4. AtPlaces(w, S) = AtPlaces(in, S)
    <3>1. AtPlaces(Append(in, x), S) = AtPlaces(in, S)
      BY <2>3, PickedNext, Zenon
    <3> QED BY <1>2, <3>1
  <2> QED BY <2>1, <2>2, <2>4 DEF IntactOf
<1>7. /\ PesOf(pes, x).pid = p /\ PesOf(pes, x).pts = pes[x.unit].pts /\ PesOf(pes, x).dts = pes[x.unit].dts
      /\ PesOf(pes, x).expect = pes[x.unit].expect /\ PesOf(pes, x).data = <<x>>
  BY <1>4 DEF PesOf
<1>8. (N + 1) - (N + 1) + 1 <= us[x.unit].size
  BY <1>1, <1>4
<1>9. Growing(us, pes, p, w, IntactOf(us, in), PesOf(pes, x), N + 1)
  BY <1>2, <1>3, <1>5, <1>6, <1>7, <1>8 DEF Growing
<1> QED BY <1>1, <1>2, <1>9

\* What comes after the last unit, and is not a head, is not of a unit.
LEMMA ClosedSkips ==
    ASSUME NEW us, Given(us), NEW p \in Pids, NEW in \in Seq(StreamOf(us, p)), NEW list,
           Closed(us, p, in, list), NEW x \in StreamOf(us, p), x.piece # 1
    PROVE  Closed(us, p, Append(in, x), list)
<1>1. PICK N \in Nat : N = Len(in) /\ DOMAIN in = 1..N
  OBVIOUS
<1>2. PICK w \in Seq(StreamOf(us, p)) :
         /\ w = Append(in, x) /\ Len(w) = N + 1 /\ DOMAIN w = 1..(N + 1)
         /\ w[N + 1] = x /\ \A i \in 1..N : w[i] = in[i]
  <2>1. /\ Append(in, x) \in Seq(StreamOf(us, p)) /\ DOMAIN Append(in, x) = 1..(Len(in) + 1)
        /\ Append(in, x)[Len(in) + 1] = x /\ \A i \in 1..Len(in) : Append(in, x)[i] = in[i]
    BY OneMore
  <2>2. Len(Append(in, x)) = Len(in) + 1
    BY AppendProperties
  <2> QED BY <1>1, <2>1, <2>2
<1>3. ASSUME NEW h \in DOMAIN w, IsHead(w, h) PROVE h \in DOMAIN in /\ IsHead(in, h)
  <2>1. h # N + 1
    BY <1>2, <1>3 DEF IsHead
  <2>2. h \in 1..N
    BY <1>1, <1>2, <2>1
  <2> QED BY <1>1, <1>2, <1>3, <2>2 DEF IsHead
<1>4. ASSUME NEW k \in DOMAIN in PROVE IntactIn(us, w, k) <=> IntactIn(us, in, k)
  <2>1. w[k] = in[k]
    BY <1>1, <1>2
  <2>2. CASE in[k].piece # 1
    <3>1. k \in DOMAIN w
      BY <1>1, <1>2
    <3> QED BY <2>1, <2>2, <3>1, IntactBegins
  <2>3. CASE in[k].piece = 1 /\ ~IsHead(in, k)
    <3>1. HeadAfter(in, x, k)
      BY <2>3 DEF HeadAfter, IsHead
    <3> QED BY <1>2, <3>1, IntactStays
  <2>4. CASE IsHead(in, k)
    <3>10. us[in[k].unit].size \in Nat
      BY StreamTyped
    <3>1. PICK n \in Nat, u \in {in[k].unit} : u = in[k].unit /\ n = us[u].size
      BY <3>10
    <3>2. in[k].pid \notin Video /\ k + n - 1 <= N
      <4>1. in[k].pid = p
        BY StreamTyped
      <4> QED BY <1>1, <2>4, <3>1, <4>1 DEF Closed
    <3>3. k \in 1..N
      BY <1>1
    <3>4. \A j \in 1..n : k + j - 1 \in 1..N
      <4>1. PICK a \in Nat, b \in Nat : a = k /\ b = N /\ a >= 1
        BY <1>1, <3>3
      <4>2. a + n - 1 <= b
        BY <3>2, <4>1
      <4>3. \A j \in 1..n : a + j - 1 \in 1..b
        BY <3>1, <4>1, <4>2
      <4> QED BY <4>1, <4>3, Zenon
    <3>5. \A j \in 1..n : w[k + j - 1] = in[k + j - 1]
      BY <1>2, <3>4
    <3>6. k + n - 1 <= N + 1
      BY <1>1, <3>1, <3>2, <3>3
    <3>7. IntactIn(us, in, k) <=> \A j \in 1..n : in[k + j - 1] = Ts(us[u].pid, u, j)
      BY <1>1, <3>1, <3>2 DEF IntactIn
    <3>8. IntactIn(us, w, k) <=> \A j \in 1..n : w[k + j - 1] = Ts(us[u].pid, u, j)
      BY <1>2, <2>1, <3>1, <3>2, <3>6 DEF IntactIn
    <3> QED BY <3>5, <3>7, <3>8
  <2> QED BY <2>2, <2>3, <2>4
<1>5. ~IntactIn(us, w, N + 1)
  <2>1. N + 1 \in DOMAIN w /\ w[N + 1].piece # 1
    BY <1>1, <1>2
  <2> QED BY <2>1, IntactBegins
<1>6. IntactOf(us, w) = IntactOf(us, in)
  <2>1. IntactPlaces(us, w) = IntactPlaces(us, in)
    <3>1. \A k : k \in DOMAIN w <=> k \in DOMAIN in \/ k = N + 1
      BY <1>1, <1>2
    <3> QED BY <1>4, <1>5, <3>1 DEF IntactPlaces
  <2>2. PICK S : S = IntactPlaces(us, in)
    OBVIOUS
  <2>3. S \in SUBSET (1..Len(in))
    BY <1>1, <2>2 DEF IntactPlaces
  <2>4. AtPlaces(w, S) = AtPlaces(in, S)
    <3>1. AtPlaces(Append(in, x), S) = AtPlaces(in, S)
      BY <2>3, PickedNext, Zenon
    <3> QED BY <1>2, <3>1
  <2> QED BY <2>1, <2>2, <2>4 DEF IntactOf
<1>7. ASSUME NEW h \in DOMAIN w, IsHead(w, h)
      PROVE  p \notin Video /\ h + us[w[h].unit].size - 1 <= N + 1
  <2>1. h \in DOMAIN in /\ IsHead(in, h)
    BY <1>3, <1>7
  <2>2. w[h] = in[h] /\ h \in 1..N
    BY <1>1, <1>2, <2>1
  <2>3. PICK n \in Nat : n = us[in[h].unit].size
    BY <2>1, StreamTyped
  <2>4. p \notin Video /\ h + n - 1 <= N
    BY <1>1, <2>1, <2>3 DEF Closed
  <2>5. h + n - 1 <= N + 1
    BY <1>1, <2>2, <2>3, <2>4
  <2> QED BY <2>2, <2>3, <2>4, <2>5
<1>8. Closed(us, p, w, list)
  BY <1>2, <1>6, <1>7 DEF Closed
<1> QED BY <1>2, <1>8

\* The units in progress are typed.
LEMMA BegunTyped ==
    ASSUME NEW us, Given(us), NEW pes \in [DOMAIN us -> PesHeaders], NEW p \in Pids, NEW x \in StreamOf(us, p)
    PROVE  PesOf(pes, x) \in PesSet
<1>1. x \in TsPacketSet /\ x.pid = p /\ x.unit \in DOMAIN us
  BY DEF StreamOf, PiecesOf
<1>2. pes[x.unit] \in PesHeaders
  BY <1>1
<1>3. <<x>> \in Seq(TsPacketSet)
  BY <1>1
<1> QED BY <1>1, <1>2, <1>3 DEF PesOf, PesSet, PesHeaders

LEMMA GrownTyped ==
    ASSUME NEW us, NEW p, NEW part \in PesSet, NEW x \in StreamOf(us, p)
    PROVE  [part EXCEPT !.data = Append(@, x)] \in PesSet
<1>1. x \in TsPacketSet
  BY DEF StreamOf, PiecesOf
<1>2. Append(part.data, x) \in Seq(TsPacketSet)
  BY <1>1 DEF PesSet
<1> QED BY <1>2 DEF PesSet

\* One more piece of a stream.
LEMMA ParsedTakes ==
    ASSUME NEW us, Given(us), NEW pes \in [DOMAIN us -> PesHeaders], Announces(us, pes), NEW p \in Pids,
           NEW in \in Seq(StreamOf(us, p)), NEW list, NEW part \in PesSet \cup {None}, None \notin PesSet,
           Parsed(us, pes, p, in, list, part), NEW x \in StreamOf(us, p),
           NEW more, NEW ended, NEW after, NEW rest, Takes(us, pes, part, list, x, more, ended, after, rest)
    PROVE  /\ more \in PesSet \cup {None} /\ rest \in PesSet \cup {None}
           /\ more # None => more.pid = p
           /\ Parsed(us, pes, p, Append(in, x), after, rest)
<1>0. /\ more = IF x.piece = 1 THEN PesOf(pes, x)
                ELSE IF part = None THEN None ELSE [part EXCEPT !.data = Append(@, x)]
      /\ ended = IF x.piece = 1 /\ part # None THEN Extended(us, list, part) ELSE list
      /\ after = IF Complete(more) THEN Extended(us, ended, more) ELSE ended
      /\ rest = IF Complete(more) THEN None ELSE more
  BY DEF Takes
<1>1. PICK w \in Seq(StreamOf(us, p)) : w = Append(in, x)
  <2>1. Append(in, x) \in Seq(StreamOf(us, p))
    BY AppendProperties
  <2> QED BY <2>1
<1>2. CASE x.piece # 1 /\ part = None
  <2>1. more = None /\ ended = list /\ ~Complete(more) /\ after = list /\ rest = None
    BY <1>0, <1>2 DEF Complete
  <2>2. Closed(us, p, in, list)
    BY <1>2 DEF Parsed
  <2>3. Closed(us, p, w, list)
    BY <1>1, <1>2, <2>2, ClosedSkips
  <2> QED BY <1>1, <2>1, <2>3 DEF Parsed
<1>3. CASE x.piece = 1 \/ part # None
  <2>1. more \in PesSet /\ \E h \in DOMAIN w : Growing(us, pes, p, w, ended, more, h)
    <3>1. CASE x.piece = 1
      <4>1. more = PesOf(pes, x)
        BY <1>0, <3>1
      <4>2. ended = IntactOf(us, in)
        <5>1. CASE part = None
          BY <1>0, <5>1 DEF Parsed, Closed
        <5>2. CASE part # None
          <6>1. PICK h \in DOMAIN in : Growing(us, pes, p, in, list, part, h)
            BY <5>2 DEF Parsed
          <6>2. Extended(us, list, part) = IntactOf(us, in)
            BY <6>1, GrowingCloses
          <6> QED BY <1>0, <3>1, <5>2, <6>2
        <5> QED BY <5>1, <5>2
      <4>3. Growing(us, pes, p, w, ended, more, Len(in) + 1)
        BY <1>1, <3>1, <4>1, <4>2, HeadGrows
      <4>4. Len(in) + 1 \in DOMAIN w
        BY <1>1
      <4>5. more \in PesSet
        BY <4>1, BegunTyped
      <4> QED BY <4>3, <4>4, <4>5
    <3>2. CASE x.piece # 1
      <4>1. /\ part # None /\ part \in PesSet /\ ended = list
            /\ more = [part EXCEPT !.data = Append(@, x)]
        BY <1>0, <1>3, <3>2
      <4>2. ~Complete(part) /\ \E h \in DOMAIN in : Growing(us, pes, p, in, list, part, h)
        BY <4>1 DEF Parsed
      <4>3. PICK h \in DOMAIN in : Growing(us, pes, p, in, list, part, h)
        BY <4>2
      <4>4. Growing(us, pes, p, w, list, more, h)
        <5>1. Growing(us, pes, p, Append(in, x), list, [part EXCEPT !.data = Append(@, x)], h)
          BY <3>2, <4>1, <4>2, <4>3, GrowingGrows
        <5> QED BY <1>1, <4>1, <5>1
      <4>5. h \in DOMAIN w
        BY <4>4 DEF Growing, IsHead
      <4>6. more \in PesSet
        <5>1. part \in PesSet
          BY <4>1
        <5>2. [part EXCEPT !.data = Append(@, x)] \in PesSet
          BY <5>1, GrownTyped
        <5> QED BY <4>1, <5>2
      <4> QED BY <4>1, <4>4, <4>5, <4>6
    <3> QED BY <3>1, <3>2
  <2>2. PICK h \in DOMAIN w : Growing(us, pes, p, w, ended, more, h)
    BY <2>1
  <2>3. more # None /\ more.pid = p
    BY <2>1, <2>2 DEF Growing
  <2>4. CASE Complete(more)
    <3>1. Closed(us, p, w, Extended(us, ended, more))
      BY <2>2, <2>4, GrowingEnds
    <3>2. after = Extended(us, ended, more) /\ rest = None
      BY <1>0, <2>4
    <3> QED BY <1>1, <2>1, <2>3, <3>1, <3>2 DEF Parsed
  <2>5. CASE ~Complete(more)
    <3>1. after = ended /\ rest = more
      BY <1>0, <2>5
    <3>2. Parsed(us, pes, p, w, ended, more)
      BY <2>2, <2>3, <2>5 DEF Parsed
    <3> QED BY <1>1, <2>1, <2>3, <3>1, <3>2
  <2> QED BY <2>4, <2>5
<1> QED BY <1>2, <1>3

\* At the end of the input the unit in progress is emitted.
LEMMA ParsedEnds ==
    ASSUME NEW us, Given(us), NEW pes, Announces(us, pes), NEW p \in Pids,
           NEW in \in Seq(StreamOf(us, p)), NEW list, NEW part, Parsed(us, pes, p, in, list, part)
    PROVE  IntactOf(us, in) = IF part = None THEN list ELSE Extended(us, list, part)
<1>1. CASE part = None
  BY <1>1 DEF Parsed, Closed
<1>2. CASE part # None
  <2>1. PICK h \in DOMAIN in : Growing(us, pes, p, in, list, part, h)
    BY <1>2 DEF Parsed
  <2>2. Extended(us, list, part) = IntactOf(us, in)
    BY <2>1, GrowingCloses
  <2> QED BY <1>2, <2>2
<1> QED BY <1>1, <1>2

\* One more packet comes out.
LEMMA WholeAppend ==
    ASSUME NEW us, NEW p \in Pids, NEW s \in Seq(PacketSet), NEW pkt \in PacketSet
    PROVE  WholeOf(us, p, Append(s, pkt)) =
               IF pkt.pid = p /\ IsWhole(us, pkt) THEN Append(WholeOf(us, p, s), pkt.data[1].unit)
               ELSE WholeOf(us, p, s)
<1>1. PICK N \in Nat, w \in Seq(PacketSet) :
         /\ N = Len(s) /\ w = Append(s, pkt) /\ DOMAIN s = 1..N /\ DOMAIN w = 1..(N + 1)
         /\ w[N + 1] = pkt /\ \A i \in 1..N : w[i] = s[i]
  <2>1. /\ Append(s, pkt) \in Seq(PacketSet) /\ DOMAIN Append(s, pkt) = 1..(Len(s) + 1)
        /\ Append(s, pkt)[Len(s) + 1] = pkt /\ \A i \in 1..Len(s) : Append(s, pkt)[i] = s[i]
    BY OneMore
  <2>2. Len(s) \in Nat /\ DOMAIN s = 1..Len(s)
    OBVIOUS
  <2> QED BY <2>1, <2>2, Zenon
<1>2. PICK S : S = WholePlaces(us, p, s)
  OBVIOUS
<1>3. S \in SUBSET (1..Len(s))
  BY <1>1, <1>2 DEF WholePlaces
<1>4. WholePlaces(us, p, w) = IF pkt.pid = p /\ IsWhole(us, pkt) THEN S \cup {N + 1} ELSE S
  <2>1. \A k : k \in 1..(N + 1) <=> k \in 1..N \/ k = N + 1
    BY <1>1
  <2>2. \A k \in 1..N : k # N + 1
    BY <1>1
  <2> QED BY <1>1, <1>2, <2>1, <2>2 DEF WholePlaces
<1>5. AtPlaces(w, S) = AtPlaces(s, S) /\ AtPlaces(w, S \cup {N + 1}) = Append(AtPlaces(s, S), pkt)
  <2>1. /\ AtPlaces(Append(s, pkt), S) = AtPlaces(s, S)
        /\ AtPlaces(Append(s, pkt), S \cup {Len(s) + 1}) = Append(AtPlaces(s, S), pkt)
    BY <1>3, PickedNext
  <2> QED BY <1>1, <2>1
<1>6. FirstUnits(Append(AtPlaces(s, S), pkt)) = Append(FirstUnits(AtPlaces(s, S)), pkt.data[1].unit)
  <2>1. AtPlaces(s, S) \in Seq(PacketSet)
    BY <1>3, PickedPlaces
  <2> QED BY <2>1, UnitsAppend
<1>7. WholeOf(us, p, w) = FirstUnits(AtPlaces(w, WholePlaces(us, p, w))) /\ WholeOf(us, p, s) = FirstUnits(AtPlaces(s, S))
  BY <1>2 DEF WholeOf
<1>8. CASE pkt.pid = p /\ IsWhole(us, pkt)
  BY <1>1, <1>4, <1>5, <1>6, <1>7, <1>8
<1>9. CASE ~(pkt.pid = p /\ IsWhole(us, pkt))
  BY <1>1, <1>4, <1>5, <1>7, <1>9
<1> QED BY <1>8, <1>9

\* One more TS packet is taken.
LEMMA TablesAppend ==
    ASSUME NEW us, NEW c \in Seq(PiecesOf(us)), NEW x \in PiecesOf(us)
    PROVE  Append(c, x) \in Seq(PiecesOf(us)) /\ TablesGrow(c, x, Append(c, x), Len(c))
<1>0. PICK N, w : N = Len(c) /\ w = Append(c, x)
  OBVIOUS
<1>1. /\ N \in Nat /\ w \in Seq(PiecesOf(us)) /\ Len(w) = N + 1 /\ DOMAIN c = 1..N /\ DOMAIN w = 1..(N + 1)
      /\ w[N + 1] = x /\ \A i \in 1..N : w[i] = c[i]
  <2>1. /\ Append(c, x) \in Seq(PiecesOf(us)) /\ DOMAIN Append(c, x) = 1..(Len(c) + 1)
        /\ Append(c, x)[Len(c) + 1] = x /\ \A i \in 1..Len(c) : Append(c, x)[i] = c[i]
    BY OneMore
  <2>2. Len(Append(c, x)) = Len(c) + 1
    BY AppendProperties
  <2> QED BY <1>0, <2>1, <2>2
<1>2. ASSUME NEW k \in 1..(N + 1) PROVE HasPat(w, k) <=> HasPat(c, k)
  <2>1. \A i \in 1..(k - 1) : i \in 1..N
    BY <1>1
  <2> QED BY <1>1, <2>1 DEF HasPat
<1>3. ASSUME NEW k \in 1..(N + 1) PROVE HasPmt(w, k) <=> HasPmt(c, k)
  <2>1. \A i \in 1..(k - 1) : i \in 1..N /\ i \in 1..(N + 1)
    BY <1>1
  <2> QED BY <1>1, <1>2, <2>1 DEF HasPmt
<1>4. \A i : i \in 1..(N + 2 - 1) <=> i \in 1..(N + 1 - 1) \/ i = N + 1
  BY <1>1
<1>5. \A i \in 1..(N + 1 - 1) : i \in 1..N /\ i \in 1..(N + 1)
  BY <1>1
<1>6. HasPat(w, N + 2) <=> HasPat(c, N + 1) \/ x.pid = PAT
  BY <1>1, <1>4, <1>5 DEF HasPat
<1>7. HasPmt(w, N + 2) <=> HasPmt(c, N + 1) \/ (x.pid = PMT /\ HasPat(c, N + 1))
  <2>1. N + 1 \in 1..(N + 1)
    BY <1>1
  <2> QED BY <1>1, <1>2, <1>4, <1>5, <2>1 DEF HasPmt
<1> QED BY <1>0, <1>1, <1>3, <1>6, <1>7 DEF TablesGrow

LEMMA TakenTyped ==
    ASSUME NEW us, NEW c \in Seq(PiecesOf(us)), NEW p \in Pids
    PROVE  TakenFor(c, p) \in Seq(StreamOf(us, p))
<1>1. PICK S \in SUBSET (1..Len(c)) : S = TakenPlaces(c, p)
  <2>1. DOMAIN c = 1..Len(c)
    OBVIOUS
  <2>2. TakenPlaces(c, p) \subseteq DOMAIN c
    BY DEF TakenPlaces
  <2> QED BY <2>1, <2>2
<1>2. PICK a \in Seq(PiecesOf(us)), places \in Seq(1..Len(c)) :
         /\ a = AtPlaces(c, S) /\ places = Ascending(S) /\ Len(a) = Len(places)
         /\ \A k \in 1..Len(places) : a[k] = c[places[k]]
  <2>1. /\ Ascending(S) \in Seq(1..Len(c)) /\ AtPlaces(c, S) \in Seq(PiecesOf(us))
        /\ Len(AtPlaces(c, S)) = Len(Ascending(S))
        /\ \A k \in 1..Len(Ascending(S)) : AtPlaces(c, S)[k] = c[Ascending(S)[k]]
    BY PickedPlaces, Zenon
  <2> QED BY <2>1, Zenon
<1>3. \A k \in 1..Len(places) : places[k] \in S
  <2>1. Len(c) \in Nat
    OBVIOUS
  <2> QED BY <1>2, <2>1, AscendingLists
<1>4. ASSUME NEW k \in 1..Len(a) PROVE a[k] \in StreamOf(us, p)
  <2>1. places[k] \in S /\ a[k] = c[places[k]]
    BY <1>2, <1>3
  <2>2. c[places[k]].pid = p
    BY <1>1, <2>1 DEF TakenPlaces
  <2>3. a[k] \in PiecesOf(us)
    BY ElementOfSeq
  <2> QED BY <2>1, <2>2, <2>3 DEF StreamOf
<1>5. a \in Seq(StreamOf(us, p))
  BY <1>4, SeqOverElements
<1> QED BY <1>1, <1>2, <1>5 DEF TakenFor

LEMMA TakenAppend ==
    ASSUME NEW us, NEW c \in Seq(PiecesOf(us)), NEW x \in PiecesOf(us), NEW p \in Pids
    PROVE  /\ TakenFor(c, p) \in Seq(StreamOf(us, p))
           /\ TakenFor(Append(c, x), p) = IF x.pid = p /\ HasPmt(c, Len(c) + 1) THEN Append(TakenFor(c, p), x)
                                          ELSE TakenFor(c, p)
<1>1. PICK N \in Nat, w \in Seq(PiecesOf(us)) :
         /\ N = Len(c) /\ w = Append(c, x) /\ DOMAIN c = 1..N /\ DOMAIN w = 1..(N + 1)
         /\ w[N + 1] = x /\ \A i \in 1..N : w[i] = c[i]
  <2>1. /\ Append(c, x) \in Seq(PiecesOf(us)) /\ DOMAIN Append(c, x) = 1..(Len(c) + 1)
        /\ Append(c, x)[Len(c) + 1] = x /\ \A i \in 1..Len(c) : Append(c, x)[i] = c[i]
    BY OneMore
  <2>2. Len(c) \in Nat /\ DOMAIN c = 1..Len(c)
    OBVIOUS
  <2> QED BY <2>1, <2>2
<1>2. PICK S : S = TakenPlaces(c, p)
  OBVIOUS
<1>3. S \in SUBSET (1..Len(c))
  BY <1>1, <1>2 DEF TakenPlaces
<1>4. TakenPlaces(w, p) = IF x.pid = p /\ HasPmt(c, N + 1) THEN S \cup {N + 1} ELSE S
  <2>1. \A k : k \in 1..(N + 1) <=> k \in 1..N \/ k = N + 1
    BY <1>1
  <2>2. \A k \in 1..N : k # N + 1
    BY <1>1
  <2>3. \A k \in 1..(N + 1) : HasPmt(w, k) <=> HasPmt(c, k)
    <3>1. TablesGrow(c, x, w, N)
      BY <1>1, TablesAppend
    <3> QED BY <3>1 DEF TablesGrow
  <2> QED BY <1>1, <1>2, <2>1, <2>2, <2>3 DEF TakenPlaces
<1>5. AtPlaces(w, S) = AtPlaces(c, S) /\ AtPlaces(w, S \cup {N + 1}) = Append(AtPlaces(c, S), x)
  <2>1. /\ AtPlaces(Append(c, x), S) = AtPlaces(c, S)
        /\ AtPlaces(Append(c, x), S \cup {Len(c) + 1}) = Append(AtPlaces(c, S), x)
    BY <1>3, PickedNext
  <2> QED BY <1>1, <2>1
<1>6. TakenFor(w, p) = AtPlaces(w, TakenPlaces(w, p)) /\ TakenFor(c, p) = AtPlaces(c, S)
  BY <1>2 DEF TakenFor
<1>7. TakenFor(c, p) \in Seq(StreamOf(us, p))
  BY TakenTyped
<1>8. CASE x.pid = p /\ HasPmt(c, N + 1)
  BY <1>1, <1>4, <1>5, <1>6, <1>7, <1>8
<1>9. CASE ~(x.pid = p /\ HasPmt(c, N + 1))
  BY <1>1, <1>4, <1>5, <1>6, <1>7, <1>9
<1> QED BY <1>8, <1>9

LEMMA ParsedPid ==
    ASSUME NEW us, NEW pes, NEW p, NEW in, NEW list, NEW part, Parsed(us, pes, p, in, list, part), part # None
    PROVE  part.pid = p
BY DEF Parsed, Growing

\* A unit in progress is emitted.
LEMMA EmittedWhole ==
    ASSUME NEW us, NEW s \in Seq(PacketSet), NEW part \in PesSet
    PROVE  /\ AfterPacket(part) \in PacketSet /\ s \o <<AfterPacket(part)>> \in Seq(PacketSet)
           /\ \A p \in Pids : WholeOf(us, p, s \o <<AfterPacket(part)>>)
                                  = IF part.pid = p THEN Extended(us, WholeOf(us, p, s), part) ELSE WholeOf(us, p, s)
<1>1. PICK pkt : pkt = AfterPacket(part)
  OBVIOUS
<1>2. pkt \in PacketSet /\ pkt.pid = part.pid /\ pkt.data = part.data
  BY <1>1 DEF AfterPacket, PesSet, PacketSet
<1>3. s \o <<pkt>> = Append(s, pkt) /\ s \o <<pkt>> \in Seq(PacketSet)
  BY <1>2, AppendIsConcat
<1>4. ASSUME NEW p \in Pids
      PROVE  WholeOf(us, p, Append(s, pkt))
                 = IF part.pid = p THEN Extended(us, WholeOf(us, p, s), part) ELSE WholeOf(us, p, s)
  <2>1. WholeOf(us, p, Append(s, pkt)) =
            IF pkt.pid = p /\ IsWhole(us, pkt) THEN Append(WholeOf(us, p, s), pkt.data[1].unit)
            ELSE WholeOf(us, p, s)
    BY <1>2, WholeAppend
  <2> QED BY <1>1, <1>2, <2>1 DEF Extended
<1> QED BY <1>1, <1>2, <1>3, <1>4

\* A packet that is not of a known stream.
LEMMA FedSkips ==
    ASSUME NEW us, NEW c \in Seq(PiecesOf(us)), NEW x \in PiecesOf(us), x.pid \notin Pids \/ ~HasPmt(c, Len(c) + 1)
    PROVE  \A p \in Pids : TakenFor(Append(c, x), p) = TakenFor(c, p)
BY TakenAppend

\* One piece of a stream, as feed_pes takes it.
LEMMA FeedsPiece ==
    ASSUME NEW us, Given(us), NEW pes \in [DOMAIN us -> PesHeaders], Announces(us, pes), None \notin PesSet,
           NEW q \in Pids, NEW x \in StreamOf(us, q), FeedPes(pes, x),
           partial \in [Pids -> PesSet \cup {None}],
           ready \in Seq(PacketSet), out \in Seq(PacketSet),
           NEW lists, NEW ins, ins[q] \in Seq(StreamOf(us, q)),
           \A p \in Pids : lists[p] = WholeOf(us, p, out \o ready) /\ Parsed(us, pes, p, ins[p], lists[p], partial[p])
    PROVE  /\ partial' \in [Pids -> PesSet \cup {None}] /\ ready' \in Seq(PacketSet)
           /\ Parsed(us, pes, q, Append(ins[q], x), WholeOf(us, q, out \o ready'), partial'[q])
           /\ \A p \in Pids : p # q => partial'[p] = partial[p] /\ WholeOf(us, p, out \o ready') = lists[p]
           /\ havePmt' = havePmt /\ built' = built
<1>1. x.pid = q
  BY DEF StreamOf
<1>20. PICK list : list = lists[q]
  OBVIOUS
<1>2. PICK part \in PesSet \cup {None}, in \in Seq(StreamOf(us, q)) :
         part = partial[q] /\ list = lists[q] /\ in = ins[q] /\ Parsed(us, pes, q, in, list, part)
  BY <1>20
<1>3. PICK more : more = IF x.piece = 1 THEN PesOf(pes, x)
                         ELSE IF part = None THEN None ELSE [part EXCEPT !.data = Append(@, x)]
  OBVIOUS
<1>4. PICK f, t : /\ f = (IF x.piece = 1 /\ part # None THEN <<AfterPacket(part)>> ELSE <<>>)
                  /\ t = (IF Complete(more) THEN <<AfterPacket(more)>> ELSE <<>>)
  OBVIOUS
<1>5. PICK rest : rest = IF Complete(more) THEN None ELSE more
  OBVIOUS
<1>6. /\ ready' = (ready \o f) \o t /\ partial' = [partial EXCEPT ![q] = rest]
      /\ havePmt' = havePmt /\ built' = built
  <2>1. Grown(pes, x) = more /\ Finalised(x) = f
    BY <1>1, <1>2, <1>3, <1>4 DEF Grown, Finalised
  <2>2. PICK g : g = Grown(pes, x)
    OBVIOUS
  <2>3. /\ ready' = ready \o Finalised(x) \o (IF Complete(g) THEN <<AfterPacket(g)>> ELSE <<>>)
        /\ partial' = [partial EXCEPT ![x.pid] = IF Complete(g) THEN None ELSE g]
        /\ built' = built /\ havePmt' = havePmt
    BY <2>2 DEF FeedPes
  <2> QED BY <1>1, <1>4, <1>5, <2>1, <2>2, <2>3
<1>7. PICK s \in Seq(PacketSet) : s = out \o ready
  BY ConcatProperties
<1>80. PICK ended : ended = (IF x.piece = 1 /\ part # None THEN Extended(us, list, part) ELSE list)
  OBVIOUS
<1>8. PICK s1 \in Seq(PacketSet) :
         /\ s1 = s \o f /\ f \in Seq(PacketSet)
         /\ \A p \in Pids : WholeOf(us, p, s1) = IF p = q THEN ended ELSE lists[p]
  <2>1. CASE x.piece = 1 /\ part # None
    <3>1. part \in PesSet /\ part.pid = q
      BY <1>2, <2>1, ParsedPid
    <3>2. /\ AfterPacket(part) \in PacketSet /\ s \o <<AfterPacket(part)>> \in Seq(PacketSet)
          /\ \A p \in Pids : WholeOf(us, p, s \o <<AfterPacket(part)>>)
                                 = IF part.pid = p THEN Extended(us, WholeOf(us, p, s), part) ELSE WholeOf(us, p, s)
      BY <3>1, EmittedWhole
    <3>3. f = <<AfterPacket(part)>> /\ f \in Seq(PacketSet)
      BY <1>4, <2>1, <3>2
    <3>4. ASSUME NEW p \in Pids
          PROVE  WholeOf(us, p, s \o <<AfterPacket(part)>>) = IF p = q THEN ended ELSE lists[p]
      <4>1. WholeOf(us, p, s) = lists[p]
        BY <1>7
      <4> QED BY <1>2, <1>80, <2>1, <3>1, <3>2, <4>1, Zenon
    <3> QED BY <3>2, <3>3, <3>4
  <2>2. CASE ~(x.piece = 1 /\ part # None)
    <3>1. f = <<>> /\ f \in Seq(PacketSet) /\ s \o f = s
      BY <1>4, <2>2
    <3> QED BY <1>2, <1>7, <1>80, <2>2, <3>1
  <2> QED BY <2>1, <2>2
<1>9. PICK after : after = IF Complete(more) THEN Extended(us, ended, more) ELSE ended
  OBVIOUS
<1>10. /\ more \in PesSet \cup {None} /\ rest \in PesSet \cup {None}
       /\ more # None => more.pid = q
       /\ Parsed(us, pes, q, Append(in, x), after, rest)
  <2>1. Takes(us, pes, part, list, x, more, ended, after, rest)
    BY <1>3, <1>5, <1>80, <1>9 DEF Takes
  <2>2. /\ part \in PesSet \cup {None} /\ in \in Seq(StreamOf(us, q)) /\ x \in StreamOf(us, q)
        /\ Parsed(us, pes, q, in, list, part)
    BY <1>2
  <2> QED BY <2>1, <2>2, ParsedTakes, Zenon
<1>11. /\ s1 \o t \in Seq(PacketSet) /\ t \in Seq(PacketSet)
       /\ \A p \in Pids : WholeOf(us, p, s1 \o t) = IF p = q THEN after ELSE lists[p]
  <2>1. CASE Complete(more)
    <3>1. more \in PesSet /\ more.pid = q
      BY <1>10, <2>1 DEF Complete
    <3>2. /\ AfterPacket(more) \in PacketSet /\ s1 \o <<AfterPacket(more)>> \in Seq(PacketSet)
          /\ \A p \in Pids : WholeOf(us, p, s1 \o <<AfterPacket(more)>>)
                                 = IF more.pid = p THEN Extended(us, WholeOf(us, p, s1), more) ELSE WholeOf(us, p, s1)
      BY <3>1, EmittedWhole
    <3>3. t = <<AfterPacket(more)>> /\ t \in Seq(PacketSet)
      BY <1>4, <2>1, <3>2
    <3> QED BY <1>8, <1>9, <2>1, <3>1, <3>2, <3>3
  <2>2. CASE ~Complete(more)
    <3>1. t = <<>> /\ t \in Seq(PacketSet) /\ s1 \o t = s1
      BY <1>4, <2>2
    <3> QED BY <1>8, <1>9, <2>2, <3>1
  <2> QED BY <2>1, <2>2
<1>12. out \o ready' = s1 \o t /\ ready' \in Seq(PacketSet)
  <2>1. PICK r \in Seq(PacketSet) : r = ready \o f
    BY <1>8, ConcatProperties
  <2>2. ready' = r \o t /\ ready' \in Seq(PacketSet)
    BY <1>6, <1>11, <2>1, ConcatProperties
  <2>3. PICK a \in Seq(PacketSet), b \in Seq(PacketSet) : a = out /\ b = ready
    OBVIOUS
  <2>4. PICK g \in Seq(PacketSet), h \in Seq(PacketSet) : g = f /\ h = t
    BY <1>8, <1>11
  <2>5. (a \o r) \o h = a \o (r \o h) /\ (a \o b) \o g = a \o (b \o g)
    <3>1. /\ a \in Seq(PacketSet) /\ b \in Seq(PacketSet) /\ r \in Seq(PacketSet)
          /\ g \in Seq(PacketSet) /\ h \in Seq(PacketSet)
      BY <2>1, <2>3, <2>4
    <3>2. MadeOf(a \o (r \o h), a \o r, h) /\ MadeOf(a \o (b \o g), a \o b, g)
      BY <3>1, GroupedLeft
    <3> QED BY <3>2 DEF MadeOf
  <2> QED BY <1>7, <1>8, <2>1, <2>2, <2>3, <2>4, <2>5
<1>13. partial' \in [Pids -> PesSet \cup {None}] /\ partial'[q] = rest /\ \A p \in Pids : p # q => partial'[p] = partial[p]
  BY <1>6, <1>10
<1>14. \A p \in Pids : WholeOf(us, p, out \o ready') = IF p = q THEN after ELSE lists[p]
  BY <1>11, <1>12
<1> QED BY <1>2, <1>6, <1>10, <1>12, <1>13, <1>14

\* consume.
LEMMA ConsumeFeeds ==
    ASSUME NEW us, Given(us), NEW pes \in [DOMAIN us -> PesHeaders], Announces(us, pes), None \notin PesSet,
           NEW c \in Seq(PiecesOf(us)), NEW x \in PiecesOf(us), Consume(pes, x),
           havePmt \in BOOLEAN, built \in BOOLEAN,
           partial \in [Pids -> PesSet \cup {None}],
           ready \in Seq(PacketSet), out \in Seq(PacketSet),
           Fed(us, pes, c, havePmt, built, partial, out \o ready)
    PROVE  /\ havePmt' \in BOOLEAN /\ built' \in BOOLEAN
           /\ partial' \in [Pids -> PesSet \cup {None}] /\ ready' \in Seq(PacketSet)
           /\ Fed(us, pes, Append(c, x), havePmt', built', partial', out \o ready')
<1>1. PICK N \in Nat, w \in Seq(PiecesOf(us)) :
         /\ N = Len(c) /\ w = Append(c, x) /\ Len(w) = N + 1 /\ (N + 1) + 1 = N + 2
         /\ HasPat(w, N + 2) <=> HasPat(c, N + 1) \/ x.pid = PAT
         /\ HasPmt(w, N + 2) <=> HasPmt(c, N + 1) \/ (x.pid = PMT /\ HasPat(c, N + 1))
  <2>1. PICK v \in Seq(PiecesOf(us)), n \in Nat : v = Append(c, x) /\ n = Len(c) /\ TablesGrow(c, x, v, n)
    BY TablesAppend, Zenon DEF TablesGrow
  <2>2. (n + 1) + 1 = n + 2
    BY <2>1 DEF TablesGrow
  <2> QED BY <2>1, <2>2 DEF TablesGrow
<1>2. PAT \notin Pids /\ PMT \notin Pids /\ PAT # PMT
  BY DemuxAssumption DEF PAT, PMT
<1>3. PICK lists, ins :
         \A p \in Pids : /\ lists[p] = WholeOf(us, p, out \o ready) /\ ins[p] = TakenFor(c, p)
                         /\ Parsed(us, pes, p, ins[p], lists[p], partial[p]) /\ ins[p] \in Seq(StreamOf(us, p))
  <2>1. PICK l : l = [p \in Pids |-> WholeOf(us, p, out \o ready)]
    OBVIOUS
  <2>2. PICK i : i = [p \in Pids |-> TakenFor(c, p)]
    OBVIOUS
  <2>3. ASSUME NEW p \in Pids
        PROVE  /\ l[p] = WholeOf(us, p, out \o ready) /\ i[p] = TakenFor(c, p)
               /\ Parsed(us, pes, p, i[p], l[p], partial[p]) /\ i[p] \in Seq(StreamOf(us, p))
    <3>1. TakenFor(c, p) \in Seq(StreamOf(us, p))
      BY TakenAppend
    <3> QED BY <2>1, <2>2, <3>1 DEF Fed
  <2> QED BY <2>3
<1>4. havePmt = HasPat(c, N + 1) /\ built = HasPmt(c, N + 1)
  BY <1>1 DEF Fed
<1>5. HasPat(w, N + 2) \in BOOLEAN /\ HasPmt(w, N + 2) \in BOOLEAN
  BY DEF HasPat, HasPmt
<1>6. CASE x.pid \notin Pids \/ ~built
  <2>1. partial' = partial /\ ready' = ready /\ havePmt' = HasPat(w, N + 2) /\ built' = HasPmt(w, N + 2)
    <3>1. CASE x.pid = PAT
      <4>1. havePmt' = TRUE /\ UNCHANGED <<built, partial, ready>>
        BY <1>2, <3>1 DEF Consume
      <4> QED BY <1>1, <1>2, <1>4, <1>5, <3>1, <4>1
    <3>2. CASE x.pid = PMT
      <4>1. built' = (built \/ havePmt) /\ UNCHANGED <<havePmt, partial, ready>>
        BY <1>2, <3>2 DEF Consume
      <4> QED BY <1>1, <1>2, <1>4, <1>5, <3>2, <4>1
    <3>3. CASE x.pid # PAT /\ x.pid # PMT
      <4>1. UNCHANGED <<havePmt, built, partial, ready>>
        BY <1>6, <3>3 DEF Consume
      <4> QED BY <1>1, <1>4, <1>5, <3>3, <4>1
    <3> QED BY <3>1, <3>2, <3>3
  <2>2. \A p \in Pids : TakenFor(w, p) = TakenFor(c, p)
    BY <1>1, <1>4, <1>6, FedSkips
  <2>3. \A p \in Pids : Parsed(us, pes, p, TakenFor(w, p), WholeOf(us, p, out \o ready), partial[p])
    BY <1>3, <2>2
  <2>4. Fed(us, pes, w, havePmt', built', partial, out \o ready)
    BY <1>1, <2>1, <2>3 DEF Fed
  <2> QED BY <1>1, <1>5, <2>1, <2>4
<1>7. CASE x.pid \in Pids /\ built
  <2>1. FeedPes(pes, x)
    <3>1. x.pid # PAT /\ x.pid # PMT
      BY <1>2, <1>7
    <3> QED BY <1>7, <3>1 DEF Consume
  <2>2. PICK q \in Pids : q = x.pid
    BY <1>7
  <2>3. x \in StreamOf(us, q)
    BY <2>2 DEF StreamOf
  <2>4. /\ partial' \in [Pids -> PesSet \cup {None}] /\ ready' \in Seq(PacketSet)
        /\ Parsed(us, pes, q, Append(ins[q], x), WholeOf(us, q, out \o ready'), partial'[q])
        /\ \A p \in Pids : p # q => partial'[p] = partial[p] /\ WholeOf(us, p, out \o ready') = lists[p]
        /\ havePmt' = havePmt /\ built' = built
    BY <1>3, <2>1, <2>3, FeedsPiece, Zenon
  <2>5. havePmt' = HasPat(w, N + 2) /\ built' = HasPmt(w, N + 2)
    BY <1>1, <1>2, <1>4, <1>5, <1>7, <2>4
  <2>6. ASSUME NEW p \in Pids
        PROVE  Parsed(us, pes, p, TakenFor(w, p), WholeOf(us, p, out \o ready'), partial'[p])
    <3>1. TakenFor(w, p) = IF x.pid = p /\ HasPmt(c, N + 1) THEN Append(TakenFor(c, p), x) ELSE TakenFor(c, p)
      BY <1>1, TakenAppend
    <3>2. CASE p = q
      <4>1. TakenFor(w, p) = Append(ins[q], x)
        BY <1>3, <1>4, <1>7, <2>2, <3>1, <3>2
      <4> QED BY <2>4, <3>2, <4>1
    <3>3. CASE p # q
      <4>1. TakenFor(w, p) = ins[p]
        BY <1>3, <2>2, <3>1, <3>3
      <4> QED BY <1>3, <2>4, <3>3, <4>1
    <3> QED BY <3>2, <3>3
  <2>7. Fed(us, pes, w, havePmt', built', partial', out \o ready')
    BY <1>1, <2>5, <2>6 DEF Fed
  <2> QED BY <1>1, <1>5, <2>4, <2>5, <2>7
<1> QED BY <1>6, <1>7

LEMMA NoneIsNoUnit == None \notin PesSet
BY UnitAssumption DEF PesSet, TsPacketSet, Stamps

\* The PES headers that the muxer writes.
LEMMA ProgramAnnounced ==
    ASSUME units \in Programs
    PROVE  Given(units) /\ Announces(units, Pes)
<1>1. units \in Seq(Units)
  BY ProgramTyped
<1>2. ASSUME NEW u \in DOMAIN units
      PROVE  LET stamp == IF units[u].pts = None THEN 0 ELSE units[u].pts % StampMod
             IN  /\ Pes[u].pts = stamp
                 /\ (IF Pes[u].dts = None THEN Pes[u].pts ELSE Pes[u].dts)
                        = IF units[u].dts = None THEN stamp ELSE units[u].dts % StampMod
                 /\ Pes[u].expect = IF units[u].pid \in Video THEN 0 ELSE units[u].size
  <2>1. PICK pts, dts : pts = units[u].pts /\ dts = units[u].dts /\ pts \in Stamps /\ dts \in Stamps
    <3>1. units[u] \in Units
      BY <1>1
    <3> QED BY <3>1 DEF Units
  <2>2. 0 % StampMod = 0 /\ \A n \in Int : n % StampMod \in Int /\ n % StampMod # None
    <3>1. \A m \in Nat \ {0} : 0 % m = 0
      OBVIOUS
    <3>2. \A n \in Int : n % StampMod \in Int
      BY UnitAssumption
    <3> QED BY <3>1, <3>2, UnitAssumption
  <2>3. Pes[u].pts = PtsField(u) /\ Pes[u].dts = DtsField(u) /\ Pes[u].expect = LengthField(u)
    BY DEF Pes
  <2>4. PtsField(u) = IF pts = None THEN 0 ELSE pts % StampMod
    BY <2>1, <2>2 DEF PtsField
  <2>5. DtsField(u) = IF dts = None \/ dts = pts THEN None ELSE dts % StampMod
    BY <2>1 DEF DtsField
  <2>6. dts # None => dts % StampMod # None
    BY <2>1, <2>2 DEF Stamps
  <2> QED BY <2>1, <2>3, <2>4, <2>5, <2>6, Zenon DEF LengthField
<1> QED BY <1>1, <1>2 DEF Given, Announces

\* What arrived of the datagrams ds, by their numbers g.
ReceivedOf(ds, g) == FlattenSeq([k \in DOMAIN g |-> ds[g[k]]])

LEMMA ReceivedStays ==
    ASSUME NEW ds, NEW es, NEW g \in Seq(DOMAIN ds), \A i \in DOMAIN ds : es[i] = ds[i]
    PROVE  ReceivedOf(es, g) = ReceivedOf(ds, g)
<1>1. \A k \in DOMAIN g : g[k] \in DOMAIN ds
  BY ElementOfSeq
<1>2. [k \in DOMAIN g |-> es[g[k]]] = [k \in DOMAIN g |-> ds[g[k]]]
  BY <1>1
<1> QED BY <1>2 DEF ReceivedOf

LEMMA ReceivedAdds ==
    ASSUME NEW X, NEW ds, \A i \in DOMAIN ds : ds[i] \in Seq(X), NEW g \in Seq(DOMAIN ds), NEW i \in DOMAIN ds
    PROVE  /\ ReceivedOf(ds, g) \in Seq(X)
           /\ ReceivedOf(ds, Append(g, i)) = ReceivedOf(ds, g) \o ds[i]
<1>1. PICK n \in Nat : n = Len(g) /\ DOMAIN g = 1..n /\ \A k \in 1..n : g[k] \in DOMAIN ds
  BY ElementOfSeq
<1>2. PICK h : /\ h = Append(g, i) /\ DOMAIN h = 1..(n + 1)
               /\ h[n + 1] = i /\ \A k \in 1..n : h[k] = g[k]
  <2>1. /\ DOMAIN Append(g, i) = 1..(Len(g) + 1) /\ Append(g, i)[Len(g) + 1] = i
        /\ \A k \in 1..Len(g) : Append(g, i)[k] = g[k]
    BY OneMore
  <2> QED BY <1>1, <2>1
<1>3. PICK f \in [1..n -> Seq(X)] : f = [k \in DOMAIN g |-> ds[g[k]]]
  BY <1>1
<1>4. \A k \in 1..(n + 1) : k \in 1..n \/ k = n + 1
  BY <1>1
<1>5. \A k \in 1..(n + 1) : h[k] \in DOMAIN ds
  BY <1>1, <1>2, <1>4
<1>6. PICK l \in [1..(n + 1) -> Seq(X)] : l = [k \in DOMAIN h |-> ds[h[k]]]
  BY <1>2, <1>5
<1>7. n + 1 \in 1..(n + 1) /\ 1..n \subseteq 1..(n + 1)
  BY <1>1
<1>8. l = Append(f, ds[i])
  <2>1. \A k \in 1..n : l[k] = f[k]
    BY <1>1, <1>2, <1>3, <1>6, <1>7
  <2>2. l = Append(f, l[n + 1])
    BY <1>1, <2>1, LongerByOne
  <2>3. l[n + 1] = ds[i]
    BY <1>2, <1>6, <1>7
  <2> QED BY <2>2, <2>3
<1>9. f \in Seq(Seq(X)) /\ ds[i] \in Seq(X)
  BY <1>1, FunctionIsSeq
<1>10. FlattenSeq(Append(f, ds[i])) = FlattenSeq(f) \o ds[i] /\ FlattenSeq(f) \in Seq(X)
  BY <1>9, FlattenAppend, FlattenType
<1> QED BY <1>2, <1>3, <1>6, <1>8, <1>10 DEF ReceivedOf

\* q is the n parts, each of a stream of its own.
Emission(n, parts, q) ==
    /\ n \in Nat /\ parts \in [1..n -> PesSet] /\ q \in Seq(PacketSet) /\ Len(q) = n
    /\ \A j, k \in 1..n : parts[j].pid = parts[k].pid => j = k
    /\ \A k \in 1..n : q[k] = AfterPacket(parts[k])

\* Units of different streams are emitted.
LEMMA EmittedOnce ==
    ASSUME NEW us, NEW n, NEW parts, NEW q, Emission(n, parts, q), NEW s \in Seq(PacketSet)
    PROVE  \A p \in Pids :
              /\ (\A k \in 1..n : parts[k].pid # p) => WholeOf(us, p, s \o q) = WholeOf(us, p, s)
              /\ \A k \in 1..n : parts[k].pid = p =>
                    WholeOf(us, p, s \o q) = Extended(us, WholeOf(us, p, s), parts[k])
<1> DEFINE Upto(k) == SubSeq(q, 1, k)
           Emits(k) ==
              /\ Upto(k) \in Seq(PacketSet) /\ s \o Upto(k) \in Seq(PacketSet)
              /\ \A p \in Pids :
                    /\ (\A j \in 1..k : parts[j].pid # p) => WholeOf(us, p, s \o Upto(k)) = WholeOf(us, p, s)
                    /\ \A j \in 1..k : parts[j].pid = p =>
                          WholeOf(us, p, s \o Upto(k)) = Extended(us, WholeOf(us, p, s), parts[j])
           T == {k \in 0..n : Emits(k)}
<1>0. /\ n \in Nat /\ parts \in [1..n -> PesSet] /\ q \in Seq(PacketSet) /\ Len(q) = n
      /\ \A j, k \in 1..n : parts[j].pid = parts[k].pid => j = k
      /\ \A k \in 1..n : q[k] = AfterPacket(parts[k])
  BY DEF Emission
<1>1. 0 \in T
  <2>1. Upto(0) = <<>>
    BY SubSeqEmpty
  <2>2. s \o <<>> = s
    OBVIOUS
  <2>3. ~\E j \in 1..0 : TRUE
    OBVIOUS
  <2> HIDE DEF Upto
  <2>4. Upto(0) \in Seq(PacketSet) /\ s \o Upto(0) = s
    <3>1. <<>> \in Seq(PacketSet)
      OBVIOUS
    <3> QED BY <2>1, <2>2, <3>1, Zenon
  <2>5. Emits(0)
    BY <2>3, <2>4
  <2> QED BY <1>0, <2>5
<1>2. ASSUME NEW k \in 1..n, k - 1 \in T PROVE k \in T
  <2>1. Upto(k - 1) \in Seq(PacketSet) /\ s \o Upto(k - 1) \in Seq(PacketSet)
    BY <1>2
  <2>2. PICK b \in Seq(PacketSet) : b = Upto(k - 1)
    BY <2>1
  <2>3. PICK a \in Seq(PacketSet) : a = s \o b
    BY <2>1, <2>2
  <2>4. \A p \in Pids :
           /\ (\A j \in 1..(k - 1) : parts[j].pid # p) => WholeOf(us, p, a) = WholeOf(us, p, s)
           /\ \A j \in 1..(k - 1) : parts[j].pid = p =>
                 WholeOf(us, p, a) = Extended(us, WholeOf(us, p, s), parts[j])
    BY <1>2, <2>2, <2>3
  <2>5. parts[k] \in PesSet
    BY <1>0
  <2>6. PICK e : e = AfterPacket(parts[k])
    OBVIOUS
  <2>7. /\ e \in PacketSet /\ a \o <<e>> \in Seq(PacketSet)
        /\ \A p \in Pids : WholeOf(us, p, a \o <<e>>)
                               = IF parts[k].pid = p THEN Extended(us, WholeOf(us, p, a), parts[k]) ELSE WholeOf(us, p, a)
    BY <2>5, <2>6, EmittedWhole
  <2>8. Upto(k) = b \o <<e>>
    <3>1. 1 \in 1..Len(q) /\ k \in 1..Len(q)
      BY <1>0
    <3>2. SubSeq(q, 1, k) = SubSeq(q, 1, k - 1) \o <<q[k]>>
      BY <1>0, <3>1, SubSeqRecursiveSecond
    <3> QED BY <1>0, <2>2, <2>6, <3>2
  <2>9. b \o <<e>> \in Seq(PacketSet) /\ a \o <<e>> = s \o (b \o <<e>>)
    <3>1. <<e>> \in Seq(PacketSet)
      BY <2>7
    <3>2. MadeOf(s \o (b \o <<e>>), s \o b, <<e>>)
      BY <3>1, GroupedLeft
    <3> QED BY <2>3, <3>1, <3>2, ConcatProperties DEF MadeOf
  <2> HIDE DEF Upto
  <2>10. PICK w \in Seq(PacketSet) : w = s \o Upto(k) /\ w = a \o <<e>> /\ Upto(k) \in Seq(PacketSet)
    BY <2>7, <2>8, <2>9
  <2>11. \A j \in 1..k : j \in 1..(k - 1) \/ j = k
    BY <1>0
  <2>12. 1..(k - 1) \subseteq 1..k /\ k \in 1..k /\ 1..k \subseteq 1..n
    BY <1>0
  <2>13. ASSUME NEW p \in Pids, \A j \in 1..k : parts[j].pid # p
         PROVE  WholeOf(us, p, w) = WholeOf(us, p, s)
    BY <2>4, <2>7, <2>10, <2>12, <2>13
  <2>14. ASSUME NEW p \in Pids, NEW j \in 1..k, parts[j].pid = p
         PROVE  WholeOf(us, p, w) = Extended(us, WholeOf(us, p, s), parts[j])
    <3>1. CASE j = k
      <4>1. \A i \in 1..(k - 1) : parts[i].pid # p
        <5>1. \A i \in 1..(k - 1) : i \in 1..n /\ i # k
          BY <1>0
        <5> QED BY <1>0, <2>14, <3>1, <5>1
      <4> QED BY <2>4, <2>7, <2>10, <2>14, <3>1, <4>1
    <3>2. CASE j # k
      <4>1. j \in 1..(k - 1) /\ parts[k].pid # p
        <5>1. j \in 1..(k - 1) /\ j \in 1..n
          BY <2>11, <2>12, <3>2
        <5> QED BY <1>0, <2>14, <3>2, <5>1
      <4> QED BY <2>4, <2>7, <2>10, <2>14, <4>1
    <3> QED BY <3>1, <3>2
  <2>15. Emits(k)
    BY <2>10, <2>13, <2>14
  <2> QED BY <1>0, <2>15
<1>3. n \in T
  <2> HIDE DEF T
  <2>1. 0..n \subseteq T
    BY <1>0, <1>1, <1>2, InductionUpTo
  <2> QED BY <1>0, <2>1
<1>4. Upto(n) = q
  BY <1>0, SubSeqFull
<1> QED BY <1>3, <1>4

\* The end of the input.
LEMMA InputEndsWhole ==
    ASSUME NEW us, None \notin PesSet, partial \in [Pids -> PesSet \cup {None}],
           \A p \in Pids : partial[p] # None => partial[p].pid = p,
           out \in Seq(PacketSet), InputEnds
    PROVE  /\ ready' \in Seq(PacketSet) /\ partial' \in [Pids -> PesSet \cup {None}]
           /\ \A p \in Pids :
                 WholeOf(us, p, out \o ready') = IF partial[p] = None THEN WholeOf(us, p, out)
                                                 ELSE Extended(us, WholeOf(us, p, out), partial[p])
<1> DEFINE S == {p \in Pids : partial[p] # None}
<1>1. PICK order \in [1..Cardinality(S) -> S] :
         /\ \A p \in S : \E k \in DOMAIN order : order[k] = p
         /\ ready' = Flushed(order)
  BY DEF InputEnds
<1>2. IsFiniteSet(S)
  <2>1. S \subseteq Pids /\ IsFiniteSet(Pids)
    BY DemuxAssumption
  <2> QED BY <2>1, FS_Subset
<1>3. PICK n \in Nat : n = Cardinality(S)
  BY <1>2, FS_CardinalityType
<1>4. \A j, k \in 1..n : order[j] = order[k] => j = k
  <2>1. order \in Surjection(1..n, S)
    BY <1>1, <1>3 DEF Surjection
  <2>2. IsFiniteSet(1..n) /\ Cardinality(1..n) = n
    BY <1>3, FS_Interval
  <2>3. order \in Injection(1..n, S)
    <3> HIDE DEF S
    <3> QED BY <1>3, <2>1, <2>2, FS_SurjSameCardinalityImpliesInj
  <2> QED BY <1>3, <2>3 DEF Injection, IsInjective
<1>5. PICK parts \in [1..n -> PesSet] : \A k \in 1..n : parts[k] = partial[order[k]] /\ order[k] \in S
  <2>1. \A k \in 1..n : order[k] \in S /\ partial[order[k]] \in PesSet
    BY <1>1, <1>3
  <2>2. [k \in 1..n |-> partial[order[k]]] \in [1..n -> PesSet]
    BY <2>1
  <2> QED BY <2>1, <2>2
<1>6. \A k \in 1..n : parts[k].pid = order[k]
  BY <1>5
<1>7. \A j, k \in 1..n : parts[j].pid = parts[k].pid => j = k
  BY <1>4, <1>6
<1>8. PICK q \in Seq(PacketSet) : q = ready' /\ Len(q) = n /\ \A k \in 1..n : q[k] = AfterPacket(parts[k])
  <2>1. \A k \in 1..n : AfterPacket(parts[k]) \in PacketSet
    BY EmittedWhole
  <2>2. [k \in 1..n |-> AfterPacket(parts[k])] \in [1..n -> PacketSet]
    BY <2>1
  <2>3. ready' = [k \in 1..n |-> AfterPacket(parts[k])]
    BY <1>1, <1>3, <1>5 DEF Flushed
  <2> QED BY <2>2, <2>3, FunctionIsSeq
<1>9. Emission(n, parts, q)
  BY <1>3, <1>5, <1>7, <1>8, Zenon DEF Emission
<1>10. \A p \in Pids :
         /\ (\A k \in 1..n : parts[k].pid # p) => WholeOf(us, p, out \o q) = WholeOf(us, p, out)
         /\ \A k \in 1..n : parts[k].pid = p =>
               WholeOf(us, p, out \o q) = Extended(us, WholeOf(us, p, out), parts[k])
  BY <1>9, EmittedOnce
<1>11. ASSUME NEW p \in Pids
       PROVE  WholeOf(us, p, out \o q) = IF partial[p] = None THEN WholeOf(us, p, out)
                                         ELSE Extended(us, WholeOf(us, p, out), partial[p])
  <2>1. CASE partial[p] = None
    <3>1. \A k \in 1..n : parts[k].pid # p
      BY <1>5, <1>6, <2>1
    <3> QED BY <1>10, <2>1, <3>1
  <2>2. CASE partial[p] # None
    <3>1. PICK k \in 1..n : order[k] = p
      BY <1>1, <1>3, <2>2
    <3>2. parts[k].pid = p /\ parts[k] = partial[p]
      BY <1>5, <1>6, <3>1
    <3> QED BY <1>10, <2>2, <3>2
  <2> QED BY <2>1, <2>2
<1>12. partial' \in [Pids -> PesSet \cup {None}]
  BY DEF InputEnds
<1> QED BY <1>8, <1>11, <1>12

LEMMA InputEndsFed ==
    ASSUME NEW us, Given(us), NEW pes, Announces(us, pes), None \notin PesSet,
           NEW c \in Seq(PiecesOf(us)), partial \in [Pids -> PesSet \cup {None}], out \in Seq(PacketSet),
           InputEnds, Fed(us, pes, c, havePmt, built, partial, out \o ready)
    PROVE  /\ ready' \in Seq(PacketSet) /\ partial' \in [Pids -> PesSet \cup {None}]
           /\ \A p \in Pids : WholeOf(us, p, out \o ready') = IntactOf(us, TakenFor(c, p))
<1>1. out \o ready = out
  <2>1. ready = <<>>
    BY DEF InputEnds
  <2> QED BY <2>1
<1>2. \A p \in Pids : Parsed(us, pes, p, TakenFor(c, p), WholeOf(us, p, out), partial[p])
  BY <1>1 DEF Fed
<1>3. \A p \in Pids : partial[p] # None => partial[p].pid = p
  BY <1>2, ParsedPid
<1>4. /\ ready' \in Seq(PacketSet) /\ partial' \in [Pids -> PesSet \cup {None}]
      /\ \A p \in Pids :
            WholeOf(us, p, out \o ready') = IF partial[p] = None THEN WholeOf(us, p, out)
                                            ELSE Extended(us, WholeOf(us, p, out), partial[p])
  BY <1>3, InputEndsWhole
<1>5. ASSUME NEW p \in Pids PROVE WholeOf(us, p, out \o ready') = IntactOf(us, TakenFor(c, p))
  <2>1. PICK in \in Seq(StreamOf(us, p)) : in = TakenFor(c, p)
    BY TakenTyped
  <2>2. PICK list, part : list = WholeOf(us, p, out) /\ part = partial[p]
    OBVIOUS
  <2>3. IntactOf(us, in) = IF part = None THEN list ELSE Extended(us, list, part)
    BY <1>2, <2>1, <2>2, ParsedEnds
  <2> QED BY <1>4, <2>1, <2>2, <2>3
<1> QED BY <1>4, <1>5

\* What a step does to the reassembly.
Settled == UNCHANGED <<Assembler, havePmt>> /\ (Ended' <=> Ended)

Rests ==
    /\ Settled
    /\ rbuf' = rbuf \/ (rbuf = <<>> /\ rbuf' = <<Garbage>>)
    /\ phase' = "done" => phase = "done" \/ ready = <<>>

LEMMA UnitSteps ==
    ASSUME [Next]_vars
    PROVE  \/ \E i \in DOMAIN wire : Arrival(i) /\ Settled /\ ~Ended
           \/ /\ got' = got
              /\ \/ Rests
                 \/ Consumes /\ ~Ended /\ ~Ended'
                 \/ HandsOn /\ havePmt' = havePmt /\ (Ended' <=> Ended) /\ phase' # "done"
                 \/ Flushes /\ rbuf = <<>> /\ ~Ended /\ phase' = "flushed"
<1>1. ASSUME UNCHANGED demuxVars PROVE Settled
  BY <1>1 DEF demuxVars, Settled, Assembler, Ended
<1>2. ASSUME WriteTs \/ WriteTsInterrupted \/ WriteTsFails \/ WriteTrailer \/ Drop PROVE got' = got /\ Rests
  <2>1. UNCHANGED demuxVars /\ rbuf' = rbuf /\ got' = got
    BY <1>2 DEF WriteTs, WriteTsInterrupted, WriteTsFails, HandOver, WriteTrailer, Drop
  <2> QED BY <1>1, <2>1 DEF Rests, demuxVars
<1>3. ASSUME NextTs PROVE got' = got /\ Consumes /\ ~Ended /\ ~Ended'
  <2>1. Consume(Pes, Head(rbuf)) /\ UNCHANGED out
    BY <1>3 DEF NextTs, ReadTables, ReadDims, ReadOn
  <2>2. ~Ended /\ ~Ended'
    BY <1>3 DEF NextTs, ReadTables, ReadDims, ReadOn, Ended
  <2> QED BY <1>3, <2>1, <2>2 DEF NextTs, Consumes
<1>4. Asks(Pes) => phase \in {"tables", "dims", "packets"}
  BY DEF Asks
<1>5. ASSUME NextTsLost PROVE got' = got /\ Rests
  <2>1. got' = got /\ rbuf' = rbuf /\ LoseSync(Pes)
    BY <1>5 DEF NextTsLost, linkVars
  <2> QED BY <1>4, <2>1 DEF LoseSync, Rests, Settled, Assembler, Ended
<1>6. ASSUME Refill
      PROVE  (\E i \in DOMAIN wire : Arrival(i) /\ Settled /\ ~Ended) \/ (got' = got /\ Rests)
  <2>1. UNCHANGED demuxVars /\ ~Ended
    BY <1>4, <1>6 DEF Refill, Ended
  <2>2. ASSUME TimeOut PROVE got' = got /\ Rests
    BY <1>1, <2>1, <2>2 DEF TimeOut, Rests, demuxVars
  <2>3. ASSUME NEW i \in DOMAIN wire, Recv(i) PROVE Arrival(i) /\ Settled
    BY <1>1, <2>1, <2>3 DEF Arrival, Settled
  <2> QED BY <1>6, <2>1, <2>2, <2>3 DEF Refill
<1>7. ASSUME Interrupted PROVE got' = got /\ Rests
  <2>1. UNCHANGED demuxVars /\ got' = got /\ rbuf = <<>> /\ rbuf' = <<Garbage>>
    BY <1>7 DEF Interrupted, RecvFails, Refills
  <2> QED BY <1>1, <2>1 DEF Rests, demuxVars
<1>8. ASSUME NEW eof, TablesEnd(eof) \/ HeaderDone(Pes, eof)
      PROVE  Settled /\ phase' # "done"
  BY <1>8 DEF TablesEnd, HeaderDone, Settled, Assembler, Ended
<1>9. ASSUME InputEnds PROVE UNCHANGED <<out, built>> /\ ~Ended /\ phase' = "flushed"
  BY <1>9 DEF InputEnds, Ended
<1>10. ASSUME RecvError
       PROVE  got' = got /\ (Rests \/ (Flushes /\ rbuf = <<>> /\ ~Ended /\ phase' = "flushed"))
  <2>1. got' = got /\ rbuf = <<>> /\ rbuf' = <<Garbage>>
    BY <1>10 DEF RecvError, RecvFails, Refills
  <2> QED BY <1>8, <1>9, <1>10, <2>1 DEF RecvError, Rests, Flushes, BufferRests
<1>11. ASSUME DemuxerStep
       PROVE  /\ got' = got
              /\ \/ Rests
                 \/ HandsOn /\ havePmt' = havePmt /\ (Ended' <=> Ended) /\ phase' # "done"
                 \/ Flushes /\ rbuf = <<>> /\ ~Ended /\ phase' = "flushed"
  <2>1. got' = got /\ rbuf' = rbuf
    BY <1>11 DEF DemuxerStep, linkVars
  <2>2. ASSUME HandOn
        PROVE  HandsOn /\ havePmt' = havePmt /\ (Ended' <=> Ended) /\ phase' # "done"
    BY <2>1, <2>2 DEF HandOn, HandsOn, Ended
  <2>3. ASSUME HandOnLast
        PROVE  Rests \/ (HandsOn /\ havePmt' = havePmt /\ (Ended' <=> Ended) /\ phase' # "done")
    BY <2>1, <2>3 DEF HandOnLast, HandsOn, Rests, Settled, Assembler, Ended
  <2>4. ASSUME AtEnd, InputEnds PROVE Flushes /\ rbuf = <<>> /\ ~Ended /\ phase' = "flushed"
    BY <1>9, <2>1, <2>4 DEF AtEnd, Flushes, BufferRests
  <2> QED BY <1>8, <1>11, <2>1, <2>2, <2>3, <2>4 DEF DemuxerStep, Rests
<1>12. ASSUME UNCHANGED tsVars PROVE got' = got /\ Rests
  <2>1. UNCHANGED demuxVars /\ rbuf' = rbuf /\ got' = got
    BY <1>12 DEF tsVars, linkVars
  <2> QED BY <1>1, <2>1 DEF Rests, demuxVars
<1>13. TsNext \/ UNCHANGED tsVars
  BY DEF Next, Udp, Publishing, Browsing, vars
<1> QED BY <1>2, <1>3, <1>5, <1>6, <1>7, <1>10, <1>11, <1>12, <1>13 DEF TsNext, Receiver

\* What was taken determines what has come out: the reassembly does nothing else.
IntactTypeOK ==
    /\ havePmt \in BOOLEAN /\ built \in BOOLEAN
    /\ partial \in [Pids -> PesSet \cup {None}]
    /\ ready \in Seq(PacketSet) /\ out \in Seq(PacketSet)

Taken(c) == Took(c, rbuf, Received) /\ Fed(units, Pes, c, havePmt, built, partial, out \o ready)

Returned == \A p \in Pids : WholeOf(units, p, out \o ready) = IntactOf(units, TakenFor(Received, p))

IntactInv ==
    /\ IntactTypeOK
    /\ rbuf = <<Garbage>> \/ rbuf \in Seq(PiecesOf(units))
    /\ phase = "done" => ready = <<>>
    /\ ~Ended => \E c \in Seq(PiecesOf(units)) : Taken(c)
    /\ Ended => Returned

LEMMA NothingFed ==
    ASSUME NEW us, NEW pes
    PROVE  Fed(us, pes, <<>>, FALSE, FALSE, [p \in Pids |-> None], <<>>)
<1>1. ASSUME NEW S \in SUBSET (1..0) PROVE AtPlaces(<<>>, S) = <<>>
  <2>1. {} \in SUBSET (1..0) /\ S = {} /\ <<>> \in Seq({}) /\ Len(<<>>) = 0
    OBVIOUS
  <2>2. Ascending({}) = <<>>
    BY <2>1, AscendingLists
  <2>3. AtPlaces(<<>>, {}) \in Seq({}) /\ Len(AtPlaces(<<>>, {})) = Len(<<>>)
    BY <2>1, <2>2, PickedPlaces
  <2> QED BY <2>1, <2>3
<1>2. DOMAIN <<>> = {} /\ {} \in SUBSET (1..0)
  OBVIOUS
<1>3. UnitsOf(<<>>) = <<>> /\ FirstUnits(<<>>) = <<>>
  BY DEF UnitsOf, FirstUnits
<1>4. \A p : TakenFor(<<>>, p) = <<>>
  <2>1. \A p : TakenPlaces(<<>>, p) = {}
    BY <1>2 DEF TakenPlaces
  <2> QED BY <1>1, <1>2, <2>1 DEF TakenFor
<1>5. \A p : WholeOf(us, p, <<>>) = <<>>
  <2>1. \A p : WholePlaces(us, p, <<>>) = {}
    BY <1>2 DEF WholePlaces
  <2> QED BY <1>1, <1>2, <1>3, <2>1 DEF WholeOf
<1>6. IntactOf(us, <<>>) = <<>>
  <2>1. IntactPlaces(us, <<>>) = {}
    BY <1>2 DEF IntactPlaces
  <2> QED BY <1>1, <1>2, <1>3, <2>1 DEF IntactOf
<1>7. \A p \in Pids : Closed(us, p, <<>>, <<>>)
  BY <1>2, <1>6 DEF Closed
<1>8. ~HasPat(<<>>, Len(<<>>) + 1) /\ ~HasPmt(<<>>, Len(<<>>) + 1)
  <2>1. Len(<<>>) + 1 = 1 /\ ~\E i \in 1..(1 - 1) : TRUE
    OBVIOUS
  <2> QED BY <2>1 DEF HasPat, HasPmt
<1>9. ASSUME NEW p \in Pids
      PROVE  Parsed(us, pes, p, TakenFor(<<>>, p), WholeOf(us, p, <<>>), [q \in Pids |-> None][p])
  <2>1. [q \in Pids |-> None][p] = None
    OBVIOUS
  <2>2. Parsed(us, pes, p, <<>>, <<>>, None)
    BY <1>7 DEF Parsed
  <2> QED BY <1>4, <1>5, <2>1, <2>2
<1> QED BY <1>8, <1>9 DEF Fed

LEMMA IntactInit == Init => IntactInv
<1> SUFFICES ASSUME Init PROVE IntactInv
  OBVIOUS
<1>1. /\ rbuf = <<>> /\ got = <<>> /\ phase = "tables" /\ havePmt = FALSE /\ built = FALSE
      /\ partial = [p \in Pids |-> None] /\ ready = <<>> /\ out = <<>>
  BY DEF Init, TsInit, LinkInit, DemuxInit
<1>2. IntactTypeOK
  <2>1. [p \in Pids |-> None] \in [Pids -> PesSet \cup {None}]
    OBVIOUS
  <2>2. <<>> \in Seq(PacketSet)
    OBVIOUS
  <2> QED BY <1>1, <2>1, <2>2 DEF IntactTypeOK
<1>3. Received = <<>>
  <2>1. [k \in DOMAIN got |-> wire[got[k]].data] = <<>>
    BY <1>1
  <2> QED BY <2>1, FlattenEmpty DEF Received
<1>4. Taken(<<>>)
  <2>1. out \o ready = <<>> /\ <<>> \o rbuf = <<>>
    BY <1>1
  <2> QED BY <1>1, <1>3, <2>1, NothingFed DEF Taken, Took
<1>5. ~Ended
  BY <1>1 DEF Ended
<1>6. <<>> \in Seq(PiecesOf(units))
  OBVIOUS
<1> QED BY <1>1, <1>2, <1>4, <1>5, <1>6 DEF IntactInv

\* What was received, of the payloads of the datagrams.
LEMMA ReceivedPayloads ==
    ASSUME NEW w, NEW g \in Seq(DOMAIN w)
    PROVE  FlattenSeq([k \in DOMAIN g |-> w[g[k]].data]) = ReceivedOf([i \in DOMAIN w |-> w[i].data], g)
<1>1. \A k \in DOMAIN g : g[k] \in DOMAIN w
  BY ElementOfSeq
<1>2. [k \in DOMAIN g |-> w[g[k]].data] = [k \in DOMAIN g |-> [i \in DOMAIN w |-> w[i].data][g[k]]]
  BY <1>1
<1> QED BY <1>2 DEF ReceivedOf

LEMMA ReceivedTyped ==
    ASSUME SpliceInv
    PROVE  Received \in Seq(PiecesOf(units)) /\ Received = ReceivedOf(Payloads, got)
<1>1. PICK us, ds, g : /\ us = units /\ ds = Payloads /\ g = got /\ g \in Seq(DOMAIN ds)
                       /\ \A i \in DOMAIN ds : ds[i] \in Seq(PiecesOf(us))
  BY DEF SpliceInv, WireInv, WireOrder
<1>2. Received = ReceivedOf(ds, g)
  <2>1. DOMAIN Payloads = DOMAIN wire
    BY DEF Payloads
  <2> QED BY <1>1, <2>1, ReceivedPayloads DEF Received, Payloads
<1>3. ReceivedOf(ds, g) \in Seq(PiecesOf(us))
  <2>1. CASE DOMAIN ds = {}
    <3>1. [k \in DOMAIN g |-> ds[g[k]]] = <<>>
      <4>1. g = <<>>
        BY <1>1, <2>1
      <4> QED BY <4>1
    <3>2. ReceivedOf(ds, g) = FlattenSeq(<<>>)
      BY <3>1 DEF ReceivedOf
    <3>3. <<>> \in Seq(PiecesOf(us))
      OBVIOUS
    <3> QED BY <3>2, <3>3, FlattenEmpty, Zenon
  <2>2. CASE DOMAIN ds # {}
    BY <1>1, <2>2, ReceivedAdds
  <2> QED BY <2>1, <2>2
<1> QED BY <1>1, <1>2, <1>3

LEMMA IntactNext == SendInv /\ SpliceInv /\ IntactInv /\ [Next]_vars => IntactInv'
<1> SUFFICES ASSUME SendInv, SpliceInv, IntactInv, [Next]_vars PROVE IntactInv'
  OBVIOUS
<1>1. /\ UNCHANGED units
      /\ DOMAIN Payloads \subseteq DOMAIN Payloads'
      /\ \A i \in DOMAIN Payloads : Payloads'[i] = Payloads[i]
  BY OnlyWriterSends, WireNext
<1>2. PICK us, pes :
         /\ us = units /\ pes = Pes /\ Given(us) /\ Announces(us, pes)
         /\ pes \in [DOMAIN us -> PesHeaders]
  BY HeadersTyped, ProgramAnnounced DEF SendInv, SendTypeOK
<1>3. units' = us /\ Pes' = pes
  <2>1. Pes' = Pes
    BY <1>1 DEF Pes, PtsField, DtsField, LengthField
  <2> QED BY <1>1, <1>2, <2>1
<1>4. None \notin PesSet
  BY NoneIsNoUnit
<1>5. PICK ds, g : /\ ds = Payloads /\ g = got /\ g \in Seq(DOMAIN ds)
                   /\ \A i \in DOMAIN ds : ds[i] \in Seq(PiecesOf(us))
  BY <1>2 DEF SpliceInv, WireInv, WireOrder
<1>6. PICK r \in Seq(PiecesOf(us)) : r = Received /\ r = ReceivedOf(ds, g)
  BY <1>2, <1>5, ReceivedTyped
<1>7. ASSUME NEW h \in Seq(DOMAIN ds), got' = h PROVE Received' = ReceivedOf(ds, h)
  <2>1. DOMAIN Payloads' = DOMAIN wire'
    BY DEF Payloads
  <2>2. h \in Seq(DOMAIN wire')
    <3>1. DOMAIN ds \subseteq DOMAIN wire'
      BY <1>1, <1>5, <2>1
    <3>2. \A k \in 1..Len(h) : h[k] \in DOMAIN wire'
      BY <3>1, ElementOfSeq
    <3> QED BY <3>2, SeqOverElements
  <2>3. PICK w, es : w = wire' /\ es = Payloads' /\ es = [i \in DOMAIN w |-> w[i].data]
    BY DEF Payloads
  <2>4. Received' = FlattenSeq([k \in DOMAIN h |-> w[h[k]].data])
    BY <1>7, <2>3 DEF Received
  <2>5. FlattenSeq([k \in DOMAIN h |-> w[h[k]].data]) = ReceivedOf(es, h)
    BY <2>2, <2>3, ReceivedPayloads
  <2>6. ReceivedOf(es, h) = ReceivedOf(ds, h)
    BY <1>1, <1>5, <2>3, ReceivedStays
  <2> QED BY <2>4, <2>5, <2>6
<1>8. /\ havePmt \in BOOLEAN /\ built \in BOOLEAN /\ partial \in [Pids -> PesSet \cup {None}]
      /\ ready \in Seq(PacketSet) /\ out \in Seq(PacketSet)
      /\ rbuf = <<Garbage>> \/ rbuf \in Seq(PiecesOf(us))
      /\ phase = "done" => ready = <<>>
  BY <1>2 DEF IntactInv, IntactTypeOK
<1>9. ~Ended => \E c \in Seq(PiecesOf(us)) :
                   Took(c, rbuf, r) /\ Fed(us, pes, c, havePmt, built, partial, out \o ready)
  BY <1>2, <1>6 DEF IntactInv, Taken
<1>10. Ended => \A p \in Pids : WholeOf(us, p, out \o ready) = IntactOf(us, TakenFor(r, p))
  BY <1>2, <1>6 DEF IntactInv, Returned
<1>11. SUFFICES
         /\ havePmt' \in BOOLEAN /\ built' \in BOOLEAN /\ partial' \in [Pids -> PesSet \cup {None}]
         /\ ready' \in Seq(PacketSet) /\ out' \in Seq(PacketSet)
         /\ rbuf' = <<Garbage>> \/ rbuf' \in Seq(PiecesOf(us))
         /\ phase' = "done" => ready' = <<>>
         /\ ~Ended' => \E c \in Seq(PiecesOf(us)) :
               Took(c, rbuf', Received') /\ Fed(us, pes, c, havePmt', built', partial', out' \o ready')
         /\ Ended' => \A p \in Pids : WholeOf(us, p, out' \o ready') = IntactOf(us, TakenFor(Received', p))
  BY <1>3, <1>11 DEF IntactInv, IntactTypeOK, Taken, Returned
<1>12. ASSUME NEW c, Took(c, <<>>, r), c \in Seq(PiecesOf(us)) PROVE r = c
  <2>1. c \o <<>> = c /\ <<>> # <<Garbage>>
    BY <1>12
  <2> QED BY <1>12, <2>1 DEF Took
<1>13. ASSUME NEW i \in DOMAIN wire, Arrival(i), Settled, ~Ended
       PROVE  /\ rbuf' \in Seq(PiecesOf(us))
              /\ \E c \in Seq(PiecesOf(us)) :
                   Took(c, rbuf', Received') /\ Fed(us, pes, c, havePmt', built', partial', out' \o ready')
  <2>1. rbuf = <<>> /\ rbuf' = wire[i].data /\ got' = Append(g, i)
    BY <1>5, <1>13 DEF Arrival, Recv, Refills
  <2>2. PICK d \in Seq(PiecesOf(us)) : d = ds[i] /\ rbuf' = d /\ i \in DOMAIN ds
    BY <1>5, <2>1 DEF Payloads
  <2>3. Received' = r \o d
    <3>1. Append(g, i) \in Seq(DOMAIN ds)
      BY <1>5, <2>2
    <3>2. Received' = ReceivedOf(ds, Append(g, i))
      BY <1>7, <2>1, <3>1
    <3> QED BY <1>5, <1>6, <2>2, <3>2, ReceivedAdds
  <2>4. PICK c \in Seq(PiecesOf(us)) :
           Took(c, rbuf, r) /\ Fed(us, pes, c, havePmt, built, partial, out \o ready)
    BY <1>9, <1>13
  <2>5. Took(c, rbuf', Received')
    BY <1>12, <2>1, <2>2, <2>3, <2>4 DEF Took
  <2>6. Fed(us, pes, c, havePmt', built', partial', out' \o ready')
    BY <1>13, <2>4 DEF Settled, Assembler
  <2> QED BY <2>2, <2>4, <2>5, <2>6
<1>14. CASE \E i \in DOMAIN wire : Arrival(i) /\ Settled /\ ~Ended
  <2>1. Settled /\ ~Ended
    BY <1>14
  <2>2. phase' # "done" /\ ~Ended'
    BY <2>1 DEF Settled, Ended
  <2> QED BY <1>8, <1>13, <1>14, <2>1, <2>2 DEF Settled, Assembler
<1>15. ASSUME got' = got PROVE Received' = r
  BY <1>5, <1>6, <1>7, <1>15
<1>16. CASE got' = got /\ Rests
  <2>1. /\ UNCHANGED <<partial, built, ready, out, havePmt>> /\ (Ended' <=> Ended)
        /\ rbuf' = rbuf \/ (rbuf = <<>> /\ rbuf' = <<Garbage>>)
        /\ phase' = "done" => phase = "done" \/ ready = <<>>
    BY <1>16 DEF Rests, Settled, Assembler
  <2>2. ASSUME NEW c \in Seq(PiecesOf(us)), Took(c, rbuf, r) PROVE Took(c, rbuf', r)
    <3>1. CASE rbuf' = rbuf
      BY <2>2, <3>1
    <3>2. CASE rbuf = <<>> /\ rbuf' = <<Garbage>>
      BY <1>12, <2>2, <3>2 DEF Took
    <3> QED BY <2>1, <3>1, <3>2
  <2> QED BY <1>8, <1>9, <1>10, <1>15, <1>16, <2>1, <2>2
<1>17. CASE got' = got /\ Consumes /\ ~Ended /\ ~Ended'
  <2>1. /\ rbuf # <<>> /\ rbuf # <<Garbage>> /\ rbuf' = Tail(rbuf) /\ out' = out
        /\ Consume(pes, Head(rbuf))
    BY <1>2, <1>17 DEF Consumes
  <2>2. PICK c \in Seq(PiecesOf(us)) :
           Took(c, rbuf, r) /\ Fed(us, pes, c, havePmt, built, partial, out \o ready)
    BY <1>9, <1>17
  <2>3. PICK b \in Seq(PiecesOf(us)) : b = rbuf /\ b # <<>>
    BY <1>8, <2>1
  <2>4. PICK x \in PiecesOf(us), t \in Seq(PiecesOf(us)) : x = Head(b) /\ t = Tail(b)
    BY <2>3, HeadTailProperties
  <2>5. r = c \o b
    BY <2>1, <2>2, <2>3 DEF Took
  <2>6. Append(c, x) \o t = c \o b
    BY <2>3, <2>4, HeadMoves
  <2>7. Append(c, x) \in Seq(PiecesOf(us))
    OBVIOUS
  <2>8. /\ havePmt' \in BOOLEAN /\ built' \in BOOLEAN
        /\ partial' \in [Pids -> PesSet \cup {None}] /\ ready' \in Seq(PacketSet)
        /\ Fed(us, pes, Append(c, x), havePmt', built', partial', out \o ready')
    BY <1>2, <1>4, <1>8, <2>1, <2>2, <2>3, <2>4, ConsumeFeeds
  <2>9. Took(Append(c, x), rbuf', Received')
    BY <1>15, <1>17, <2>1, <2>3, <2>4, <2>5, <2>6 DEF Took
  <2>10. phase' # "done"
    BY <1>17 DEF Ended
  <2> QED BY <1>8, <1>17, <2>1, <2>3, <2>4, <2>7, <2>8, <2>9, <2>10
<1>18. CASE got' = got /\ HandsOn /\ havePmt' = havePmt /\ (Ended' <=> Ended) /\ phase' # "done"
  <2>1. /\ ready # <<>> /\ out' = Append(out, Head(ready)) /\ ready' = Tail(ready)
        /\ rbuf' = rbuf /\ partial' = partial /\ built' = built
    BY <1>18 DEF HandsOn
  <2>2. out' \o ready' = out \o ready
    BY <1>8, <2>1, HeadMoves
  <2>3. ready' \in Seq(PacketSet) /\ out' \in Seq(PacketSet)
    <3>1. Head(ready) \in PacketSet /\ Tail(ready) \in Seq(PacketSet)
      BY <1>8, <2>1, HeadTailProperties
    <3> QED BY <1>8, <2>1, <3>1
  <2> QED BY <1>8, <1>9, <1>10, <1>15, <1>18, <2>1, <2>2, <2>3
<1>19. CASE got' = got /\ Flushes /\ rbuf = <<>> /\ ~Ended /\ phase' = "flushed"
  <2>1. InputEnds /\ out' = out /\ built' = built /\ (rbuf' = rbuf \/ rbuf' = <<Garbage>>)
    BY <1>19 DEF Flushes, BufferRests
  <2>2. havePmt' = havePmt
    BY <2>1 DEF InputEnds
  <2>3. PICK c \in Seq(PiecesOf(us)) :
           r = c /\ Fed(us, pes, c, havePmt, built, partial, out \o ready)
    BY <1>9, <1>12, <1>19
  <2>4. /\ ready' \in Seq(PacketSet) /\ partial' \in [Pids -> PesSet \cup {None}]
        /\ \A p \in Pids : WholeOf(us, p, out \o ready') = IntactOf(us, TakenFor(c, p))
    BY <1>2, <1>4, <1>8, <2>1, <2>3, InputEndsFed
  <2>5. Ended' /\ phase' # "done"
    BY <1>19 DEF Ended
  <2> QED BY <1>8, <1>15, <1>19, <2>1, <2>2, <2>3, <2>4, <2>5
<1> QED BY <1>14, <1>16, <1>17, <1>18, <1>19, UnitSteps

LEMMA IntactInvariant == Spec => []IntactInv
BY IntactInit, IntactNext, SendInvariant, SpliceInvariant, PTL DEF Spec

\* The property, in the terms of the invariant.
LEMMA IntactAgrees ==
    ASSUME units \in Programs, NEW p \in Pids, NEW in \in Seq(StreamOf(units, p))
    PROVE  IntactUnits(in) = IntactOf(units, in)
<1>0. Given(units)
  BY ProgramAnnounced
<1>1. ASSUME NEW k \in DOMAIN in PROVE IntactAt(in, k) <=> IntactIn(units, in, k)
  <2>1. PICK u \in DOMAIN units, L \in Nat :
           /\ u = in[k].unit /\ L = Len(in) /\ units[u].size \in Nat \ {0}
           /\ k \in Nat /\ k >= 1 /\ k <= L /\ in[k].pid = p
    BY <1>0, StreamTyped
  <2>2. PICK n \in Nat : n = units[u].size /\ n # 0
    BY <2>1
  <2>3. PICK t \in Seq(TsPacketSet) : t = TsPackets(u) /\ Len(t) = n /\ \A j \in 1..n : t[j] = Ts(units[u].pid, u, j)
    <3>1. TsPackets(u) \in Seq(TsPacketSet)
      BY ProgramTyped
    <3>2. TsPackets(u) = [j \in 1..n |-> Ts(units[u].pid, u, j)]
      BY <2>2 DEF TsPackets
    <3>3. PICK s \in Seq(TsPacketSet) : s = TsPackets(u)
      BY <3>1
    <3>4. DOMAIN s = 1..n /\ \A j \in 1..n : s[j] = Ts(units[u].pid, u, j)
      BY <3>2, <3>3
    <3>5. Len(s) = n
      BY <2>2, <3>3, <3>4
    <3> QED BY <3>3, <3>4, <3>5
  <2>4. ASSUME k + n - 1 <= L
        PROVE  SubSeq(in, k, k + n - 1) = t <=> \A j \in 1..n : in[k + j - 1] = Ts(units[u].pid, u, j)
    <3>1. /\ SubSeq(in, k, k + n - 1) \in Seq(TsPacketSet)
          /\ Len(SubSeq(in, k, k + n - 1)) = n
          /\ \A j \in 1..n : SubSeq(in, k, k + n - 1)[j] = in[k + j - 1]
      <4>1. in \in Seq(TsPacketSet)
        <5>1. \A i \in 1..Len(in) : in[i] \in TsPacketSet
          <6>1. \A i \in DOMAIN in : in[i] \in TsPacketSet
            BY <1>0, StreamTyped
          <6> QED BY <6>1
        <5> QED BY <5>1, SeqOverElements
      <4>2. PICK e \in Int, b \in Int : b = k /\ e = k + n - 1 /\ b <= e /\ e - b + 1 = n
        <5>1. PICK a \in Nat, m \in Nat : a = k /\ m = n /\ m # 0
          BY <2>1, <2>2
        <5>2. a + m - 1 \in Int /\ a <= a + m - 1 /\ (a + m - 1) - a + 1 = m
          BY <5>1
        <5> QED BY <5>1, <5>2
      <4>3. \A i \in k..e : in[i] \in TsPacketSet
        <5>1. PICK a \in Nat, l \in Nat : a = k /\ l = L /\ a >= 1
          BY <2>1
        <5>2. e <= l
          BY <2>4, <4>2, <5>1
        <5>3. k..e \subseteq 1..L
          BY <5>1, <5>2
        <5> QED BY <2>1, <4>1, <5>3
      <4>4. /\ SubSeq(in, b, e) \in Seq(TsPacketSet)
            /\ Len(SubSeq(in, b, e)) = (IF b <= e THEN e - b + 1 ELSE 0)
            /\ \A j \in 1..(e - b + 1) : SubSeq(in, b, e)[j] = in[b + j - 1]
        <5>1. \A i \in b..e : in[i] \in TsPacketSet
          BY <4>2, <4>3
        <5> QED BY <5>1, SubSeqProperties
      <4> QED BY <4>2, <4>4
    <3>2. PICK s \in Seq(TsPacketSet) : /\ s = SubSeq(in, k, k + n - 1) /\ Len(s) = n
                                        /\ \A j \in 1..n : s[j] = in[k + j - 1]
      BY <3>1
    <3>3. (\A j \in 1..n : s[j] = t[j]) => s = t
      BY <2>3, <3>2, SeqEqual
    <3> QED BY <2>3, <3>2, <3>3
  <2>5. IntactAt(in, k) <=> /\ k + n - 1 <= L /\ SubSeq(in, k, k + n - 1) = t
                            /\ in[k].pid \in Video => k + n - 1 = L \/ in[k + n - 1 + 1].piece = 1
    BY <2>1, <2>2, <2>3 DEF IntactAt
  <2>6. IntactIn(units, in, k) <=>
           /\ k + n - 1 <= L /\ \A j \in 1..n : in[k + j - 1] = Ts(units[u].pid, u, j)
           /\ in[k].pid \in Video => k + n - 1 = L \/ in[k + n].piece = 1
    BY <2>1, <2>2 DEF IntactIn
  <2>7. k + n - 1 + 1 = k + n
    BY <2>1, <2>2
  <2> QED BY <2>4, <2>5, <2>6, <2>7
<1>2. {k \in DOMAIN in : IntactAt(in, k)} = IntactPlaces(units, in)
  BY <1>1 DEF IntactPlaces
<1> QED BY <1>2 DEF IntactUnits, IntactOf, UnitsOf

LEMMA WholeAgrees == \A p \in Pids : WholeOut(p) = WholeOf(units, p, out)
<1>1. \A pkt : Whole(pkt) <=> IsWhole(units, pkt)
  BY DEF Whole, IsWhole, TsPackets, PiecesFor
<1>2. \A p : {k \in DOMAIN out : out[k].pid = p /\ Whole(out[k])} = WholePlaces(units, p, out)
  BY <1>1 DEF WholePlaces
<1> QED BY <1>2 DEF WholeOut, WholeOf, FirstUnits

LEMMA ArrivedAgrees == \A p \in Pids : ArrivedFor(p) = TakenFor(Received, p)
BY DEF ArrivedFor, TakenFor, TakenPlaces, HasPmt, HasPat

\* For every number and size of units and streams, every Pack, HeaderLimit and
\* DimsLimit, and everything the network does to datagrams: when read_packet has
\* come to the end, the units that came through undamaged after the tables are
\* exactly those that were returned whole, in the order they arrived.
THEOREM IntactUnitsArrive == Spec => []IntactUnitsComeOut
<1>1. ASSUME SendInv, SpliceInv, IntactInv PROVE IntactUnitsComeOut
  <2> SUFFICES ASSUME phase = "done", NEW p \in Pids PROVE WholeOut(p) = IntactUnits(ArrivedFor(p))
    BY DEF IntactUnitsComeOut
  <2>1. WholeOf(units, p, out \o ready) = IntactOf(units, TakenFor(Received, p))
    BY <1>1 DEF IntactInv, Ended, Returned
  <2>2. out \o ready = out
    <3>1. ready = <<>> /\ out \in Seq(PacketSet)
      BY <1>1 DEF IntactInv, IntactTypeOK
    <3> QED BY <3>1
  <2>3. PICK in : in = TakenFor(Received, p)
    OBVIOUS
  <2>4. in \in Seq(StreamOf(units, p))
    BY <1>1, <2>3, ReceivedTyped, TakenTyped
  <2>5. IntactUnits(in) = IntactOf(units, in)
    BY <1>1, <2>4, IntactAgrees DEF SendInv, SendTypeOK
  <2> QED BY <2>1, <2>2, <2>3, <2>5, WholeAgrees, ArrivedAgrees
<1> QED BY <1>1, IntactInvariant, SendInvariant, SpliceInvariant, PTL

=============================================================================
