-------------------------- MODULE VideoDecoderProofs ---------------------------
(***************************************************************************)
(* For every number of reference slots, pool size and stream: the VP9      *)
(* decoder never decodes into a picture that is still a reference, and is  *)
(* an order-preserving pipe as long as no superframe has two coded frames  *)
(* that are not output; the reorder buffer of the H.264 decoder puts its   *)
(* pictures out once and in display order.                                 *)
(***************************************************************************)
EXTENDS VideoDecoder, SequenceFacts

-----------------------------------------------------------------------------
(* VP9: the pool *)

\* A buffer that neither a slot nor the empty pool holds.
LEMMA FreshBuffer ==
    ASSUME Vp9!TypeOK, pool = <<>>
    PROVE  \E b \in Vp9!Buffers : b \notin {slots[i] : i \in Vp9!Slots} \cup ToSet(pool)
<1>1. ToSet(pool) = {}
  BY DEF ToSet
<1>2. SUFFICES ASSUME \A b \in Vp9!Buffers : \E i \in Vp9!Slots : slots[i] = b
               PROVE  FALSE
  BY <1>1
<1> DEFINE g == [b \in Vp9!Buffers |-> CHOOSE i \in Vp9!Slots : slots[i] = b]
<1>3. g \in [Vp9!Buffers -> Vp9!Slots] /\ \A b \in Vp9!Buffers : slots[g[b]] = b
  BY <1>2
<1> HIDE DEF g
<1>4. NSlots \in Nat /\ NSlots + PoolCap + 1 \in Nat /\ NSlots < NSlots + PoolCap + 1
  BY Vp9Assumption
<1>5. /\ IsFiniteSet(Vp9!Slots) /\ Cardinality(Vp9!Slots) = NSlots
      /\ IsFiniteSet(Vp9!Buffers) /\ Cardinality(Vp9!Buffers) = NSlots + PoolCap + 1
  <2>1. IsFiniteSet(1..NSlots) /\ Cardinality(1..NSlots) = NSlots
    BY <1>4, FS_Interval
  <2>2. PICK m \in Nat : m = NSlots + PoolCap + 1
    BY <1>4
  <2>3. IsFiniteSet(1..m) /\ Cardinality(1..m) = m
    BY FS_Interval
  <2> QED
    BY <2>1, <2>2, <2>3 DEF Vp9!Slots, Vp9!Buffers
<1>6. PICK x \in Vp9!Buffers, y \in Vp9!Buffers : x # y /\ g[x] = g[y]
  BY <1>3, <1>4, <1>5, FS_PigeonHole
<1> QED
  BY <1>3, <1>6

\* The last slot that holds a buffer is a slot that holds it.
LEMMA LastHolderHolds ==
    ASSUME NEW b, \E i \in Vp9!Slots : slots[i] = b
    PROVE  Vp9!LastHolder(b) \in Vp9!Slots /\ slots[Vp9!LastHolder(b)] = b
<1> DEFINE S == {i \in Vp9!Slots : slots[i] = b}
<1>1. NSlots \in Nat
  BY Vp9Assumption
<1>2. S \subseteq 1..NSlots /\ S # {}
  BY DEF Vp9!Slots
<1> HIDE DEF S
<1>3. Max(S) \in S
  BY <1>1, <1>2, GreatestElement
<1> QED
  BY <1>3 DEF S, Vp9!LastHolder, Vp9!Max, Max

\* The slots order the buffers they hold.
LEMMA SlotsOrder ==
    ASSUME NEW S, \A b \in S : \E i \in Vp9!Slots : slots[i] = b
    PROVE  StrictOrder(S, Vp9!BySlot(S)) /\ IsFiniteSet(S)
<1>1. \A b \in S : Vp9!LastHolder(b) \in Nat /\ Vp9!LastHolder(b) \in Vp9!Slots
                     /\ slots[Vp9!LastHolder(b)] = b
  BY Vp9Assumption, LastHolderHolds DEF Vp9!Slots
<1>2. \A a, b \in S : <<a, b>> \in Vp9!BySlot(S) <=> Vp9!LastHolder(a) < Vp9!LastHolder(b)
  BY DEF Vp9!BySlot
<1>3. StrictOrder(S, Vp9!BySlot(S))
  BY <1>1, <1>2 DEF StrictOrder
<1>4. IsFiniteSet(S)
  <2> DEFINE f == [b \in S |-> Vp9!LastHolder(b)]
  <2>1. f \in Injection(S, Vp9!Slots)
    BY <1>1 DEF Injection, IsInjective
  <2> HIDE DEF f
  <2>2. IsFiniteSet(Vp9!Slots)
    BY Vp9Assumption, FS_Interval DEF Vp9!Slots
  <2> QED
    BY <2>1, <2>2, FS_Injection
<1> QED
  BY <1>3, <1>4

EachOnce(s) == \A j, k \in 1..Len(s) : s[j] = s[k] => j = k

\* What Decode pools besides the rest of the pool: buffers that no slot holds any
\* more, each once.
LEMMA ReclaimedAreRetired ==
    ASSUME Vp9!TypeOK, NEW refresh \in SUBSET Vp9!Slots, NEW room \in Nat,
           NEW r, r = Vp9!Reclaimed(refresh, room)
    PROVE  /\ r \in Seq(Vp9!Buffers) /\ Len(r) <= room
           /\ \A k \in 1..Len(r) : r[k] \in Vp9!Retired(refresh)
           /\ EachOnce(r)
<1> DEFINE S == Vp9!Retired(refresh)
           R == Vp9!BySlot(S)
           order == InOrder(S, R)
           n == IF Len(order) < room THEN Len(order) ELSE room
<1>1. \A b \in S : b \in Vp9!Buffers /\ \E i \in Vp9!Slots : slots[i] = b
  BY DEF Vp9!Retired, Vp9!TypeOK, Vp9!Empty, Vp9!Slots, Vp9!Buffers
<1>2. StrictOrder(S, R) /\ IsFiniteSet(S)
  <2> HIDE DEF S
  <2> QED
    BY <1>1, SlotsOrder
<1>3. r = SubSeq(order, 1, n)
  BY DEF Vp9!Reclaimed, Vp9!InOrder, InOrder, Vp9!Place, Place, Vp9!Cardinality, Cardinality
<1>4. /\ order \in Seq(S) /\ Len(order) = Cardinality(S)
      /\ \A i, j \in 1..Cardinality(S) : order[i] = order[j] => i = j
  <2> HIDE DEF S, R
  <2>1. /\ InOrder(S, R) \in Seq(S)
        /\ Len(InOrder(S, R)) = Cardinality(S)
        /\ \A i, j \in 1..Cardinality(S) :
              /\ i < j <=> <<InOrder(S, R)[i], InOrder(S, R)[j]>> \in R
              /\ InOrder(S, R)[i] = InOrder(S, R)[j] => i = j
    BY <1>2, InOrderSorts
  <2> QED
    BY <2>1
<1> HIDE DEF S, R, order
<1>5. n \in Nat /\ n <= Len(order) /\ n <= room /\ Len(order) \in Nat
  BY <1>4
<1> HIDE DEF n
<1>6. /\ SubSeq(order, 1, n) \in Seq(S) /\ Len(SubSeq(order, 1, n)) = n
      /\ \A i \in 1..n : SubSeq(order, 1, n)[i] = order[i]
  BY <1>4, <1>5
<1>7. \A i \in 1..n : order[i] \in S /\ order[i] \in Vp9!Buffers
  BY <1>1, <1>4, <1>5
<1>8. SubSeq(order, 1, n) \in Seq(Vp9!Buffers)
  BY <1>6, <1>7, SeqOverElements
<1>9. \A j, k \in 1..n : SubSeq(order, 1, n)[j] = SubSeq(order, 1, n)[k] => j = k
  BY <1>4, <1>5, <1>6
<1> QED
  BY <1>3, <1>5, <1>6, <1>7, <1>8, <1>9 DEF S, EachOnce

\* Decoding a frame keeps the types, and the pool dead.
LEMMA DecodeKeepsPoolDead ==
    ASSUME Vp9!TypeOK, Vp9!PoolIsDead, NEW refresh \in SUBSET Vp9!Slots, Vp9!Decode(refresh)
    PROVE  /\ slots' \in [Vp9!Slots -> Vp9!Buffers \cup {Vp9!Empty}]
           /\ pool' \in Seq(Vp9!Buffers) /\ Len(pool') <= PoolCap
           /\ Vp9!PoolIsDead'
<1> DEFINE rest == IF pool = <<>> THEN pool ELSE SubSeq(pool, 1, Len(pool) - 1)
           used == {slots[i] : i \in Vp9!Slots} \cup ToSet(pool)
           buf == IF pool = <<>> THEN CHOOSE b \in Vp9!Buffers : b \notin used
                  ELSE pool[Len(pool)]
           room == PoolCap - Len(rest)
<1>13. PICK r : r = Vp9!Reclaimed(refresh, room)
  OBVIOUS
<1>1. /\ slots' = [i \in Vp9!Slots |-> IF i \in refresh THEN buf ELSE slots[i]]
      /\ pool' = rest \o r
  BY <1>13 DEF Vp9!Decode, Vp9!Front, Vp9!Last, Vp9!ToSet, ToSet
<1>2. /\ pool \in Seq(Vp9!Buffers) /\ Len(pool) \in Nat /\ Len(pool) <= PoolCap
      /\ slots \in [Vp9!Slots -> Vp9!Buffers \cup {Vp9!Empty}]
      /\ PoolCap \in Nat
  BY Vp9Assumption DEF Vp9!TypeOK
<1>3. /\ rest \in Seq(Vp9!Buffers) /\ Len(rest) \in Nat /\ Len(rest) <= Len(pool)
      /\ pool # <<>> => Len(rest) = Len(pool) - 1
      /\ \A k \in 1..Len(rest) : rest[k] = pool[k]
  <2>1. CASE pool = <<>>
    BY <1>2, <2>1
  <2>2. CASE pool # <<>>
    <3> DEFINE n == Len(pool) - 1
    <3>1. n \in Nat /\ n <= Len(pool) /\ Len(pool) \in Nat /\ pool \in Seq(Vp9!Buffers)
      BY <1>2, <2>2
    <3>2. rest = SubSeq(pool, 1, n)
      BY <2>2
    <3> HIDE DEF n, rest
    <3>3. /\ SubSeq(pool, 1, n) \in Seq(Vp9!Buffers) /\ Len(SubSeq(pool, 1, n)) = n
          /\ \A k \in 1..n : SubSeq(pool, 1, n)[k] = pool[k]
      BY <3>1
    <3> QED
      BY <3>1, <3>2, <3>3 DEF n
  <2> QED
    BY <2>1, <2>2
<1>4. /\ buf \in Vp9!Buffers
      /\ \A k \in 1..Len(rest) : rest[k] # buf
      /\ \A i \in Vp9!Slots : slots[i] # buf
  <2>1. CASE pool = <<>>
    <3>1. \E b \in Vp9!Buffers : b \notin used
      BY <2>1, FreshBuffer
    <3>2. buf \in Vp9!Buffers /\ buf \notin used
      BY <2>1, <3>1
    <3> QED
      BY <2>1, <3>2
  <2>2. CASE pool # <<>>
    <3>1. Len(pool) \in 1..Len(pool)
      BY <1>2, <2>2
    <3> QED
      BY <1>2, <1>3, <2>2, <3>1 DEF Vp9!PoolIsDead
  <2> QED
    BY <2>1, <2>2
<1> HIDE DEF rest, used, buf
<1>5. room \in Nat /\ Len(rest) + room = PoolCap
  BY <1>2, <1>3
<1> HIDE DEF room
<1>14. /\ r \in Seq(Vp9!Buffers) /\ Len(r) <= room
       /\ \A k \in 1..Len(r) : r[k] \in Vp9!Retired(refresh)
       /\ \A j, k \in 1..Len(r) : r[j] = r[k] => j = k
  <2>1. room \in Nat
    BY <1>5
  <2>2. r \in Seq(Vp9!Buffers) /\ Len(r) <= room
    BY <2>1, <1>13, ReclaimedAreRetired
  <2>3. \A k \in 1..Len(r) : r[k] \in Vp9!Retired(refresh)
    BY <2>1, <1>13, ReclaimedAreRetired
  <2>4. EachOnce(r)
    BY <2>1, <1>13, ReclaimedAreRetired
  <2> QED
    BY <2>2, <2>3, <2>4 DEF EachOnce
<1>6. /\ r \in Seq(Vp9!Buffers) /\ Len(r) <= room /\ Len(r) \in Nat
      /\ \A k \in 1..Len(r) : r[k] \in Vp9!Retired(refresh)
      /\ \A j, k \in 1..Len(r) : r[j] = r[k] => j = k
  BY <1>14
<1>7. \A k \in 1..Len(r) : /\ \E i \in Vp9!Slots : slots[i] = r[k]
                           /\ \A i \in Vp9!Slots : slots[i] = r[k] => i \in refresh
  BY <1>6 DEF Vp9!Retired
<1>8. /\ rest \o r \in Seq(Vp9!Buffers) /\ Len(rest \o r) = Len(rest) + Len(r)
      /\ \A k \in 1..Len(rest) : (rest \o r)[k] = rest[k]
      /\ \A k \in (Len(rest) + 1)..(Len(rest) + Len(r)) : (rest \o r)[k] = r[k - Len(rest)]
  BY <1>3, <1>6, ConcatParts
<1>9. slots' \in [Vp9!Slots -> Vp9!Buffers \cup {Vp9!Empty}]
  BY <1>1, <1>2, <1>4
<1>10. pool' \in Seq(Vp9!Buffers) /\ Len(pool') <= PoolCap
  BY <1>1, <1>3, <1>5, <1>6, <1>8
<1>11. ASSUME NEW i \in Vp9!Slots, NEW k \in 1..Len(pool') PROVE slots'[i] # pool'[k]
  <2>1. CASE k \in 1..Len(rest)
    <3>1. pool'[k] = pool[k] /\ pool[k] = rest[k] /\ k \in 1..Len(pool)
      BY <1>1, <1>2, <1>3, <1>8, <2>1
    <3>2. slots[i] # pool[k] /\ buf # pool[k]
      BY <1>4, <2>1, <3>1 DEF Vp9!PoolIsDead
    <3> QED
      BY <1>1, <3>1, <3>2
  <2>2. CASE k \notin 1..Len(rest)
    <3>1. k - Len(rest) \in 1..Len(r) /\ pool'[k] = r[k - Len(rest)]
      BY <1>1, <1>3, <1>6, <1>8, <2>2
    <3>2. r[k - Len(rest)] # buf /\ (slots[i] = r[k - Len(rest)] => i \in refresh)
      BY <1>4, <1>7, <3>1
    <3> QED
      BY <1>1, <3>1, <3>2
  <2> QED
    BY <2>1, <2>2
<1>12. ASSUME NEW j \in 1..Len(pool'), NEW k \in 1..Len(pool'), pool'[j] = pool'[k]
       PROVE  j = k
  <2>1. \A m \in 1..Len(pool') : m \notin 1..Len(rest) =>
            m - Len(rest) \in 1..Len(r) /\ pool'[m] = r[m - Len(rest)]
    BY <1>1, <1>3, <1>6, <1>8
  <2>2. \A m \in 1..Len(rest) : pool'[m] = pool[m] /\ m \in 1..Len(pool)
    BY <1>1, <1>2, <1>3, <1>8
  <2>3. \A l \in 1..Len(rest), m \in 1..Len(r) : pool[l] # r[m]
    BY <1>7, <2>2 DEF Vp9!PoolIsDead
  <2>4. CASE j \in 1..Len(rest) /\ k \in 1..Len(rest)
    BY <1>12, <2>2, <2>4 DEF Vp9!PoolIsDead
  <2>5. CASE j \notin 1..Len(rest) /\ k \notin 1..Len(rest)
    <3>1. j - Len(rest) = k - Len(rest)
      BY <1>6, <1>12, <2>1, <2>5
    <3> QED
      BY <1>3, <1>10, <3>1
  <2>6. CASE j \in 1..Len(rest) <=> k \notin 1..Len(rest)
    BY <1>12, <2>1, <2>2, <2>3, <2>6
  <2> QED
    BY <2>4, <2>5, <2>6
<1> QED
  BY <1>9, <1>10, <1>11, <1>12 DEF Vp9!PoolIsDead

\* A packet is a sequence of coded frames; the frame it outputs is one that can be.
LEMMA PacketFacts ==
    ASSUME NEW n \in 1..MaxFrames, NEW frames \in Vp9!PacketsOf(n)
    PROVE  /\ n \in Nat /\ frames \in Seq(Vp9!CodedFrame) /\ Len(frames) = n
           /\ DOMAIN frames = 1..n
           /\ Vp9!Displayable(frames) \subseteq 1..n
           /\ Vp9!Displayable(frames) # {} =>
                  Vp9!Max(Vp9!Displayable(frames)) \in Vp9!Displayable(frames)
<1>1. n \in Nat /\ frames \in [1..n -> Vp9!CodedFrame]
  BY Vp9Assumption DEF Vp9!PacketsOf
<1>2. frames \in Seq(Vp9!CodedFrame) /\ Len(frames) = n /\ DOMAIN frames = 1..n
  <2> QED
    BY <1>1, LenProperties, SeqDef
<1>3. Vp9!Displayable(frames) \subseteq 1..n
  BY <1>2 DEF Vp9!Displayable
<1> DEFINE D == Vp9!Displayable(frames)
<1>4. ASSUME D # {} PROVE Vp9!Max(D) \in D
  <2> HIDE DEF D
  <2>1. D \subseteq 1..n /\ D # {}
    BY <1>3, <1>4 DEF D
  <2>2. Max(D) \in D
    BY <1>1, <2>1, GreatestElement
  <2> QED
    BY <2>2 DEF Max, Vp9!Max
<1> QED
  BY <1>1, <1>2, <1>3, <1>4

\* The coded frames of a packet, as they are queued.
Entries(frames) ==
    [i \in DOMAIN frames |->
        [coded |-> frames[i], from |-> <<packets + 1, i>>,
         display |-> i = Vp9!OutputFrame(frames)]]

LEMMA PushedEntries ==
    ASSUME NEW n \in 1..MaxFrames, NEW frames \in Vp9!PacketsOf(n), packets \in 0..MaxPackets,
           packets < MaxPackets, NEW es, es = Entries(frames)
    PROVE  /\ es \in Seq(Vp9!Queued) /\ Len(es) = n
           /\ \A i \in 1..n : /\ es[i].coded = frames[i] /\ es[i].from = <<packets + 1, i>>
                              /\ es[i].display <=> i = Vp9!OutputFrame(frames)
<1>1. /\ n \in Nat /\ DOMAIN frames = 1..n /\ frames \in [1..n -> Vp9!CodedFrame]
      /\ n <= MaxFrames /\ MaxFrames \in Nat
      /\ packets + 1 \in 1..MaxPackets
  BY Vp9Assumption, PacketFacts DEF Vp9!PacketsOf
<1>2. \A i \in 1..n : /\ i \in 1..MaxFrames
                      /\ es[i] = [coded |-> frames[i], from |-> <<packets + 1, i>>,
                                  display |-> i = Vp9!OutputFrame(frames)]
  BY <1>1 DEF Entries
<1>3. ASSUME NEW i \in 1..n
      PROVE  /\ es[i] \in Vp9!Queued
             /\ es[i].coded = frames[i] /\ es[i].from = <<packets + 1, i>>
             /\ es[i].display <=> i = Vp9!OutputFrame(frames)
  <2>1. PICK c \in Vp9!CodedFrame, f \in (1..MaxPackets) \X (1..MaxFrames), d \in BOOLEAN :
            c = frames[i] /\ f = <<packets + 1, i>> /\ d = (i = Vp9!OutputFrame(frames))
    BY <1>1, <1>2
  <2>2. es[i] = [coded |-> c, from |-> f, display |-> d]
    BY <1>2, <2>1
  <2>3. es[i] \in Vp9!Queued
    BY <2>2 DEF Vp9!Queued
  <2>4. es[i].coded = c /\ es[i].from = f /\ es[i].display = d
    BY <2>2
  <2> QED
    BY <2>1, <2>3, <2>4
<1>4. es = [i \in 1..n |-> es[i]]
  BY <1>1 DEF Entries
<1>5. es \in [1..n -> Vp9!Queued]
  BY <1>3, <1>4
<1>6. es \in Seq(Vp9!Queued) /\ Len(es) = n
  BY <1>1, <1>5, SeqDef, LenProperties
<1> QED
  BY <1>3, <1>6

LEMMA Vp9InvInit == Vp9!Init => Vp9!TypeOK /\ Vp9!PoolIsDead
<1> SUFFICES ASSUME Vp9!Init PROVE Vp9!TypeOK /\ Vp9!PoolIsDead
  OBVIOUS
<1>1. pool = <<>> /\ Len(pool) = 0
  BY DEF Vp9!Init
<1>2. slots \in [Vp9!Slots -> Vp9!Buffers \cup {Vp9!Empty}] /\ packets \in 0..MaxPackets
  BY Vp9Assumption DEF Vp9!Init
<1>3. /\ vp9Pc \in {"demux", "pull", "done", "failed"} /\ vp9Eof \in BOOLEAN
  BY DEF Vp9!Init
<1>7. /\ vp9Queue \in Seq(Vp9!Queued)
      /\ due \in Seq((1..MaxPackets) \X (1..MaxFrames))
      /\ out \in Seq((1..MaxPackets) \X (1..MaxFrames))
  <2>1. \A S : <<>> \in Seq(S)
    OBVIOUS
  <2>2. vp9Queue = <<>> /\ due = <<>> /\ out = <<>>
    BY DEF Vp9!Init
  <2> QED
    BY <2>1, <2>2
<1>6. pool \in Seq(Vp9!Buffers) /\ Len(pool) <= PoolCap
  BY <1>1, Vp9Assumption
<1>5. Vp9!TypeOK
  BY <1>2, <1>3, <1>6, <1>7 DEF Vp9!TypeOK
<1>4. Vp9!PoolIsDead
  BY <1>1 DEF Vp9!PoolIsDead
<1> QED
  BY <1>4, <1>5

\* Every step of the VP9 decoder keeps its types, and its pool dead.
LEMMA Vp9InvStep ==
    ASSUME Vp9!TypeOK, Vp9!PoolIsDead, Vp9!Next
    PROVE  Vp9!TypeOK' /\ Vp9!PoolIsDead'
<1>1. CASE \E n \in 1..MaxFrames : \E frames \in Vp9!PacketsOf(n) : Vp9!Push(frames)
  <2>0. PICK n \in 1..MaxFrames : \E frames \in Vp9!PacketsOf(n) : Vp9!Push(frames)
    BY <1>1
  <2>1. PICK frames \in Vp9!PacketsOf(n) : Vp9!Push(frames)
    BY <2>0
  <2>2. PICK es : es = Entries(frames)
    OBVIOUS
  <2>3. packets \in 0..MaxPackets /\ packets < MaxPackets
    BY <2>1 DEF Vp9!TypeOK, Vp9!Push
  <2>4. es \in Seq(Vp9!Queued)
    BY <2>2, <2>3, PushedEntries
  <2>5. vp9Queue' = vp9Queue \o es /\ vp9Queue \in Seq(Vp9!Queued)
    BY <2>1, <2>2 DEF Vp9!Push, Entries, Vp9!TypeOK
  <2>6. vp9Queue' \in Seq(Vp9!Queued)
    BY <2>4, <2>5, ConcatParts
  <2>7. due' \in Seq((1..MaxPackets) \X (1..MaxFrames))
    <3>1. CASE Vp9!Displayable(frames) = {}
      BY <2>1, <3>1 DEF Vp9!Push, Vp9!TypeOK
    <3>2. CASE Vp9!Displayable(frames) # {}
      <4>1. PICK m : m = Vp9!Max(Vp9!Displayable(frames))
        OBVIOUS
      <4>2. m \in 1..n
        BY <3>2, <4>1, PacketFacts
      <4>3. m \in 1..MaxFrames /\ packets + 1 \in 1..MaxPackets
        BY <2>3, <4>2, Vp9Assumption
      <4>4. due' = Append(due, <<packets + 1, m>>)
        BY <2>1, <3>2, <4>1 DEF Vp9!Push
      <4> QED
        BY <4>3, <4>4 DEF Vp9!TypeOK
    <3> QED
      BY <3>1, <3>2
  <2> QED
    BY <2>1, <2>3, <2>6, <2>7, Vp9Assumption DEF Vp9!Push, Vp9!TypeOK, Vp9!PoolIsDead
<1>2. CASE Vp9!Flush
  BY <1>2 DEF Vp9!Flush, Vp9!TypeOK, Vp9!PoolIsDead
<1>3. ASSUME vp9Queue # <<>>, Vp9!Picture(Head(vp9Queue).coded)
      PROVE  /\ slots' \in [Vp9!Slots -> Vp9!Buffers \cup {Vp9!Empty}]
             /\ pool' \in Seq(Vp9!Buffers) /\ Len(pool') <= PoolCap
             /\ Vp9!PoolIsDead'
  <2>1. Head(vp9Queue) \in Vp9!Queued
    BY <1>3 DEF Vp9!TypeOK
  <2>2. PICK coded \in Vp9!CodedFrame : coded = Head(vp9Queue).coded
    BY <2>1 DEF Vp9!Queued
  <2>3. CASE coded.shows = 0
    <3>1. coded.refresh \in SUBSET Vp9!Slots
      BY DEF Vp9!CodedFrame
    <3>2. Vp9!Decode(coded.refresh)
      BY <1>3, <2>2, <2>3 DEF Vp9!Picture
    <3> QED
      BY <3>1, <3>2, DecodeKeepsPoolDead
  <2>4. CASE coded.shows # 0
    BY <1>3, <2>2, <2>4 DEF Vp9!Picture, Vp9!TypeOK, Vp9!PoolIsDead
  <2> QED
    BY <2>3, <2>4
<1>4. CASE Vp9!Show
  <2>2. Head(vp9Queue) \in Vp9!Queued /\ Tail(vp9Queue) \in Seq(Vp9!Queued)
    BY <1>4 DEF Vp9!Show, Vp9!TypeOK
  <2>1. /\ Head(vp9Queue).from \in (1..MaxPackets) \X (1..MaxFrames)
        /\ Tail(vp9Queue) \in Seq(Vp9!Queued)
    BY <2>2 DEF Vp9!Queued
  <2> QED
    BY <1>3, <1>4, <2>1 DEF Vp9!Show, Vp9!AfterShown, Vp9!TypeOK
<1>5. CASE Vp9!Hide
  <2>1. Tail(vp9Queue) \in Seq(Vp9!Queued)
    BY <1>5 DEF Vp9!Hide, Vp9!TypeOK
  <2> QED
    BY <1>3, <1>5, <2>1 DEF Vp9!Hide, Vp9!LoopEnds, Vp9!TypeOK
<1>6. CASE Vp9!Hungry
  BY <1>6 DEF Vp9!Hungry, Vp9!LoopEnds, Vp9!TypeOK, Vp9!PoolIsDead
<1>7. CASE Vp9!Reject
  <2>1. Tail(vp9Queue) \in Seq(Vp9!Queued)
    BY <1>7 DEF Vp9!Reject, Vp9!TypeOK
  <2> QED
    BY <1>7, <2>1 DEF Vp9!Reject, Vp9!TypeOK, Vp9!PoolIsDead
<1> QED
  BY <1>1, <1>2, <1>4, <1>5, <1>6, <1>7 DEF Vp9!Next

Vp9Inv == Vp9!TypeOK /\ Vp9!PoolIsDead

LEMMA Vp9InvHolds == Spec => []Vp9Inv
<1>1. Init => Vp9Inv
  BY Vp9InvInit DEF Init, Vp9Inv
<1>2. Vp9Inv /\ [Next]_vars => Vp9Inv'
  <2> SUFFICES ASSUME Vp9Inv, [Next]_vars PROVE Vp9Inv'
    OBVIOUS
  <2>1. CASE Vp9!Next
    BY <2>1, Vp9InvStep DEF Vp9Inv
  <2>2. CASE UNCHANGED vp9Vars
    BY <2>2 DEF vp9Vars, Vp9Inv, Vp9!TypeOK, Vp9!PoolIsDead
  <2> QED
    BY <2>1, <2>2 DEF Next, vars
<1> QED
  BY <1>1, <1>2, PTL DEF Spec

\* VP9: no reference slot holds a buffer that is in the pool, and the pool never
\* holds one twice, for every number of slots, pool size and stream: decoding into
\* a pooled buffer (Decode: alloc from plane_pool) overwrites no reference.
THEOREM PooledIsDead == Spec => []PoolIsDead
<1>1. Vp9Inv => PoolIsDead
  BY DEF Vp9Inv, PoolIsDead
<1> QED
  BY <1>1, Vp9InvHolds, PTL

-----------------------------------------------------------------------------
(* VP9: an order-preserving pipe *)

\* The queued frame is returned when its turn comes.
Shown(entry) == entry.display /\ entry.coded.displayable

\* After n frames that were output, the other ones of `frames` are those that are
\* queued to be shown, in order; all entries of the queue are, but the h-th (h = 0: all).
Waiting(entries, frames, n, h) ==
    /\ \A k \in 1..Len(entries) : Shown(entries[k]) <=> k # h
    /\ h = 0 => Len(frames) = n + Len(entries)
    /\ h # 0 => Len(frames) = n + Len(entries) - 1
    /\ \A k \in 1..Len(entries) : k < h \/ h = 0 => frames[n + k] = entries[k].from
    /\ \A k \in 1..Len(entries) : k > h /\ h # 0 => frames[n + k - 1] = entries[k].from

\* While the loop runs, what must still be output is queued, and at most one queued
\* frame is not shown: it is of the packet just pushed, whose pull ends with it.
PipeInv ==
    vp9Pc \in {"demux", "pull"} =>
        \E h \in 0..Len(vp9Queue) :
            /\ Waiting(vp9Queue, due, Len(out), h)
            /\ vp9Pc = "demux" \/ vp9Eof => h = 0
            /\ vp9Pc = "demux" => ~ vp9Eof

ShowsNone(frames, n, es) == Vp9!Displayable(frames) = {} /\ n = 1 /\ ~ Shown(es[1])

ShowsOne(frames, n, es, m) ==
    /\ Vp9!Displayable(frames) # {} /\ m = Vp9!Max(Vp9!Displayable(frames))
    /\ n <= 2 /\ \A i \in 1..n : Shown(es[i]) <=> i = m
    /\ es[m].from = <<packets + 1, m>>

\* A packet of at most one unseen frame adds at most one frame that is shown, and
\* at most one that is not.
LEMMA PacketShows ==
    ASSUME MaxUnseen <= 1, packets \in 0..MaxPackets, packets < MaxPackets,
           NEW n \in 1..MaxFrames, NEW frames \in Vp9!PacketsOf(n),
           NEW es, es = Entries(frames)
    PROVE  \/ ShowsNone(frames, n, es)
           \/ \E m \in 1..n : ShowsOne(frames, n, es, m)
<1> DEFINE D == Vp9!Displayable(frames)
           m == Vp9!OutputFrame(frames)
<1>1. /\ n \in Nat /\ Len(frames) = n /\ D \subseteq 1..n /\ DOMAIN frames = 1..n
      /\ D # {} => Vp9!Max(D) \in D
  BY PacketFacts
<1>2. n - (IF m = 0 THEN 0 ELSE 1) <= 1
  BY <1>1, Vp9Assumption DEF Vp9!PacketsOf, Vp9!Unseen
<1>3. \A i \in 1..n : /\ es[i].coded = frames[i] /\ es[i].from = <<packets + 1, i>>
                      /\ es[i].display <=> i = m
  BY PushedEntries
<1>4. \A i \in 1..n : Shown(es[i]) <=> i = m /\ i \in D
  BY <1>1, <1>3 DEF Shown, Vp9!Displayable
<1>5. CASE D = {}
  <2>1. m = 0
    BY <1>5 DEF Vp9!OutputFrame
  <2>2. n = 1
    BY <1>1, <1>2, <2>1
  <2> QED
    BY <1>4, <1>5, <2>2 DEF ShowsNone
<1>6. CASE D # {}
  <2>1. m = Vp9!Max(D) /\ m \in D /\ m \in 1..n
    BY <1>1, <1>6 DEF Vp9!OutputFrame
  <2>2. n <= 2
    BY <1>1, <1>2, <2>1
  <2>3. \A i \in 1..n : Shown(es[i]) <=> i = m
    BY <1>4, <2>1
  <2> QED
    BY <1>3, <1>6, <2>1, <2>2, <2>3 DEF ShowsOne
<1> QED
  BY <1>5, <1>6

LEMMA PushKeepsPipe ==
    ASSUME MaxUnseen <= 1, Vp9!TypeOK, PipeInv,
           NEW n \in 1..MaxFrames, NEW frames \in Vp9!PacketsOf(n), Vp9!Push(frames)
    PROVE  PipeInv' /\ [Vp9!Pipe!Next]_(Vp9!Pipe!vars)
<1>1. PICK es : es = Entries(frames)
  OBVIOUS
<1>2. /\ packets \in 0..MaxPackets /\ packets < MaxPackets
      /\ vp9Pc = "demux" /\ vp9Pc' = "pull" /\ out' = out
  BY DEF Vp9!TypeOK, Vp9!Push
<1>3. /\ vp9Queue \in Seq(Vp9!Queued) /\ es \in Seq(Vp9!Queued) /\ Len(es) = n /\ n \in Nat
      /\ vp9Queue' = vp9Queue \o es
  BY <1>1, <1>2, PushedEntries, PacketFacts DEF Vp9!TypeOK, Vp9!Push, Entries
<1>4. PICK q \in Nat : q = Len(vp9Queue)
  BY <1>3
<1>5. /\ Len(vp9Queue') = q + n
      /\ \A k \in 1..q : vp9Queue'[k] = vp9Queue[k]
      /\ \A k \in (q + 1)..(q + n) : vp9Queue'[k] = es[k - q]
  BY <1>3, <1>4, ConcatParts
<1>6. Waiting(vp9Queue, due, Len(out), 0)
  BY <1>2 DEF PipeInv
<1>7. PICK o \in Nat : o = Len(out)
  BY DEF Vp9!TypeOK
<1>8. /\ Len(due) = o + q /\ Len(due) \in Nat
      /\ due \in Seq((1..MaxPackets) \X (1..MaxFrames))
  BY <1>4, <1>6, <1>7 DEF Waiting, Vp9!TypeOK
<1>11. \A k \in 1..q : Shown(vp9Queue[k]) /\ due[o + k] = vp9Queue[k].from
  BY <1>4, <1>6, <1>7 DEF Waiting
<1>12. ~ vp9Eof' /\ vp9Eof' = vp9Eof
  BY <1>2 DEF PipeInv, Vp9!Push
<1>13. \/ ShowsNone(frames, n, es)
       \/ \E m \in 1..n : ShowsOne(frames, n, es, m)
  BY <1>1, <1>2, PacketShows
<1>14. CASE ShowsNone(frames, n, es)
  <2>8. Vp9!Displayable(frames) = {} /\ n = 1 /\ ~ Shown(es[1])
    BY <1>14 DEF ShowsNone
  <2>1. due' = due
    BY <2>8 DEF Vp9!Push
  <2>2. \A k \in 1..(q + 1) : Shown(vp9Queue'[k]) <=> k # q + 1
    <3> TAKE k \in 1..(q + 1)
    <3>1. CASE k = q + 1
      BY <1>5, <2>8, <3>1
    <3>2. CASE k # q + 1
      BY <1>5, <1>11, <3>2
    <3> QED
      BY <3>1, <3>2
  <2>3. \A k \in 1..(q + 1) : k < q + 1 => due'[o + k] = vp9Queue'[k].from
    BY <1>5, <1>11, <2>1
  <2>4. Len(vp9Queue') = q + 1 /\ Len(due') = o + (q + 1) - 1
    BY <1>5, <1>8, <2>8, <2>1
  <2>5. Waiting(vp9Queue', due', o, q + 1)
    BY <2>2, <2>3, <2>4, SMTT(30) DEF Waiting
  <2>6. PipeInv'
    BY <1>2, <1>7, <1>12, <2>4, <2>5 DEF PipeInv
  <2>7. UNCHANGED Vp9!Pipe!vars
    BY <1>2, <2>1 DEF Vp9!Pipe!vars
  <2> QED
    BY <2>6, <2>7
<1>10. CASE \E m \in 1..n : ShowsOne(frames, n, es, m)
  <2>11. PICK m \in 1..n : ShowsOne(frames, n, es, m)
    BY <1>10
  <2>1. /\ Vp9!Displayable(frames) # {} /\ m = Vp9!Max(Vp9!Displayable(frames))
        /\ n <= 2 /\ \A i \in 1..n : Shown(es[i]) <=> i = m
        /\ es[m].from = <<packets + 1, m>>
    BY <2>11 DEF ShowsOne
  <2>12. \A k \in 1..(q + n) : k \notin 1..q => k - q \in 1..n /\ vp9Queue'[k] = es[k - q]
    BY <1>3, <1>5
  <2>2. due' = Append(due, es[m].from)
    BY <2>1 DEF Vp9!Push
  <2>3. /\ Len(due') = o + q + 1 /\ due'[o + q + 1] = es[m].from
        /\ \A i \in 1..(o + q) : due'[i] = due[i]
    BY <1>8, <2>2
  <2> DEFINE h == IF n = 1 THEN 0 ELSE q + 3 - m
  <2>4. h \in 0..(q + n) /\ (n = 1 => m = 1) /\ n \in {1, 2} /\ m \in {1, 2}
    BY <1>3, <2>1
  <2>5. \A k \in 1..(q + n) : Shown(vp9Queue'[k]) <=> k # h
    <3> TAKE k \in 1..(q + n)
    <3>1. CASE k \in 1..q
      BY <1>5, <1>11, <2>4, <3>1
    <3>2. CASE k \notin 1..q
      <4>1. k - q \in 1..n /\ vp9Queue'[k] = es[k - q]
        BY <2>12, <3>2
      <4>2. Shown(vp9Queue'[k]) <=> k - q = m
        BY <2>1, <4>1
      <4> QED
        BY <1>3, <2>4, <4>1, <4>2
    <3> QED
      BY <3>1, <3>2
  <2>6. \A k \in 1..(q + n) :
            /\ k < h \/ h = 0 => due'[o + k] = vp9Queue'[k].from
            /\ k > h /\ h # 0 => due'[o + k - 1] = vp9Queue'[k].from
    <3> TAKE k \in 1..(q + n)
    <3>1. CASE k \in 1..q
      <4>1. ~ (k > h /\ h # 0)
        BY <2>4, <3>1
      <4>2. o + k \in 1..(o + q)
        BY <3>1
      <4>3. due'[o + k] = vp9Queue'[k].from
        BY <1>5, <1>11, <2>3, <3>1, <4>2
      <4> QED
        BY <4>1, <4>3
    <3>2. CASE k \notin 1..q /\ k # h
      <4>1. k = q + m
        BY <1>3, <2>4, <3>2
      <4>2. /\ k < h \/ h = 0 => o + k = o + q + 1
            /\ k > h /\ h # 0 => o + k - 1 = o + q + 1
        BY <2>4, <4>1
      <4>3. vp9Queue'[k] = es[m]
        <5>1. k - q \in 1..n /\ vp9Queue'[k] = es[k - q]
          BY <2>12, <3>2
        <5>2. k - q = m
          BY <2>4, <4>1
        <5> QED
          BY <5>1, <5>2
      <4>4. /\ k < h \/ h = 0 => due'[o + k] = es[m].from
            /\ k > h /\ h # 0 => due'[o + k - 1] = es[m].from
        BY <2>3, <4>2
      <4> QED
        BY <4>3, <4>4
    <3>3. CASE k = h
      BY <2>4, <3>3
    <3> QED
      BY <3>1, <3>2, <3>3
  <2>7. /\ h = 0 => Len(due') = o + (q + n)
        /\ h # 0 => Len(due') = o + (q + n) - 1
    BY <2>3, <2>4
  <2> HIDE DEF h
  <2>8. Waiting(vp9Queue', due', o, h)
    BY <1>5, <2>5, <2>6, <2>7 DEF Waiting
  <2>9. PipeInv'
    BY <1>2, <1>5, <1>7, <1>12, <2>4, <2>8 DEF PipeInv
  <2>10. Vp9!Pipe!Next
    <3>1. Vp9!Pipe!Accept
      BY <1>2, <1>8, <2>3 DEF Vp9!Pipe!Accept
    <3> QED
      BY <3>1 DEF Vp9!Pipe!Next
  <2> QED
    BY <2>9, <2>10
<1> QED
  BY <1>10, <1>13, <1>14

\* The queue gives up its head, which was to be shown and is the next that is due.
LEMMA ShownLeaves ==
    ASSUME NEW V, NEW entries \in Seq(V), NEW W, NEW frames \in Seq(W),
           NEW n \in Nat, NEW h \in 0..Len(entries),
           Waiting(entries, frames, n, h), entries # <<>>, Shown(entries[1])
    PROVE  /\ n < Len(frames) /\ frames[n + 1] = entries[1].from /\ h # 1
           /\ \E g \in 0..(Len(entries) - 1) :
                /\ g = (IF h = 0 THEN 0 ELSE h - 1)
                /\ Waiting(Tail(entries), frames, n + 1, g)
<1>1. PICK l \in Nat : l = Len(entries) /\ l > 0
  OBVIOUS
<1>11. PICK t : t = Tail(entries)
  OBVIOUS
<1>2. t = Tail(entries) /\ Len(t) = l - 1 /\ \A k \in 1..(l - 1) : t[k] = entries[k + 1]
  BY <1>1, <1>11, HeadTailProperties
<1>3. PICK g \in 0..(l - 1) : g = (IF h = 0 THEN 0 ELSE h - 1) /\ h # 1
  BY <1>1 DEF Waiting
<1>4. \A k \in 1..(l - 1) : Shown(t[k]) <=> k # g
  <2> TAKE k \in 1..(l - 1)
  <2>1. k + 1 \in 1..l /\ (k + 1 # h <=> k # g)
    BY <1>1, <1>3
  <2>2. Shown(entries[k + 1]) <=> k + 1 # h
    BY <1>1, <2>1 DEF Waiting
  <2> QED
    BY <1>2, <2>1, <2>2
<1>5. /\ g = 0 => Len(frames) = n + 1 + (l - 1)
      /\ g # 0 => Len(frames) = n + 1 + (l - 1) - 1
  BY <1>1, <1>3 DEF Waiting
<1>6. \A k \in 1..(l - 1) : k < g \/ g = 0 => frames[n + 1 + k] = t[k].from
  <2> TAKE k \in 1..(l - 1)
  <2> HAVE k < g \/ g = 0
  <2>1. k + 1 \in 1..l /\ (k + 1 < h \/ h = 0) /\ n + 1 + k = n + (k + 1)
    BY <1>1, <1>3
  <2>2. frames[n + (k + 1)] = entries[k + 1].from
    BY <1>1, <2>1 DEF Waiting
  <2> QED
    BY <1>2, <2>1, <2>2
<1>7. \A k \in 1..(l - 1) : k > g /\ g # 0 => frames[n + 1 + k - 1] = t[k].from
  <2> TAKE k \in 1..(l - 1)
  <2> HAVE k > g /\ g # 0
  <2>1. k + 1 \in 1..l /\ k + 1 > h /\ h # 0 /\ n + 1 + k - 1 = n + (k + 1) - 1
    BY <1>1, <1>3
  <2>2. frames[n + (k + 1) - 1] = entries[k + 1].from
    BY <1>1, <2>1 DEF Waiting
  <2> QED
    BY <1>2, <2>1, <2>2
<1>8. Waiting(t, frames, n + 1, g)
  BY <1>2, <1>4, <1>5, <1>6, <1>7 DEF Waiting
<1>9. frames[n + 1] = entries[1].from
  <2>1. 1 \in 1..Len(entries) /\ (1 < h \/ h = 0)
    BY <1>1, <1>3
  <2> QED
    BY <2>1 DEF Waiting
<1>10. n < Len(frames)
  BY <1>1, <1>3 DEF Waiting
<1> QED
  BY <1>2, <1>3, <1>8, <1>9, <1>10

\* The queue gives up its head, which was the one not to be shown.
LEMMA HiddenLeaves ==
    ASSUME NEW V, NEW entries \in Seq(V), NEW W, NEW frames \in Seq(W),
           NEW n \in Nat, NEW h \in 0..Len(entries),
           Waiting(entries, frames, n, h), entries # <<>>, ~ Shown(entries[1])
    PROVE  h = 1 /\ Waiting(Tail(entries), frames, n, 0)
<1>1. PICK l \in Nat : l = Len(entries) /\ l > 0
  OBVIOUS
<1>11. PICK t : t = Tail(entries)
  OBVIOUS
<1>2. t = Tail(entries) /\ Len(t) = l - 1 /\ \A k \in 1..(l - 1) : t[k] = entries[k + 1]
  BY <1>1, <1>11, HeadTailProperties
<1>3. h = 1
  BY <1>1 DEF Waiting
<1>4. \A k \in 1..(l - 1) : Shown(t[k])
  BY <1>1, <1>2, <1>3 DEF Waiting
<1>5. Len(frames) = n + (l - 1)
  BY <1>1, <1>3 DEF Waiting
<1>6. \A k \in 1..(l - 1) : frames[n + k] = t[k].from
  <2> TAKE k \in 1..(l - 1)
  <2>1. k + 1 \in 1..l /\ k + 1 > h /\ h # 0 /\ n + k = n + (k + 1) - 1
    BY <1>1, <1>3
  <2>2. frames[n + (k + 1) - 1] = entries[k + 1].from
    BY <1>1, <2>1 DEF Waiting
  <2> QED
    BY <1>2, <2>1, <2>2
<1>7. Waiting(t, frames, n, 0)
  BY <1>2, <1>4, <1>5, <1>6 DEF Waiting
<1> QED
  BY <1>2, <1>3, <1>7

\* Every step of the VP9 decoder and its loop is a step of the pipe, or none of its.
LEMMA PipeStep ==
    ASSUME MaxUnseen <= 1, Vp9!TypeOK, PipeInv, Vp9!Next
    PROVE  PipeInv' /\ [Vp9!Pipe!Next]_(Vp9!Pipe!vars)
<1>1. CASE \E n \in 1..MaxFrames : \E frames \in Vp9!PacketsOf(n) : Vp9!Push(frames)
  BY <1>1, PushKeepsPipe
<1>2. CASE Vp9!Flush
  <2>1. PipeInv'
    BY <1>2 DEF Vp9!Flush, PipeInv
  <2>2. UNCHANGED Vp9!Pipe!vars
    BY <1>2 DEF Vp9!Flush, Vp9!Pipe!vars
  <2> QED
    BY <2>1, <2>2
<1>3. ASSUME vp9Pc = "pull", vp9Queue # <<>>
      PROVE  \E n \in Nat, h \in 0..Len(vp9Queue) :
                /\ n = Len(out) /\ Waiting(vp9Queue, due, n, h)
                /\ vp9Eof => h = 0
                /\ vp9Queue \in Seq(Vp9!Queued) /\ Len(vp9Queue) \in Nat \ {0}
                /\ due \in Seq((1..MaxPackets) \X (1..MaxFrames))
                /\ Len(Tail(vp9Queue)) = Len(vp9Queue) - 1
                /\ Head(vp9Queue) = vp9Queue[1]
  <2>1. PICK h \in 0..Len(vp9Queue) : /\ Waiting(vp9Queue, due, Len(out), h)
                                      /\ vp9Eof => h = 0
    BY <1>3 DEF PipeInv
  <2>2. Len(out) \in Nat
    BY DEF Vp9!TypeOK
  <2>3. /\ vp9Queue \in Seq(Vp9!Queued) /\ Len(vp9Queue) \in Nat \ {0}
        /\ due \in Seq((1..MaxPackets) \X (1..MaxFrames))
        /\ Len(Tail(vp9Queue)) = Len(vp9Queue) - 1
        /\ Head(vp9Queue) = vp9Queue[1]
    BY <1>3 DEF Vp9!TypeOK
  <2> QED
    BY <2>1, <2>2, <2>3
<1>4. CASE Vp9!Show
  <2>0. /\ vp9Pc = "pull" /\ vp9Pc' = vp9Pc /\ vp9Queue # <<>> /\ vp9Queue' = Tail(vp9Queue)
        /\ out' = Append(out, Head(vp9Queue).from) /\ due' = due /\ vp9Eof' = vp9Eof
        /\ Shown(Head(vp9Queue))
    BY <1>4 DEF Vp9!Show, Vp9!AfterShown, Shown
  <2>1. PICK n \in Nat, h \in 0..Len(vp9Queue) :
                /\ n = Len(out) /\ Waiting(vp9Queue, due, n, h)
                /\ vp9Eof => h = 0
                /\ vp9Queue \in Seq(Vp9!Queued) /\ Len(vp9Queue) \in Nat \ {0}
                /\ due \in Seq((1..MaxPackets) \X (1..MaxFrames))
                /\ Len(Tail(vp9Queue)) = Len(vp9Queue) - 1
                /\ Head(vp9Queue) = vp9Queue[1]
    BY <1>3, <2>0
  <2>2. /\ n < Len(due) /\ due[n + 1] = vp9Queue[1].from /\ h # 1
        /\ \E g \in 0..(Len(vp9Queue) - 1) :
                /\ g = (IF h = 0 THEN 0 ELSE h - 1)
                /\ Waiting(Tail(vp9Queue), due, n + 1, g)
    <3>1. Shown(vp9Queue[1])
      BY <2>0, <2>1
    <3>2. /\ Waiting(vp9Queue, due, n, h) /\ vp9Queue # <<>>
          /\ vp9Queue \in Seq(Vp9!Queued)
          /\ due \in Seq((1..MaxPackets) \X (1..MaxFrames))
      BY <2>0, <2>1
    <3>3. /\ n < Len(due) /\ due[n + 1] = vp9Queue[1].from /\ h # 1
      BY <3>1, <3>2, ShownLeaves
    <3>4. \E g \in 0..(Len(vp9Queue) - 1) :
                /\ g = (IF h = 0 THEN 0 ELSE h - 1)
                /\ Waiting(Tail(vp9Queue), due, n + 1, g)
      BY <3>1, <3>2, ShownLeaves
    <3> QED
      BY <3>3, <3>4
  <2>3. Len(out') = n + 1
    BY <2>0, <2>1 DEF Vp9!TypeOK
  <2>4. PICK g \in 0..(Len(vp9Queue) - 1) : /\ g = (IF h = 0 THEN 0 ELSE h - 1)
                                            /\ Waiting(Tail(vp9Queue), due, n + 1, g)
    BY <2>2
  <2>5. /\ Waiting(vp9Queue', due', Len(out'), g) /\ g \in 0..Len(vp9Queue')
        /\ vp9Eof' => g = 0
    BY <2>0, <2>1, <2>3, <2>4
  <2>6. PipeInv'
    BY <2>0, <2>5 DEF PipeInv
  <2>7. Vp9!Pipe!Mux
    BY <2>0, <2>1, <2>2 DEF Vp9!Pipe!Mux
  <2> QED
    BY <2>6, <2>7 DEF Vp9!Pipe!Next
<1>5. CASE Vp9!Hide
  <2>0. /\ vp9Pc = "pull" /\ vp9Pc' = (IF vp9Eof THEN "done" ELSE "demux")
        /\ vp9Queue # <<>> /\ vp9Queue' = Tail(vp9Queue)
        /\ out' = out /\ due' = due /\ vp9Eof' = vp9Eof
        /\ ~ Shown(Head(vp9Queue))
    BY <1>5 DEF Vp9!Hide, Vp9!LoopEnds, Shown
  <2>1. PICK n \in Nat, h \in 0..Len(vp9Queue) :
                /\ n = Len(out) /\ Waiting(vp9Queue, due, n, h)
                /\ vp9Eof => h = 0
                /\ vp9Queue \in Seq(Vp9!Queued) /\ Len(vp9Queue) \in Nat \ {0}
                /\ due \in Seq((1..MaxPackets) \X (1..MaxFrames))
                /\ Len(Tail(vp9Queue)) = Len(vp9Queue) - 1
                /\ Head(vp9Queue) = vp9Queue[1]
    BY <1>3, <2>0
  <2>2. h = 1 /\ Waiting(Tail(vp9Queue), due, n, 0)
    BY <2>0, <2>1, HiddenLeaves
  <2>3. ~ vp9Eof /\ 0 \in 0..Len(vp9Queue')
    BY <2>0, <2>1, <2>2
  <2>4. PipeInv'
    BY <2>0, <2>1, <2>2, <2>3 DEF PipeInv
  <2>5. UNCHANGED Vp9!Pipe!vars
    BY <2>0, <2>3 DEF Vp9!Pipe!vars
  <2> QED
    BY <2>4, <2>5
<1>6. CASE Vp9!Hungry
  <2>0. /\ vp9Pc = "pull" /\ vp9Pc' = (IF vp9Eof THEN "done" ELSE "demux")
        /\ vp9Queue = <<>> /\ vp9Queue' = vp9Queue
        /\ out' = out /\ due' = due /\ vp9Eof' = vp9Eof
    BY <1>6 DEF Vp9!Hungry, Vp9!LoopEnds
  <2>1. Len(vp9Queue) = 0
    BY <2>0
  <2>2. Waiting(vp9Queue, due, Len(out), 0) /\ 0 \in 0..Len(vp9Queue)
    BY <2>0, <2>1 DEF PipeInv
  <2>3. PipeInv'
    BY <2>0, <2>2 DEF PipeInv
  <2>4. Len(out) = Len(due)
    BY <2>1, <2>2 DEF Waiting, Vp9!TypeOK
  <2>5. CASE vp9Eof
    <3>1. Vp9!Pipe!Finish
      BY <2>0, <2>4, <2>5 DEF Vp9!Pipe!Finish
    <3> QED
      BY <2>3, <3>1 DEF Vp9!Pipe!Next
  <2>6. CASE ~ vp9Eof
    <3>1. UNCHANGED Vp9!Pipe!vars
      BY <2>0, <2>6 DEF Vp9!Pipe!vars
    <3> QED
      BY <2>3, <3>1
  <2> QED
    BY <2>5, <2>6
<1>7. CASE Vp9!Reject
  <2>1. PipeInv'
    BY <1>7 DEF Vp9!Reject, PipeInv
  <2>2. Vp9!Pipe!Fail
    BY <1>7 DEF Vp9!Reject, Vp9!Pipe!Fail
  <2> QED
    BY <2>1, <2>2 DEF Vp9!Pipe!Next
<1> QED
  BY <1>1, <1>2, <1>4, <1>5, <1>6, <1>7 DEF Vp9!Next

\* VP9: as long as no packet has two coded frames that are not output, what packets
\* must output comes out in order, and all of it before the stream is done; the
\* decoder and its receive loop are the pipe they are taken for.
THEOREM Vp9IsAPipe ==
    ASSUME MaxUnseen <= 1
    PROVE  Spec => PipeSpec
<1>1. Init => PipeInv /\ Vp9!Pipe!Init
  <2> SUFFICES ASSUME Init PROVE PipeInv /\ Vp9!Pipe!Init
    OBVIOUS
  <2>1. /\ vp9Pc = "demux" /\ vp9Queue = <<>> /\ due = <<>> /\ out = <<>> /\ ~ vp9Eof
        /\ Len(vp9Queue) = 0 /\ Len(out) = 0 /\ Len(due) = 0
    BY DEF Init, Vp9!Init
  <2>2. Waiting(vp9Queue, due, Len(out), 0) /\ 0 \in 0..Len(vp9Queue)
    BY <2>1 DEF Waiting
  <2>3. PipeInv
    BY <2>1, <2>2 DEF PipeInv
  <2>4. Vp9!Pipe!Init
    BY <2>1 DEF Vp9!Pipe!Init
  <2> QED
    BY <2>3, <2>4
<1>2. Vp9Inv /\ PipeInv /\ [Next]_vars => PipeInv' /\ [Vp9!Pipe!Next]_(Vp9!Pipe!vars)
  <2> SUFFICES ASSUME Vp9Inv, PipeInv, [Next]_vars
               PROVE  PipeInv' /\ [Vp9!Pipe!Next]_(Vp9!Pipe!vars)
    OBVIOUS
  <2>1. CASE Vp9!Next
    BY <2>1, PipeStep DEF Vp9Inv
  <2>2. CASE UNCHANGED vp9Vars
    BY <2>2 DEF vp9Vars, PipeInv, Vp9!Pipe!vars
  <2> QED
    BY <2>1, <2>2 DEF Next, vars
<1> QED
  BY <1>1, <1>2, Vp9InvHolds, PTL DEF Spec, PipeSpec, Vp9!PipeSpec, Vp9!Pipe!Spec

-----------------------------------------------------------------------------
(* H.264: the reorder buffer *)

\* The pictures that have left the buffer.
Left == delivered \o h264Queue

Rises(ps) ==
    \A j, k \in 1..Len(ps) : j < k => H264!Before(ps[j], ps[k])

\* What has left the buffer rises, and all that is held is of the current sequence
\* and displayed after it.
HeldFollow(left, held, seq) ==
    /\ Rises(left)
    /\ \A p \in held : p[1] = seq /\ \A k \in 1..Len(left) : H264!Before(left[k], p)

\* Every decoded picture has left or is held, once; none is of a later sequence.
AllAccounted ==
    /\ H264!ToSet(decoded) = H264!ToSet(Left) \cup reorder
    /\ Len(Left) + Cardinality(reorder) = Len(decoded)
    /\ \A p \in H264!ToSet(decoded) : p[1] <= H264!Sequence
    /\ H264!Sequence \in 0..Len(decoded)

\* A picture of the current sequence only leaves a buffer that stays full: the next
\* picture cannot be displayed before it, for it would be displayed before all that
\* are held as well, more than the buffer of its sequence holds.
FullWhenBumped(left, held, seq, room) ==
    \A k \in 1..Len(left) : left[k][1] = seq => Cardinality(held) = room

EndsEmpty ==
    /\ h264Eof => reorder = {} /\ h264Pc \in {"pull", "done"}
    /\ h264Pc = "done" => h264Eof /\ h264Queue = <<>>

H264Inv ==
    /\ H264!TypeOK
    /\ HeldFollow(Left, reorder, H264!Sequence)
    /\ AllAccounted
    /\ h264Eof \/ FullWhenBumped(Left, reorder, H264!Sequence, dpbFrames)
    /\ EndsEmpty

\* Display order orders the pictures strictly.
LEMMA DisplayOrder ==
    \A p, q, r \in H264!Picture :
        /\ p = q \/ H264!Before(p, q) \/ H264!Before(q, p)
        /\ ~ H264!Before(p, p)
        /\ H264!Before(p, q) /\ H264!Before(q, r) => H264!Before(p, r)
BY H264Assumption DEF H264!Picture, H264!Before

LEMMA FinitelyManyPictures ==
    ASSUME NEW T, T \subseteq H264!Picture
    PROVE  IsFiniteSet(T)
<1>1. IsFiniteSet(1..MaxPictures) /\ IsFiniteSet(0..MaxPoc)
  BY H264Assumption, FS_Interval
<1>2. IsFiniteSet(H264!Picture)
  BY <1>1, FS_Product DEF H264!Picture
<1> QED
  BY <1>2, FS_Subset

LEMMA SetOfSeq ==
    ASSUME NEW S, NEW s \in Seq(S), NEW n, n = Len(s)
    PROVE  H264!ToSet(s) = {s[i] : i \in 1..n}
BY DEF H264!ToSet

LEMMA SetOfAppend ==
    ASSUME NEW S, NEW s \in Seq(S), NEW e \in S
    PROVE  H264!ToSet(Append(s, e)) = H264!ToSet(s) \cup {e}
<1>0. PICK a : a = Append(s, e)
  OBVIOUS
<1>1. PICK n \in Nat : n = Len(s)
  OBVIOUS
<1>2. a \in Seq(S) /\ Len(a) = n + 1 /\ a[n + 1] = e /\ \A i \in 1..n : a[i] = s[i]
  BY <1>0, <1>1
<1>3. H264!ToSet(s) = {s[i] : i \in 1..n}
  BY <1>1, SetOfSeq
<1>4. H264!ToSet(a) = {a[i] : i \in 1..(n + 1)}
  <2>1. PICK l \in Nat : a \in Seq(S) /\ l = Len(a) /\ l = n + 1
    BY <1>2
  <2>2. DOMAIN a = 1..l
    BY <2>1, LenProperties
  <2>3. H264!ToSet(a) = {a[i] : i \in 1..l}
    BY <2>2 DEF H264!ToSet
  <2> QED
    BY <2>1, <2>3
<1> QED
  BY <1>0, <1>2, <1>3, <1>4

LEMMA SetOfConcat ==
    ASSUME NEW S, NEW s \in Seq(S), NEW t \in Seq(S)
    PROVE  H264!ToSet(s \o t) = H264!ToSet(s) \cup H264!ToSet(t)
<1>0. PICK c : c = s \o t
  OBVIOUS
<1>1. PICK n \in Nat, m \in Nat : n = Len(s) /\ m = Len(t)
  OBVIOUS
<1>2. /\ c \in Seq(S) /\ Len(c) = n + m
      /\ \A i \in 1..n : c[i] = s[i]
      /\ \A i \in (n + 1)..(n + m) : c[i] = t[i - n]
  BY <1>0, <1>1, ConcatParts
<1>3. H264!ToSet(s) = {s[i] : i \in 1..n} /\ H264!ToSet(t) = {t[i] : i \in 1..m}
  <2>1. H264!ToSet(s) = {s[i] : i \in 1..n}
    BY <1>1, SetOfSeq
  <2>2. H264!ToSet(t) = {t[i] : i \in 1..m}
    BY <1>1, SetOfSeq
  <2> QED
    BY <2>1, <2>2
<1>8. \A x : x \in H264!ToSet(c) <=> \E i \in 1..(n + m) : c[i] = x
  <2>1. PICK l \in Nat : c \in Seq(S) /\ l = Len(c) /\ l = n + m
    BY <1>2
  <2>2. DOMAIN c = 1..l
    BY <2>1, LenProperties
  <2>3. H264!ToSet(c) = {c[i] : i \in 1..l}
    BY <2>2 DEF H264!ToSet
  <2> QED
    BY <2>1, <2>3
<1>4. \A i \in 1..m : n + i \in (n + 1)..(n + m) /\ c[n + i] = t[i]
  BY <1>2
<1>5. \A i \in 1..(n + m) : c[i] \in H264!ToSet(s) \cup H264!ToSet(t)
  <2> TAKE i \in 1..(n + m)
  <2>1. CASE i \in 1..n
    BY <1>2, <1>3, <2>1
  <2>2. CASE i \notin 1..n
    <3>1. i - n \in 1..m /\ c[i] = t[i - n]
      BY <1>2, <2>2
    <3> QED
      BY <1>3, <3>1
  <2> QED
    BY <2>1, <2>2
<1>6. \A i \in 1..n : s[i] \in H264!ToSet(c)
  BY <1>2, <1>8
<1>7. \A i \in 1..m : t[i] \in H264!ToSet(c)
  <2> TAKE i \in 1..m
  <2>1. n + i \in 1..(n + m)
    OBVIOUS
  <2>2. c[n + i] = t[i]
    BY <1>4
  <2> QED
    BY <1>8, <2>1, <2>2
<1>9. \A x \in H264!ToSet(c) : x \in H264!ToSet(s) \cup H264!ToSet(t)
  BY <1>5, <1>8
<1>10. \A x \in H264!ToSet(s) : x \in H264!ToSet(c)
  BY <1>3, <1>6
<1>11. \A x \in H264!ToSet(t) : x \in H264!ToSet(c)
  BY <1>3, <1>7
<1> QED
  BY <1>0, <1>9, <1>10, <1>11

\* bump() picks the picture of its sequence that is displayed first.
LEMMA LowestIsFirst ==
    ASSUME NEW held, held \subseteq H264!Picture, held # {}, NEW s, \A p \in held : p[1] = s,
           NEW low, low = H264!Lowest(held)
    PROVE  low \in held /\ \A q \in held : q # low => H264!Before(low, q)
<1>1. \A p \in held : p[1] = s /\ p[2] \in Nat /\ p = <<p[1], p[2]>>
  BY H264Assumption DEF H264!Picture
<1> DEFINE T == {p[2] : p \in held}
<1>2. T \subseteq Nat /\ T # {}
  BY <1>1
<1>3. PICK n \in T : \A m \in T : n <= m
  <2> HIDE DEF T
  <2> QED
    BY <1>2, LeastElement
<1>4. \E p \in held : \A q \in held : p[2] <= q[2]
  BY <1>3
<1>5. low \in held /\ \A q \in held : low[2] <= q[2]
  BY <1>4 DEF H264!Lowest
<1>6. ASSUME NEW q \in held, q # low PROVE H264!Before(low, q)
  <2>1. q[2] # low[2]
    BY <1>1, <1>5, <1>6
  <2> QED
    BY <1>1, <1>5, <2>1 DEF H264!Before
<1> QED
  BY <1>5, <1>6

\* drain() puts out all that is held, in display order.
LEMMA ByPocRises ==
    ASSUME NEW held, held \subseteq H264!Picture, NEW s, \A p \in held : p[1] = s,
           NEW r, r = H264!ByPoc(held)
    PROVE  /\ r \in Seq(H264!Picture) /\ Len(r) = Cardinality(held) /\ Len(r) \in Nat
           /\ H264!ToSet(r) = held
           /\ Rises(r)
<1> DEFINE R == H264!Rising(held)
<1>1. \A p \in held : p[1] = s /\ p[2] \in Nat /\ p = <<p[1], p[2]>>
  BY H264Assumption DEF H264!Picture
<1>2. \A p, q \in held : <<p, q>> \in R <=> p[2] < q[2]
  BY DEF H264!Rising
<1>3. StrictOrder(held, R) /\ IsFiniteSet(held)
  <2>1. \A p, q \in held : p[2] = q[2] => p = q
    BY <1>1
  <2> HIDE DEF R
  <2> QED
    BY <1>1, <1>2, <2>1, FinitelyManyPictures DEF StrictOrder
<1>4. r = InOrder(held, R)
  BY DEF H264!ByPoc, H264!InOrder, InOrder, H264!Place, Place, H264!Cardinality, Cardinality
<1> HIDE DEF R
<1>5. r \in Seq(held) /\ Len(r) = Cardinality(held) /\ Len(r) \in Nat
  BY <1>3, <1>4, InOrderSorts
<1>6. ASSUME NEW i \in 1..Len(r), NEW j \in 1..Len(r), i < j PROVE <<r[i], r[j]>> \in R
  BY <1>3, <1>4, <1>6, InOrderRises
<1>7. \A x \in held : \E i \in 1..Len(r) : r[i] = x
  BY <1>3, <1>4, <1>5, InOrderSorts
<1>8. \A i \in 1..Len(r) : r[i] \in held
  BY <1>5
<1>9. r \in Seq(H264!Picture)
  BY <1>5, <1>8, SeqOverElements
<1>10. Rises(r)
  <2>1. ASSUME NEW j \in 1..Len(r), NEW k \in 1..Len(r), j < k
        PROVE  H264!Before(r[j], r[k])
    BY <1>1, <1>2, <1>6, <1>8, <2>1 DEF H264!Before
  <2> QED
    BY <2>1 DEF Rises
<1>11. H264!ToSet(r) = held
  <2>1. H264!ToSet(r) = {r[i] : i \in 1..Len(r)}
    BY <1>5, SetOfSeq
  <2> QED
    BY <1>7, <1>8, <2>1
<1> QED
  BY <1>5, <1>9, <1>10, <1>11

\* Two rising sequences, the second displayed after the first.
LEMMA RisesOn ==
    ASSUME NEW s \in Seq(H264!Picture), NEW t \in Seq(H264!Picture), Rises(s), Rises(t),
           \A p \in H264!ToSet(t) : \A k \in 1..Len(s) : H264!Before(s[k], p),
           NEW c, c = s \o t
    PROVE  Rises(c)
<1>1. PICK n \in Nat, m \in Nat : n = Len(s) /\ m = Len(t)
  OBVIOUS
<1>2. /\ c \in Seq(H264!Picture) /\ Len(c) = n + m
      /\ \A i \in 1..n : c[i] = s[i]
      /\ \A i \in (n + 1)..(n + m) : c[i] = t[i - n]
  BY <1>1, ConcatParts
<1>3. ASSUME NEW j \in 1..(n + m), NEW k \in 1..(n + m), j < k
      PROVE  H264!Before(c[j], c[k])
  <2>1. CASE k \in 1..n
    BY <1>1, <1>2, <1>3, <2>1 DEF Rises
  <2>2. CASE j \in 1..n /\ k \notin 1..n
    <3>1. k - n \in 1..m /\ c[k] = t[k - n] /\ c[j] = s[j]
      BY <1>2, <2>2
    <3>2. t[k - n] \in H264!ToSet(t)
      BY <1>1, <3>1, SetOfSeq
    <3> QED
      BY <1>1, <2>2, <3>1, <3>2
  <2>3. CASE j \notin 1..n
    <3>1. /\ j \in (n + 1)..(n + m) /\ k \in (n + 1)..(n + m)
          /\ j - n \in 1..m /\ k - n \in 1..m /\ j - n < k - n
      BY <1>3, <2>3
    <3>2. c[j] = t[j - n] /\ c[k] = t[k - n]
      BY <1>2, <3>1
    <3> QED
      BY <1>1, <3>1, <3>2 DEF Rises
  <2> QED
    BY <1>3, <2>1, <2>2, <2>3
<1> QED
  BY <1>2, <1>3 DEF Rises

\* A picture joins those held, and one is bumped if there are too many.
Joins(left, held, x, room, left2, held2) ==
    IF H264!Overfull(held \cup {x}, room)
    THEN /\ left2 = Append(left, H264!Lowest(held \cup {x}))
         /\ held2 = (held \cup {x}) \ {H264!Lowest(held \cup {x})}
    ELSE left2 = left /\ held2 = held \cup {x}

LEMMA JoiningKeepsOrder ==
    ASSUME NEW left \in Seq(H264!Picture), NEW held, held \subseteq H264!Picture,
           NEW seq, NEW room \in Nat \ {0},
           HeldFollow(left, held, seq), FullWhenBumped(left, held, seq, room),
           Cardinality(held) <= room,
           NEW x \in H264!Picture, x \notin held, x[1] = seq,
           \A k \in 1..Len(left) : H264!Before(left[k], x),
           NEW left2, NEW held2, Joins(left, held, x, room, left2, held2)
    PROVE  /\ left2 \in Seq(H264!Picture) /\ held2 \subseteq H264!Picture
           /\ Cardinality(held2) <= room
           /\ HeldFollow(left2, held2, seq) /\ FullWhenBumped(left2, held2, seq, room)
           /\ H264!ToSet(left2) \cup held2 = H264!ToSet(left) \cup held \cup {x}
           /\ Len(left2) + Cardinality(held2) = Len(left) + Cardinality(held) + 1
<1>1. PICK all : all = held \cup {x}
  OBVIOUS
<1>2. /\ IsFiniteSet(held) /\ IsFiniteSet(all) /\ all \subseteq H264!Picture
      /\ Cardinality(held) \in Nat /\ Cardinality(all) = Cardinality(held) + 1
  BY <1>1, FinitelyManyPictures, FS_CardinalityType, FS_AddElement
<1>3. \A p \in all : p[1] = seq /\ \A k \in 1..Len(left) : H264!Before(left[k], p)
  BY <1>1 DEF HeldFollow
<1>4. CASE Cardinality(all) > room
  <2>1. PICK low : low = H264!Lowest(all)
    OBVIOUS
  <2>2. left2 = Append(left, low) /\ held2 = all \ {low}
    BY <1>1, <1>4, <2>1 DEF Joins, H264!Overfull, H264!Cardinality, Cardinality
  <2>3. low \in all /\ \A q \in all : q # low => H264!Before(low, q)
    BY <1>1, <1>2, <1>3, <2>1, LowestIsFirst
  <2>4. Cardinality(all) = room + 1 /\ Cardinality(held2) = room
    <3>1. Cardinality(all \ {low}) = Cardinality(all) - 1
      BY <1>2, <2>3, FS_RemoveElement
    <3> QED
      BY <1>2, <1>4, <2>2, <3>1
  <2>5. PICK n \in Nat : n = Len(left)
    OBVIOUS
  <2>6. /\ low \in H264!Picture /\ left2 \in Seq(H264!Picture) /\ Len(left2) = n + 1
        /\ left2[n + 1] = low /\ \A k \in 1..n : left2[k] = left[k]
    BY <1>2, <2>2, <2>3, <2>5
  <2>7. Rises(left2)
    <3>1. ASSUME NEW j \in 1..(n + 1), NEW k \in 1..(n + 1), j < k
          PROVE  H264!Before(left2[j], left2[k])
      <4>1. CASE k \in 1..n
        BY <2>5, <2>6, <3>1, <4>1 DEF HeldFollow, Rises
      <4>2. CASE k = n + 1
        BY <1>3, <2>3, <2>5, <2>6, <3>1, <4>2
      <4> QED
        BY <4>1, <4>2
    <3> QED
      BY <2>6, <3>1 DEF Rises
  <2>8. ASSUME NEW p \in held2
        PROVE  p[1] = seq /\ \A k \in 1..(n + 1) : H264!Before(left2[k], p)
    <3>1. p \in all /\ p # low
      BY <2>2
    <3>2. \A k \in 1..n : H264!Before(left2[k], p)
      BY <1>3, <2>5, <2>6, <3>1
    <3>3. H264!Before(left2[n + 1], p)
      BY <2>3, <2>6, <3>1
    <3> QED
      BY <1>3, <3>1, <3>2, <3>3
  <2>9. HeldFollow(left2, held2, seq) /\ FullWhenBumped(left2, held2, seq, room)
    BY <2>4, <2>6, <2>7, <2>8 DEF HeldFollow, FullWhenBumped
  <2>10. H264!ToSet(left2) \cup held2 = H264!ToSet(left) \cup held \cup {x}
    <3>1. H264!ToSet(left2) = H264!ToSet(left) \cup {low}
      BY <2>2, <2>6, SetOfAppend
    <3> QED
      BY <1>1, <2>2, <2>3, <3>1
  <2> QED
    BY <1>2, <2>2, <2>4, <2>5, <2>6, <2>9, <2>10
<1>5. CASE ~ (Cardinality(all) > room)
  <2>1. left2 = left /\ held2 = all
    BY <1>1, <1>5 DEF Joins, H264!Overfull, H264!Cardinality, Cardinality
  <2>2. Cardinality(held) # room
    BY <1>2, <1>5
  <2>3. HeldFollow(left2, held2, seq) /\ FullWhenBumped(left2, held2, seq, room)
    BY <1>3, <2>1, <2>2 DEF HeldFollow, FullWhenBumped
  <2>4. H264!ToSet(left2) \cup held2 = H264!ToSet(left) \cup held \cup {x}
    BY <1>1, <2>1
  <2>5. Len(left2) + Cardinality(held2) = Len(left) + Cardinality(held) + 1
    <3>1. Len(left) \in Nat
      OBVIOUS
    <3> QED
      BY <1>2, <2>1, <3>1
  <2> QED
    BY <1>2, <1>5, <2>1, <2>3, <2>4, <2>5
<1> QED
  BY <1>4, <1>5

\* What every state of the decoder gives the steps.
LEMMA H264Facts ==
    ASSUME H264Inv
    PROVE  /\ delivered \in Seq(H264!Picture) /\ h264Queue \in Seq(H264!Picture)
           /\ Left \in Seq(H264!Picture) /\ decoded \in Seq(H264!Picture)
           /\ reorder \subseteq H264!Picture /\ IsFiniteSet(reorder)
           /\ Cardinality(reorder) \in Nat /\ Cardinality(reorder) <= dpbFrames
           /\ dpbFrames \in Nat \ {0} /\ H264!Sequence \in Nat
<1>1. /\ delivered \in Seq(H264!Picture) /\ h264Queue \in Seq(H264!Picture)
      /\ decoded \in Seq(H264!Picture) /\ reorder \subseteq H264!Picture
      /\ dpbFrames \in Nat \ {0} /\ Cardinality(reorder) <= dpbFrames
  BY H264Assumption DEF H264Inv, H264!TypeOK, H264!Cardinality, Cardinality
<1>2. Left \in Seq(H264!Picture)
  BY <1>1 DEF Left
<1>3. IsFiniteSet(reorder) /\ Cardinality(reorder) \in Nat
  BY <1>1, FinitelyManyPictures, FS_CardinalityType
<1>4. H264!Sequence \in Nat
  BY <1>1 DEF H264Inv, AllAccounted
<1> QED
  BY <1>1, <1>2, <1>3, <1>4

\* No picture of a conforming stream is displayed before one that has left.
LEMMA UnitFollows ==
    ASSUME H264Inv, ~ h264Eof, NEW x \in H264!Picture, x[1] = H264!Sequence,
           x \notin H264!ToSet(decoded),
           H264!Cardinality({p \in H264!ToSet(decoded) : H264!Before(x, p)}) <= dpbFrames
    PROVE  \A k \in 1..Len(Left) : H264!Before(Left[k], x)
<1> SUFFICES ASSUME NEW k \in 1..Len(Left), ~ H264!Before(Left[k], x)
             PROVE  FALSE
  OBVIOUS
<1> DEFINE later == {p \in H264!ToSet(decoded) : H264!Before(x, p)}
<1>1. PICK y : y = Left[k]
  OBVIOUS
<1>2. /\ y \in H264!Picture /\ y \in H264!ToSet(decoded) /\ y[1] <= H264!Sequence
      /\ \A p \in reorder : H264!Before(y, p) /\ p \in H264!ToSet(decoded)
  <2>1. y \in H264!ToSet(Left)
    BY <1>1, H264Facts, SetOfSeq
  <2>2. y \in H264!Picture
    BY <1>1, H264Facts
  <2>3. H264!ToSet(decoded) = H264!ToSet(Left) \cup reorder
    BY DEF H264Inv, AllAccounted
  <2>4. \A p \in reorder : H264!Before(y, p)
    BY <1>1 DEF H264Inv, HeldFollow
  <2>5. y[1] <= H264!Sequence
    BY <2>1, <2>3 DEF H264Inv, AllAccounted
  <2> QED
    BY <2>1, <2>2, <2>3, <2>4, <2>5
<1>3. H264!Before(x, y) /\ y[1] = H264!Sequence
  BY <1>1, <1>2, H264Assumption, DisplayOrder DEF H264!Before, H264!Picture
<1>4. Cardinality(reorder) = dpbFrames
  BY <1>1, <1>3 DEF H264Inv, FullWhenBumped
<1>5. reorder \cup {y} \subseteq later /\ y \notin reorder
  <2>1. ASSUME NEW p \in reorder PROVE p \in later /\ p # y
    BY <1>2, <1>3, H264Facts, DisplayOrder
  <2> QED
    BY <1>2, <1>3, <2>1
<1>6. Cardinality(reorder \cup {y}) = dpbFrames + 1
  BY <1>4, <1>5, H264Facts, FS_AddElement
<1>7. IsFiniteSet(later)
  <2>1. H264!ToSet(decoded) \subseteq H264!Picture
    BY H264Facts DEF H264!ToSet
  <2> QED
    BY <2>1, FinitelyManyPictures
<1>8. Cardinality(reorder \cup {y}) <= Cardinality(later) /\ Cardinality(later) \in Nat
  <2> HIDE DEF later
  <2> QED
    BY <1>5, <1>7, FS_Subset, FS_CardinalityType
<1>9. Cardinality(later) <= dpbFrames
  BY DEF H264!Cardinality, Cardinality
<1> QED
  BY <1>6, <1>8, <1>9, H264Facts

\* A decoded picture joins those held, what was bumped before having left.
LEMMA HoldJoins ==
    ASSUME H264Inv, NEW before, before \subseteq H264!Picture,
           NEW x \in H264!Picture, \A p \in before : p[1] = x[1],
           NEW room, NEW leaving \in Seq(H264!Picture), H264!Hold(x, before, room, leaving),
           delivered' = delivered
    PROVE  /\ Joins(delivered \o leaving, before, x, room, Left', reorder')
           /\ h264Queue' \in Seq(H264!Picture) /\ decoded' \in Seq(H264!Picture)
           /\ H264!ToSet(decoded') = H264!ToSet(decoded) \cup {x}
           /\ Len(decoded') = Len(decoded) + 1
           /\ H264!Sequence' = x[1]
<1>1. PICK all : all = before \cup {x}
  OBVIOUS
<1>2. /\ all \subseteq H264!Picture /\ all # {} /\ \A p \in all : p[1] = x[1]
      /\ delivered \in Seq(H264!Picture) /\ decoded \in Seq(H264!Picture)
  BY <1>1, H264Facts
<1>3. PICK low : low = H264!Lowest(all)
  OBVIOUS
<1>4. low \in all
  BY <1>2, <1>3, LowestIsFirst
<1>5. /\ Joins(delivered \o leaving, before, x, room, Left', reorder')
      /\ h264Queue' \in Seq(H264!Picture)
  <2>1. CASE H264!Overfull(all, room)
    <3>1. h264Queue' = Append(leaving, low) /\ reorder' = all \ {low}
      BY <1>1, <1>3, <2>1 DEF H264!Hold
    <3>2. low \in H264!Picture
      BY <1>2, <1>4
    <3>3. delivered \o Append(leaving, low) = Append(delivered \o leaving, low)
      BY <1>2, <3>2, ConcatAppend
    <3>4. Left' = Append(delivered \o leaving, low)
      BY <3>1, <3>3 DEF Left
    <3>5. h264Queue' \in Seq(H264!Picture)
      BY <3>1, <3>2
    <3> QED
      BY <1>1, <1>3, <2>1, <3>1, <3>4, <3>5 DEF Joins
  <2>2. CASE ~ H264!Overfull(all, room)
    <3>1. h264Queue' = leaving /\ reorder' = all
      BY <1>1, <2>2 DEF H264!Hold
    <3>2. Left' = delivered \o leaving
      BY <3>1 DEF Left
    <3> QED
      BY <1>1, <2>2, <3>1, <3>2 DEF Joins
  <2> QED
    BY <2>1, <2>2
<1>7. decoded' = Append(decoded, x)
  BY DEF H264!Hold
<1>8. H264!ToSet(decoded') = H264!ToSet(decoded) \cup {x}
  BY <1>2, <1>7, SetOfAppend
<1>9. /\ decoded' \in Seq(H264!Picture) /\ Len(decoded') = Len(decoded) + 1
      /\ decoded' # <<>> /\ decoded'[Len(decoded')] = x
  <2>1. PICK n \in Nat : n = Len(decoded) /\ decoded \in Seq(H264!Picture)
    BY <1>2
  <2>2. /\ Append(decoded, x) \in Seq(H264!Picture) /\ Len(Append(decoded, x)) = n + 1
        /\ Append(decoded, x)[n + 1] = x /\ Append(decoded, x) # <<>>
    BY <2>1
  <2> QED
    BY <1>7, <2>1, <2>2
<1>10. H264!Sequence' = x[1]
  BY <1>9 DEF H264!Sequence, H264!Last
<1> QED
  BY <1>5, <1>8, <1>9, <1>10

LEMMA UnitStep ==
    ASSUME H264Inv, NEW poc \in 1..MaxPoc, H264!Unit(poc)
    PROVE  H264Inv'
<1> DEFINE seq == H264!Sequence
           x == <<seq, poc>>
<1>1. /\ h264Pc = "units" /\ h264Pc' = h264Pc /\ ~ h264Eof /\ h264Eof' = h264Eof
      /\ dpbFrames' = dpbFrames /\ delivered' = delivered
      /\ Len(decoded) < MaxPictures /\ seq > 0 /\ x \notin H264!ToSet(decoded)
      /\ H264!Hold(x, reorder, dpbFrames, h264Queue)
      /\ H264!Cardinality({p \in H264!ToSet(decoded) : H264!Before(x, p)}) <= dpbFrames
  BY DEF H264!Unit, H264Inv, EndsEmpty
<1>2. /\ seq \in Nat /\ seq <= Len(decoded) /\ Len(decoded) \in Nat
      /\ H264!ToSet(decoded) = H264!ToSet(Left) \cup reorder
      /\ Len(Left) + Cardinality(reorder) = Len(decoded)
      /\ \A p \in H264!ToSet(decoded) : p[1] <= seq
      /\ HeldFollow(Left, reorder, seq)
      /\ FullWhenBumped(Left, reorder, seq, dpbFrames)
  BY <1>1, H264Facts DEF H264Inv, AllAccounted
<1>3. x \in H264!Picture /\ x[1] = seq
  BY <1>1, <1>2, H264Assumption DEF H264!Picture
<1>4. \A k \in 1..Len(Left) : H264!Before(Left[k], x)
  <2> HIDE DEF x
  <2> QED
    BY <1>1, <1>3, UnitFollows
<1>5. x \notin reorder
  BY <1>1, <1>2
<1> HIDE DEF x
<1>6. \A p \in reorder : p[1] = x[1]
  BY <1>2, <1>3 DEF HeldFollow
<1>7. /\ Joins(Left, reorder, x, dpbFrames, Left', reorder')
      /\ h264Queue' \in Seq(H264!Picture) /\ decoded' \in Seq(H264!Picture)
      /\ H264!ToSet(decoded') = H264!ToSet(decoded) \cup {x}
      /\ Len(decoded') = Len(decoded) + 1
      /\ H264!Sequence' = seq
  <2>1. reorder \subseteq H264!Picture /\ h264Queue \in Seq(H264!Picture)
    BY H264Facts
  <2>2. /\ Joins(delivered \o h264Queue, reorder, x, dpbFrames, Left', reorder')
        /\ h264Queue' \in Seq(H264!Picture) /\ decoded' \in Seq(H264!Picture)
        /\ H264!ToSet(decoded') = H264!ToSet(decoded) \cup {x}
        /\ Len(decoded') = Len(decoded) + 1
        /\ H264!Sequence' = x[1]
    BY <1>1, <1>3, <1>6, <2>1, HoldJoins
  <2> QED
    BY <1>3, <2>2 DEF Left
<1> HIDE DEF seq
<1>8. /\ Left' \in Seq(H264!Picture) /\ reorder' \subseteq H264!Picture
      /\ Cardinality(reorder') <= dpbFrames
      /\ HeldFollow(Left', reorder', seq) /\ FullWhenBumped(Left', reorder', seq, dpbFrames)
      /\ H264!ToSet(Left') \cup reorder' = H264!ToSet(Left) \cup reorder \cup {x}
      /\ Len(Left') + Cardinality(reorder') = Len(Left) + Cardinality(reorder) + 1
  <2>1. PICK l, h : l = Left' /\ h = reorder'
    OBVIOUS
  <2>2. Joins(Left, reorder, x, dpbFrames, l, h)
    BY <1>7, <2>1
  <2>3. /\ Left \in Seq(H264!Picture) /\ reorder \subseteq H264!Picture
        /\ dpbFrames \in Nat \ {0} /\ Cardinality(reorder) <= dpbFrames
    BY H264Facts
  <2>4. /\ l \in Seq(H264!Picture) /\ h \subseteq H264!Picture
        /\ Cardinality(h) <= dpbFrames
        /\ HeldFollow(l, h, seq) /\ FullWhenBumped(l, h, seq, dpbFrames)
        /\ H264!ToSet(l) \cup h = H264!ToSet(Left) \cup reorder \cup {x}
        /\ Len(l) + Cardinality(h) = Len(Left) + Cardinality(reorder) + 1
    <3> USE <1>2, <1>3, <1>4, <1>5, <2>2, <2>3
    <3> QED
      BY JoiningKeepsOrder
  <2> QED
    BY <2>1, <2>4
<1>9. AllAccounted'
  BY <1>2, <1>3, <1>7, <1>8 DEF AllAccounted
<1>10. H264!TypeOK'
  BY <1>1, <1>7, <1>8 DEF H264Inv, H264!TypeOK, H264!Cardinality, Cardinality
<1>11. EndsEmpty'
  BY <1>1 DEF EndsEmpty, H264Inv
<1> QED
  BY <1>1, <1>7, <1>8, <1>9, <1>10, <1>11 DEF H264Inv

\* What drain() puts out, after what has left: all that was decoded, in order.
LEMMA DrainedRises ==
    ASSUME H264Inv
    PROVE  /\ H264!Drained \in Seq(H264!Picture)
           /\ delivered \o H264!Drained \in Seq(H264!Picture)
           /\ Rises(delivered \o H264!Drained)
           /\ H264!ToSet(delivered \o H264!Drained) = H264!ToSet(decoded)
           /\ Len(delivered \o H264!Drained) = Len(decoded)
<1>1. PICK r : r = H264!ByPoc(reorder)
  OBVIOUS
<1>2. PICK seq : seq = H264!Sequence
  OBVIOUS
<1>3. /\ reorder \subseteq H264!Picture /\ \A p \in reorder : p[1] = seq
      /\ Rises(Left) /\ Left \in Seq(H264!Picture)
      /\ \A p \in reorder : \A k \in 1..Len(Left) : H264!Before(Left[k], p)
      /\ delivered \in Seq(H264!Picture) /\ h264Queue \in Seq(H264!Picture)
  BY <1>2, H264Facts DEF H264Inv, HeldFollow
<1>4. /\ r \in Seq(H264!Picture) /\ Len(r) = Cardinality(reorder) /\ Len(r) \in Nat
      /\ H264!ToSet(r) = reorder
      /\ Rises(r)
  BY <1>1, <1>3, ByPocRises
<1>5. H264!Drained = h264Queue \o r /\ h264Queue \o r \in Seq(H264!Picture)
  BY <1>1, <1>3, <1>4 DEF H264!Drained
<1>6. delivered \o H264!Drained = Left \o r
  <2>1. (delivered \o h264Queue) \o r = delivered \o (h264Queue \o r)
    BY <1>3, <1>4, ConcatAssociative, SMTT(30)
  <2> QED
    BY <1>5, <2>1 DEF Left
<1>7. Left \o r \in Seq(H264!Picture) /\ Len(Left \o r) = Len(Left) + Len(r)
  BY <1>3, <1>4, ConcatParts
<1>8. H264!ToSet(Left \o r) = H264!ToSet(decoded)
  BY <1>3, <1>4, SetOfConcat DEF H264Inv, AllAccounted
<1>9. Rises(Left \o r)
  BY <1>3, <1>4, RisesOn
<1>10. Len(Left \o r) = Len(decoded)
  BY <1>4, <1>7 DEF H264Inv, AllAccounted
<1> QED
  BY <1>5, <1>6, <1>7, <1>8, <1>9, <1>10

LEMMA IdrStep ==
    ASSUME H264Inv, NEW room \in 1..MaxDpbFrames, H264!IdrUnit(room)
    PROVE  H264Inv'
<1> DEFINE seq == H264!Sequence + 1
           x == <<seq, 0>>
           left == delivered \o H264!Drained
<1>1. /\ h264Pc = "units" /\ h264Pc' = h264Pc /\ ~ h264Eof /\ h264Eof' = h264Eof
      /\ dpbFrames' = room /\ delivered' = delivered
      /\ Len(decoded) < MaxPictures
      /\ H264!Hold(x, {}, room, H264!Drained)
  BY DEF H264!IdrUnit, H264Inv, EndsEmpty
<1>2. /\ left \in Seq(H264!Picture) /\ Rises(left)
      /\ H264!ToSet(left) = H264!ToSet(decoded) /\ Len(left) = Len(decoded)
      /\ H264!Drained \in Seq(H264!Picture)
  BY DrainedRises
<1>3. /\ seq \in Nat /\ seq \in 1..(Len(decoded) + 1) /\ Len(decoded) \in Nat
      /\ \A p \in H264!ToSet(decoded) : p \in H264!Picture /\ p[1] < seq
  <2>1. H264!Sequence \in 0..Len(decoded) /\ Len(decoded) \in Nat
    BY H264Facts DEF H264Inv, AllAccounted
  <2>2. \A p \in H264!ToSet(decoded) : p \in H264!Picture /\ p[1] <= H264!Sequence
    BY H264Facts DEF H264Inv, AllAccounted, H264!ToSet
  <2>3. \A p \in H264!Picture : p[1] \in Nat
    BY H264Assumption DEF H264!Picture
  <2> QED
    BY <2>1, <2>2, <2>3
<1>4. x \in H264!Picture /\ x[1] = seq /\ room \in Nat \ {0}
  BY <1>1, <1>3, H264Assumption DEF H264!Picture
<1> HIDE DEF x, seq, left
<1>5. \A k \in 1..Len(left) : left[k] \in H264!ToSet(decoded)
  BY <1>2, SetOfSeq
<1>6. \A k \in 1..Len(left) : H264!Before(left[k], x) /\ left[k][1] # seq
  BY <1>3, <1>4, <1>5 DEF H264!Before, H264!Picture
<1>7. /\ HeldFollow(left, {}, seq) /\ FullWhenBumped(left, {}, seq, room)
      /\ Cardinality({}) = 0
  BY <1>2, <1>6, FS_EmptySet DEF HeldFollow, FullWhenBumped
<1>8. /\ Joins(left, {}, x, room, Left', reorder')
      /\ h264Queue' \in Seq(H264!Picture) /\ decoded' \in Seq(H264!Picture)
      /\ H264!ToSet(decoded') = H264!ToSet(decoded) \cup {x}
      /\ Len(decoded') = Len(decoded) + 1
      /\ H264!Sequence' = seq
  <2>1. /\ Joins(delivered \o H264!Drained, {}, x, room, Left', reorder')
        /\ h264Queue' \in Seq(H264!Picture) /\ decoded' \in Seq(H264!Picture)
        /\ H264!ToSet(decoded') = H264!ToSet(decoded) \cup {x}
        /\ Len(decoded') = Len(decoded) + 1
        /\ H264!Sequence' = x[1]
    BY <1>1, <1>2, <1>4, HoldJoins
  <2> QED
    BY <1>4, <2>1 DEF left
<1>9. /\ Left' \in Seq(H264!Picture) /\ reorder' \subseteq H264!Picture
      /\ Cardinality(reorder') <= room
      /\ HeldFollow(Left', reorder', seq) /\ FullWhenBumped(Left', reorder', seq, room)
      /\ H264!ToSet(Left') \cup reorder' = H264!ToSet(left) \cup {} \cup {x}
      /\ Len(Left') + Cardinality(reorder') = Len(left) + Cardinality({}) + 1
  <2>1. PICK l, h : l = Left' /\ h = reorder'
    OBVIOUS
  <2>2. Joins(left, {}, x, room, l, h)
    BY <1>8, <2>1
  <2>3. Cardinality({}) <= room
    BY <1>4, <1>7
  <2>4. /\ l \in Seq(H264!Picture) /\ h \subseteq H264!Picture
        /\ Cardinality(h) <= room
        /\ HeldFollow(l, h, seq) /\ FullWhenBumped(l, h, seq, room)
        /\ H264!ToSet(l) \cup h = H264!ToSet(left) \cup {} \cup {x}
        /\ Len(l) + Cardinality(h) = Len(left) + Cardinality({}) + 1
    <3> USE <1>2, <1>4, <1>6, <1>7, <2>2, <2>3
    <3> QED
      BY JoiningKeepsOrder
  <2> QED
    BY <2>1, <2>4
<1>10. AllAccounted'
  <2>1. \A p \in H264!ToSet(decoded') : p[1] <= seq
    <3>1. \A p \in H264!ToSet(decoded) : p[1] \in Nat /\ p[1] < seq
      BY <1>3, H264Assumption DEF H264!Picture
    <3> QED
      BY <1>3, <1>4, <1>8, <3>1
  <2>2. H264!ToSet(decoded') = H264!ToSet(Left') \cup reorder'
    BY <1>2, <1>8, <1>9
  <2>3. Len(Left') + Cardinality(reorder') = Len(decoded')
    BY <1>2, <1>3, <1>7, <1>8, <1>9
  <2> QED
    BY <1>3, <1>8, <2>1, <2>2, <2>3 DEF AllAccounted
<1>11. H264!TypeOK'
  BY <1>1, <1>8, <1>9 DEF H264Inv, H264!TypeOK, H264!Cardinality, Cardinality
<1>12. EndsEmpty'
  BY <1>1 DEF EndsEmpty, H264Inv
<1> QED
  BY <1>1, <1>8, <1>9, <1>10, <1>11, <1>12 DEF H264Inv

\* A step that moves no picture in or out of the buffer.
LEMMA NoneMoves ==
    ASSUME H264Inv, Left' = Left, UNCHANGED <<dpbFrames, reorder, decoded, h264Eof>>,
           h264Pc' \in {"demux", "units", "pull", "done"},
           h264Queue' \in Seq(H264!Picture), delivered' \in Seq(H264!Picture),
           EndsEmpty'
    PROVE  H264Inv'
<1>1. H264!Sequence' = H264!Sequence
  BY DEF H264!Sequence
<1>2. H264!TypeOK'
  BY DEF H264Inv, H264!TypeOK
<1>3. AllAccounted'
  BY <1>1 DEF H264Inv, AllAccounted
<1> QED
  BY <1>1, <1>2, <1>3 DEF H264Inv

LEMMA FlushStep ==
    ASSUME H264Inv, H264!Flush
    PROVE  H264Inv'
<1>1. /\ h264Pc' = "pull" /\ h264Eof' = TRUE /\ reorder' = {} /\ h264Queue' = H264!Drained
      /\ delivered' = delivered /\ decoded' = decoded /\ dpbFrames' = dpbFrames
  BY DEF H264!Flush
<1>2. Left' = delivered \o H264!Drained
  BY <1>1 DEF Left
<1>3. /\ Left' \in Seq(H264!Picture) /\ Rises(Left')
      /\ H264!ToSet(Left') = H264!ToSet(decoded) /\ Len(Left') = Len(decoded)
      /\ h264Queue' \in Seq(H264!Picture)
  BY <1>1, <1>2, DrainedRises
<1>4. H264!Sequence' = H264!Sequence
  BY <1>1 DEF H264!Sequence
<1>5. Cardinality({}) = 0 /\ Cardinality({}) <= dpbFrames
  BY FS_EmptySet, H264Facts
<1>6. H264!TypeOK'
  BY <1>1, <1>3, <1>5 DEF H264Inv, H264!TypeOK, H264!Cardinality, Cardinality
<1>7. HeldFollow(Left', reorder', H264!Sequence')
  BY <1>1, <1>3 DEF HeldFollow
<1>8. AllAccounted'
  <2>1. Len(Left') + Cardinality(reorder') = Len(decoded')
    BY <1>1, <1>3, <1>5, H264Facts
  <2> QED
    BY <1>1, <1>3, <1>4, <2>1 DEF H264Inv, AllAccounted
<1>9. EndsEmpty'
  BY <1>1 DEF EndsEmpty
<1> QED
  BY <1>1, <1>6, <1>7, <1>8, <1>9 DEF H264Inv

LEMMA H264Step ==
    ASSUME H264Inv, H264!Next
    PROVE  H264Inv'
<1>1. CASE H264!SendPacket
  <2>1. Left' = Left /\ EndsEmpty'
    BY <1>1 DEF H264!SendPacket, Left, H264Inv, EndsEmpty
  <2> QED
    BY <1>1, <2>1, H264Facts, NoneMoves DEF H264!SendPacket
<1>2. CASE \E room \in 1..MaxDpbFrames : H264!IdrUnit(room)
  BY <1>2, IdrStep
<1>3. CASE \E poc \in 1..MaxPoc : H264!Unit(poc)
  BY <1>3, UnitStep
<1>4. CASE H264!UnitsDone
  <2>1. Left' = Left /\ EndsEmpty'
    BY <1>4 DEF H264!UnitsDone, Left, H264Inv, EndsEmpty
  <2> QED
    BY <1>4, <2>1, H264Facts, NoneMoves DEF H264!UnitsDone
<1>5. CASE H264!Deliver
  <2>1. /\ h264Queue # <<>> /\ delivered' = Append(delivered, Head(h264Queue))
        /\ h264Queue' = Tail(h264Queue) /\ h264Pc = "pull" /\ h264Pc' = h264Pc
        /\ UNCHANGED <<dpbFrames, reorder, decoded, h264Eof>>
    BY <1>5 DEF H264!Deliver
  <2>2. delivered \in Seq(H264!Picture) /\ h264Queue \in Seq(H264!Picture)
    BY H264Facts
  <2>3. Append(delivered, Head(h264Queue)) \o Tail(h264Queue) = delivered \o h264Queue
    BY <2>1, <2>2, HeadMoves
  <2>4. Left' = Left
    BY <2>1, <2>3 DEF Left
  <2>5. h264Queue' \in Seq(H264!Picture) /\ delivered' \in Seq(H264!Picture)
    BY <2>1, <2>2
  <2>6. EndsEmpty'
    BY <2>1 DEF H264Inv, EndsEmpty
  <2> QED
    BY <2>1, <2>4, <2>5, <2>6, NoneMoves
<1>6. CASE H264!Hungry
  <2>1. Left' = Left /\ EndsEmpty'
    BY <1>6 DEF H264!Hungry, Left, H264Inv, EndsEmpty
  <2> QED
    BY <1>6, <2>1, H264Facts, NoneMoves DEF H264!Hungry
<1>7. CASE H264!Flush
  BY <1>7, FlushStep
<1> QED
  BY <1>1, <1>2, <1>3, <1>4, <1>5, <1>6, <1>7 DEF H264!Next

LEMMA H264InvHolds == Spec => []H264Inv
<1>1. Init => H264Inv
  <2> SUFFICES ASSUME Init PROVE H264Inv
    OBVIOUS
  <2>1. /\ h264Pc = "demux" /\ dpbFrames = MaxDpbFrames /\ reorder = {}
        /\ h264Queue = <<>> /\ h264Eof = FALSE /\ decoded = <<>> /\ delivered = <<>>
    BY DEF Init, H264!Init
  <2>2. Left = <<>> /\ Len(Left) = 0 /\ H264!Sequence = 0 /\ Len(decoded) = 0
    BY <2>1 DEF Left, H264!Sequence
  <2>3. Cardinality(reorder) = 0
    BY <2>1, FS_EmptySet
  <2>4. \A S : <<>> \in Seq(S)
    OBVIOUS
  <2>5. H264!TypeOK
    <3>1. dpbFrames \in 1..MaxDpbFrames /\ Cardinality(reorder) <= dpbFrames
      BY <2>1, <2>3, H264Assumption
    <3>2. H264!Cardinality(reorder) = Cardinality(reorder)
      BY DEF H264!Cardinality, Cardinality
    <3>3. /\ h264Queue \in Seq(H264!Picture) /\ delivered \in Seq(H264!Picture)
          /\ decoded \in Seq(H264!Picture)
      BY <2>1, <2>4
    <3> QED
      BY <2>1, <3>1, <3>2, <3>3 DEF H264!TypeOK
  <2>6. HeldFollow(Left, reorder, H264!Sequence)
    BY <2>1, <2>2 DEF HeldFollow, Rises
  <2>7. AllAccounted
    BY <2>1, <2>2, <2>3 DEF AllAccounted, H264!ToSet
  <2>8. FullWhenBumped(Left, reorder, H264!Sequence, dpbFrames)
    BY <2>2 DEF FullWhenBumped
  <2>9. EndsEmpty
    BY <2>1 DEF EndsEmpty
  <2> QED
    BY <2>5, <2>6, <2>7, <2>8, <2>9 DEF H264Inv
<1>2. H264Inv /\ [Next]_vars => H264Inv'
  <2> SUFFICES ASSUME H264Inv, [Next]_vars PROVE H264Inv'
    OBVIOUS
  <2>1. CASE H264!Next
    BY <2>1, H264Step
  <2>2. CASE UNCHANGED h264Vars
    <3>1. UNCHANGED <<h264Pc, dpbFrames, reorder, h264Queue, h264Eof, decoded, delivered>>
      BY <2>2 DEF h264Vars
    <3>2. Left' = Left /\ EndsEmpty'
      BY <3>1 DEF Left, H264Inv, EndsEmpty
    <3> QED
      BY <3>1, <3>2, H264Facts, NoneMoves DEF H264Inv, H264!TypeOK
  <2> QED
    BY <2>1, <2>2 DEF Next, vars
<1> QED
  BY <1>1, <1>2, PTL DEF Spec

LEMMA H264BufferOrders == H264Inv => H264!LeavesInDisplayOrder
BY DEF H264Inv, HeldFollow, Rises, Left, H264!LeavesInDisplayOrder

LEMMA H264BufferEmpties == H264Inv => H264!EveryPictureLeaves
<1> SUFFICES ASSUME H264Inv, h264Pc = "done"
             PROVE  /\ H264!ToSet(delivered) = H264!ToSet(decoded)
                    /\ Len(delivered) = Len(decoded)
  BY DEF H264!EveryPictureLeaves
<1>1. h264Queue = <<>> /\ reorder = {}
  BY DEF H264Inv, EndsEmpty
<1>2. Left = delivered
  BY <1>1, H264Facts DEF Left
<1>3. Cardinality(reorder) = 0 /\ Len(delivered) \in Nat
  BY <1>1, FS_EmptySet, H264Facts
<1> QED
  BY <1>1, <1>2, <1>3 DEF H264Inv, AllAccounted

\* The decoder of another codec stays as it was made.
H265Idle == codec = "h264" => output = <<>> /\ ~ eof

LEMMA H265IdleHolds == Spec => []H265Idle
<1>1. Init => H265Idle
  BY DEF Init, H265!Init, H265Idle
<1>2. H265Idle /\ [Next]_vars => H265Idle'
  BY DEF H265Idle, Next, vars, h265Vars
<1> QED
  BY <1>1, <1>2, PTL DEF Spec

\* H.264: whatever the size of the picture buffer of each sequence, no picture of a
\* conforming stream leaves before one that is displayed earlier.
THEOREM H264InDisplayOrder == Spec => [](codec = "h264" => LeavesInDisplayOrder)
<1>1. H265Idle /\ H264Inv => (codec = "h264" => LeavesInDisplayOrder)
  <2> SUFFICES ASSUME H265Idle, H264Inv, codec = "h264" PROVE LeavesInDisplayOrder
    OBVIOUS
  <2>1. output = <<>> /\ DOMAIN output = {}
    BY DEF H265Idle
  <2>2. H265!LeavesInDisplayOrder
    BY <2>1 DEF H265!LeavesInDisplayOrder
  <2> QED
    BY <2>2, H264BufferOrders DEF LeavesInDisplayOrder
<1> QED
  BY <1>1, H264InvHolds, H265IdleHolds, PTL

\* H.264: at the end of the stream every picture decoded has left, once.
THEOREM H264EveryPictureLeaves == Spec => [](codec = "h264" => EveryPictureLeaves)
<1>1. H265Idle /\ H264Inv => (codec = "h264" => EveryPictureLeaves)
  <2> SUFFICES ASSUME H265Idle, H264Inv, codec = "h264" PROVE EveryPictureLeaves
    OBVIOUS
  <2>1. H265!EveryPictureLeaves
    BY DEF H265Idle, H265!EveryPictureLeaves
  <2> QED
    BY <2>1, H264BufferEmpties DEF EveryPictureLeaves
<1> QED
  BY <1>1, H264InvHolds, H265IdleHolds, PTL

=============================================================================
