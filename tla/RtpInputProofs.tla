---------------------------- MODULE RtpInputProofs ----------------------------
(***************************************************************************)
(* What comes out of an rtp:// input, for any sender, any stream it may    *)
(* send, any losses, repeats and reordering, any sequence-number space and *)
(* any limits.  The inductive invariant InputInv has four parts.           *)
(*   NetInv    what the network has done, and what the sequence numbers    *)
(*             tell of it;                                                 *)
(*   H264Inv   a NAL unit that arrives in one piece is assembled, whatever *)
(*             came before;                                                *)
(*   WholeInv  on an orderly network nothing else is, and nothing twice;   *)
(*   JpegInv   the same two for JPEG frames, and their tables.             *)
(*                                                                         *)
(* Last, the clock: it unwraps correctly for every range, provided the     *)
(* timestamp of the first frame does not come up again and no frame was    *)
(* sent before the wrap that precedes it.  Its inductive invariant says    *)
(* that pts_of's two counters are quotient and remainder of the sender's   *)
(* clock.                                                                  *)
(***************************************************************************)
EXTENDS RtpInput, SequenceFacts, FunctionTheorems

-----------------------------------------------------------------------------
(* The network *)

Stream(s) == Senders[s].stream
Sent(s) == 1..Len(Stream(s))

\* The packet that arrived last.
Latest == arrived[Len(arrived)]

NetTypeOK(s) ==
    /\ left \in [Sent(s) -> Nat]
    /\ arrived \in Seq(Sent(s))
    /\ lost \in Nat
    /\ lastSeq = IF arrived = <<>> THEN None ELSE H264(s)!SeqOf(Latest)

\* On an orderly network what is up to the latest is over.
InOrderSoFar(s) ==
    /\ \A i \in Sent(s) : left[i] <= 1
    /\ \A j, k \in 1..Len(arrived) : j < k => arrived[j] < arrived[k]
    /\ \A k \in 1..Len(arrived) : \A j \in 1..arrived[k] : left[j] = 0

\* The numbers of two packets tell how many are missing between them.
BurstsSoFar(s) ==
    \A i, j \in Sent(s) : j - i > SeqSpace \div 2 =>
        \E k \in (i + 1)..(j - 1) : left[k] > 0 \/ k \in H264(s)!ArrivedSet

Orders(s) == Orderly(s) =>
    InOrderSoFar(s) /\ BurstsSoFar(s) /\ H264(s)!LostIsMissing

NetInv(s) == NetTypeOK(s) /\ Orders(s)

-----------------------------------------------------------------------------
(* H.264 *)

Nal(s) == Seq(Sent(s))
Recs(s) == [ts : Nat, nals : Seq(Nal(s))]

H264TypeOK(s) ==
    /\ au \in Seq(Nal(s)) /\ auTs \in Nat /\ haveAu \in BOOLEAN
    /\ frag \in Nal(s) /\ fragOk \in BOOLEAN
    /\ records \in Seq(Recs(s))
    /\ haveAu \/ au = <<>>
    /\ reader = "eof" => ~haveAu

\* The last m of the packets row[1..l] are the first m of a fragmented NAL unit.
BegunAt(s, row, l, m) ==
    \A n \in 1..m : /\ row[l - m + n] = row[l - m + 1] + n - 1
                    /\ Stream(s)[row[l - m + n]].part = IF n = 1 THEN "start" ELSE "mid"

Begun(s, m) == BegunAt(s, arrived, Len(arrived), m)

\* Such a NAL unit is in the fragments.
BegunIsHeld(s) ==
    \A m \in 1..Len(arrived) : Begun(s, m) =>
        /\ fragOk /\ Len(frag) = m
        /\ \A n \in 1..m : frag[n] = arrived[Len(arrived) - m + n]

\* What has come out of a frame or is about to.
Pending(s, ts) ==
    H264(s)!Emitted(ts) \cup IF haveAu /\ auTs = ts THEN {au[n] : n \in 1..Len(au)} ELSE {}

\* The unit under assembly has no more NAL units than packets completed some.
UnitCounted(s) == haveAu => Len(au) <= H264(s)!Completions(auTs)

UnitsComeOut(s) ==
    \A nal \in H264(s)!SenderNals :
        LET ts == Stream(s)[nal[1]].ts
        IN  H264(s)!RunOf(nal) /\ H264(s)!Completions(ts) <= MaxNals => nal \in Pending(s, ts)

H264Inv(s) == H264TypeOK(s) /\ BegunIsHeld(s) /\ UnitCounted(s) /\ UnitsComeOut(s)

\* On an orderly network the fragments in progress are those of one NAL unit, up
\* to the latest packet.
FragmentIsWhole(s) ==
    fragOk => /\ frag # <<>> /\ Len(frag) <= Len(arrived)
              /\ Begun(s, Len(frag))
              /\ \A n \in 1..Len(frag) : frag[n] = arrived[Len(arrived) - Len(frag) + n]

\* NAL units of the timestamp, in the order sent.
WholeNals(s, nals, ts) ==
    /\ \A n \in 1..Len(nals) : nals[n] \in H264(s)!ArrivedNals(ts)
    /\ \A m, n \in 1..Len(nals) : m < n => nals[m][1] < nals[n][1]

UnitIsWhole(s) == WholeNals(s, au, auTs)
AllWhole(s, rs) == \A k \in 1..Len(rs) :
    rs[k].nals # <<>> /\ WholeNals(s, rs[k].nals, rs[k].ts)
RecordsAreWhole(s) == AllWhole(s, records)

\* Packet i, of the timestamp, ends its frame.
Ends(s, i, ts) ==
    /\ Stream(s)[i].ts = ts
    /\ Stream(s)[i].marker /\ Stream(s)[i].part \notin {"short", "empty"}

\* The unit under assembly is that of the latest packet; a record of its
\* timestamp was closed by the marker.
UnitIsLatest(s) ==
    /\ haveAu => arrived # <<>> /\ auTs = Stream(s)[Latest].ts
    /\ haveAu /\ au # <<>> => \A k \in 1..Len(records) : records[k].ts # auTs

RecordsAreOver(s) == \A k \in 1..Len(records) :
    records[k].ts = Stream(s)[Latest].ts =>
        \E i \in H264(s)!ArrivedSet : Ends(s, i, records[k].ts)

AllInOrder(rs) ==
    \A j, k \in 1..Len(rs) : j < k =>
       rs[j].ts # rs[k].ts /\ rs[j].nals[1][1] < rs[k].nals[1][1]
RecordsInOrder == AllInOrder(records)

NoneIsLost(s) ==
    \A ts \in {Stream(s)[i].ts : i \in Sent(s)} :
        Cardinality(H264(s)!ArrivedNals(ts)) <= MaxNals =>
            H264(s)!ArrivedNals(ts) \subseteq Pending(s, ts)

WholeInv(s) ==
    /\ FragmentIsWhole(s) /\ UnitIsWhole(s) /\ RecordsAreWhole(s)
    /\ UnitIsLatest(s) /\ (reader # "eof" => RecordsAreOver(s))
    /\ RecordsInOrder /\ NoneIsLost(s)

-----------------------------------------------------------------------------
(* JPEG *)

JpegRecs(s) == [ts : Nat, scan : Nal(s), tables : Sent(s) \cup {None}]

JpegTypeOK(s) ==
    /\ scan \in Nal(s) /\ inFrame \in BOOLEAN /\ frameTs \in Nat
    /\ tables \in Sent(s) \cup {None}
    /\ dropped \in Nat /\ starts \in Nat
    /\ records \in Seq(JpegRecs(s))

\* pieces are the packets of one frame from its start on, under its timestamp.
FrameSoFar(s, pieces, ts) ==
    /\ pieces # <<>>
    /\ \A n \in 1..Len(pieces) :
          /\ pieces[n] = pieces[1] + n - 1
          /\ Stream(s)[pieces[n]].ts = ts
          /\ Stream(s)[pieces[n]].off = n - 1
          /\ n < Len(pieces) => ~Stream(s)[pieces[n]].marker

ScanIsFrame(s) ==
    inFrame => FrameSoFar(s, scan, frameTs) /\ \A n \in 1..Len(scan) : ~Stream(s)[scan[n]].marker

JpegRecordsWhole(s) == \A k \in 1..Len(records) :
    /\ FrameSoFar(s, records[k].scan, records[k].ts)
    /\ Stream(s)[records[k].scan[Len(records[k].scan)]].marker

\* The tables are those of the latest start that brought some.
Brings(s, i) == Stream(s)[i].shape \in {"new", "std"}
TablesAreLatest(s) ==
    IF tables = None THEN \A i \in H264(s)!ArrivedSet : ~Brings(s, i)
    ELSE \E k \in 1..Len(arrived) :
            /\ tables = arrived[k] /\ Brings(s, tables)
            /\ \A j \in (k + 1)..Len(arrived) : ~Brings(s, arrived[j])

\* On a network that keeps the order, the frame that starts at i has tables, those
\* it was coded with if they arrived.
HasTables(s, i, quant) == H264(s)!InOrder =>
    /\ \E j \in 1..i : Brings(s, j)
    /\ Jpeg(s)!TablesOf(i) \in H264(s)!ArrivedSet => quant = Jpeg(s)!TablesOf(i)

\* The frame that starts at i is under assembly, or written, with the tables.
HasStarted(i, quant) ==
    \/ inFrame /\ scan[1] = i /\ tables = quant
    \/ \E k \in 1..Len(records) : records[k].scan[1] = i /\ records[k].tables = quant

TablesFit(s) == \A i \in Sent(s), quant \in Sent(s) \cup {None} :
    HasStarted(i, quant) => i \in H264(s)!ArrivedSet /\ HasTables(s, i, quant)

\* The last m packets that arrived are the first m of a frame.
Opened(s, m) ==
    LET first == arrived[Len(arrived) - m + 1]
    IN  /\ Brings(s, first) /\ m <= MaxScan
        /\ \A n \in 1..m : LET i == arrived[Len(arrived) - m + n] IN
              /\ i = first + n - 1 /\ Stream(s)[i].ts = Stream(s)[first].ts
              /\ Stream(s)[i].shape # "odd" /\ ~Stream(s)[i].marker

OpenedIsHeld(s) ==
    \A m \in 1..Len(arrived) : Opened(s, m) =>
        /\ inFrame /\ Len(scan) = m /\ frameTs = Stream(s)[Latest].ts
        /\ \A n \in 1..m : scan[n] = arrived[Len(arrived) - m + n]

JpegInv(s) ==
    /\ JpegTypeOK(s) /\ ScanIsFrame(s) /\ JpegRecordsWhole(s)
    /\ TablesAreLatest(s) /\ TablesFit(s)
    /\ OpenedIsHeld(s) /\ Jpeg(s)!Resynchronises /\ Jpeg(s)!FramesAccountedFor

-----------------------------------------------------------------------------

\* The inductive invariant; from any other sender no packet is taken.
InputInv == \A s \in DOMAIN Senders : s = sender =>
    /\ Sends("h264") => NetInv(s) /\ H264Inv(s) /\ (Orderly(s) => WholeInv(s))
    /\ Sends("jpeg") => NetInv(s) /\ JpegInv(s)
    /\ ~Sends("h264") /\ ~Sends("jpeg") => arrived = <<>> /\ lost = 0

-----------------------------------------------------------------------------
(* Sequence numbers *)

LEMMA ProductGrows ==
    ASSUME NEW M \in Nat \ {0}, NEW d \in Nat \ {0}
    PROVE  d * M >= M
<1>1. PICK k \in Nat : d = k + 1
  <2>1. d - 1 \in Nat /\ d = (d - 1) + 1
    OBVIOUS
  <2> QED BY <2>1
<1>2. (k + 1) * M = M + k * M /\ k * M \in Nat
  BY SMT
<1> QED BY <1>1, <1>2

LEMMA ModUnique ==
    ASSUME NEW M \in Nat \ {0}, NEW q \in Int, NEW r \in 0..(M - 1)
    PROVE  (q * M + r) % M = r
<1>1. PICK x \in Int : x = q * M + r
  OBVIOUS
<1>2. PICK p \in Int, t \in 0..(M - 1) : p = x \div M /\ t = x % M
  BY SMT
<1>3. x = p * M + t
  BY <1>2, SMT
<1>4. (q - p) * M = t - r /\ (p - q) * M = r - t
  BY <1>1, <1>3, SMT
<1>5. CASE q - p >= 1
  <2>1. q - p \in Nat \ {0}
    BY <1>5
  <2>2. (q - p) * M >= M
    BY <2>1, ProductGrows
  <2> QED BY <2>2, <1>4
<1>6. CASE p - q >= 1
  <2>1. p - q \in Nat \ {0}
    BY <1>6
  <2>2. (p - q) * M >= M
    BY <2>1, ProductGrows
  <2> QED BY <2>2, <1>4
<1>7. CASE p = q
  BY <1>1, <1>2, <1>3, <1>7
<1> QED BY <1>5, <1>6, <1>7

LEMMA ModDifference ==
    ASSUME NEW M \in Nat \ {0}, NEW a \in Nat, NEW b \in Nat, a - b - 1 \in 0..(M - 1)
    PROVE  /\ a % M \in Int /\ b % M \in Int
           /\ ((a % M) - (b % M) - 1) % M = a - b - 1
<1>1. PICK p \in Int, r \in 0..(M - 1), q \in Int, t \in 0..(M - 1) :
          p = a \div M /\ r = a % M /\ q = b \div M /\ t = b % M
  BY SMT
<1>2. a = p * M + r /\ b = q * M + t
  BY <1>1, SMT
<1>3. r - t - 1 = (q - p) * M + (a - b - 1)
  BY <1>2, SMT
<1>4. ((q - p) * M + (a - b - 1)) % M = a - b - 1
  BY ModUnique
<1>5. (r - t - 1) % M = a - b - 1
  BY <1>3, <1>4
<1> QED BY <1>1, <1>5

-----------------------------------------------------------------------------
(* The sender *)

LEMMA SenderTyped ==
    ASSUME NEW s \in DOMAIN Senders, s = sender, Sends("h264") \/ Sends("jpeg")
    PROVE  /\ Senders[s].payload \in {"h264", "jpeg"}
           /\ Stream(s) \in Seq(PacketShapes(Senders[s].payload)) /\ Len(Stream(s)) \in Nat
           /\ \A i \in Sent(s) : Stream(s)[i] \in PacketShapes(Senders[s].payload)
           /\ Senders[s].payload = "h264" => H264Stream(Stream(s))
           /\ Senders[s].payload = "jpeg" => JpegStream(Stream(s))
           /\ SeqSpace \in Nat \ {0, 1} /\ FirstSeq \in 0..(SeqSpace - 1)
           /\ MaxNals \in Nat \ {0} /\ MaxScan \in Nat \ {0} /\ None \notin Int
<1>1. Senders[s].payload \in {"h264", "jpeg"}
  BY DEF Sends
<1>2. Stream(s) \in Seq(PacketShapes(Senders[s].payload))
  BY <1>1, SenderAssumption DEF Stream
<1>3. /\ Senders[s].payload = "h264" => H264Stream(Stream(s))
      /\ Senders[s].payload = "jpeg" => JpegStream(Stream(s))
  BY SenderAssumption DEF Stream
<1>4. Len(Stream(s)) \in Nat /\ \A i \in Sent(s) : Stream(s)[i] \in PacketShapes(Senders[s].payload)
  BY <1>2 DEF Sent
<1> QED BY <1>1, <1>2, <1>3, <1>4, SenderAssumption, RangeAssumption

\* The numbers of two packets tell how many lie between them, fewer than half of
\* all numbers.
LEMMA GapCounts ==
    ASSUME NEW s \in DOMAIN Senders, NEW l \in Nat, NEW i \in Nat, 0 < l, l < i,
           i - l <= SeqSpace \div 2, lastSeq = H264(s)!SeqOf(l)
    PROVE  H264(s)!Gap(H264(s)!SeqOf(i)) = i - l - 1
<1>1. SeqSpace \in Nat \ {0} /\ FirstSeq \in Nat /\ None \notin Int
  BY SenderAssumption, RangeAssumption
<1>2. PICK h \in Nat : h = SeqSpace \div 2 /\ 2 * h <= SeqSpace
  BY <1>1, SMT
<1>3. PICK a \in Nat, b \in Nat : a = FirstSeq + i - 1 /\ b = FirstSeq + l - 1
  BY <1>1
<1>4. a - b - 1 \in 0..(SeqSpace - 1) /\ a - b - 1 = i - l - 1 /\ a - b - 1 < h
  BY <1>1, <1>2, <1>3
<1>5. /\ a % SeqSpace \in Int /\ b % SeqSpace \in Int
      /\ ((a % SeqSpace) - (b % SeqSpace) - 1) % SeqSpace = a - b - 1
  BY <1>1, <1>4, ModDifference
<1>6. H264(s)!SeqOf(i) = a % SeqSpace /\ H264(s)!SeqOf(l) = b % SeqSpace
  BY <1>3 DEF H264!SeqOf
<1>7. lastSeq # None
  BY <1>1, <1>5, <1>6
<1>8. (H264(s)!SeqOf(i) - lastSeq - 1) % SeqSpace = i - l - 1
  BY <1>4, <1>5, <1>6
<1>9. ~(i - l - 1 >= SeqSpace \div 2)
  BY <1>2, <1>4
<1> QED BY <1>7, <1>8, <1>9 DEF H264!Gap

-----------------------------------------------------------------------------
(* A packet arrives. *)

\* The network is the same for either payload.
LEMMA SameNetwork ==
    ASSUME NEW s
    PROVE  /\ \A i : Jpeg(s)!Arrive(i) <=> H264(s)!Arrive(i)
           /\ Jpeg(s)!NetInit <=> H264(s)!NetInit
           /\ \A seq : Jpeg(s)!Gap(seq) = H264(s)!Gap(seq)
           /\ \A i : Jpeg(s)!SeqOf(i) = H264(s)!SeqOf(i)
           /\ Jpeg(s)!ArrivedSet = H264(s)!ArrivedSet
           /\ \A packets : Jpeg(s)!RunOf(packets) <=> H264(s)!RunOf(packets)
           /\ Jpeg(s)!InOrder <=> H264(s)!InOrder
<1>1. \A i : Jpeg(s)!SeqOf(i) = H264(s)!SeqOf(i)
  BY DEF Jpeg!SeqOf, H264!SeqOf
<1>2. \A seq : Jpeg(s)!Gap(seq) = H264(s)!Gap(seq)
  BY DEF Jpeg!Gap, H264!Gap
<1>3. \A i : Jpeg(s)!CanArrive(i) <=> H264(s)!CanArrive(i)
  BY DEF Jpeg!CanArrive, H264!CanArrive
<1>4. \A i : Jpeg(s)!Arrive(i) <=> H264(s)!Arrive(i)
  BY <1>1, <1>2, <1>3 DEF Jpeg!Arrive, H264!Arrive
<1>5. Jpeg(s)!Sent = H264(s)!Sent
  BY DEF Jpeg!Sent, H264!Sent
<1>6. Jpeg(s)!ShortBursts <=> H264(s)!ShortBursts
  BY <1>5 DEF Jpeg!ShortBursts, H264!ShortBursts
<1>7. Jpeg(s)!NetInit <=> H264(s)!NetInit
  BY <1>5, <1>6 DEF Jpeg!NetInit, H264!NetInit
<1>8. Jpeg(s)!ArrivedSet = H264(s)!ArrivedSet
  BY DEF Jpeg!ArrivedSet, H264!ArrivedSet
<1>9. \A packets : Jpeg(s)!RunOf(packets) <=> H264(s)!RunOf(packets)
  BY DEF Jpeg!RunOf, H264!RunOf
<1>10. Jpeg(s)!InOrder <=> H264(s)!InOrder
  BY DEF Jpeg!InOrder, H264!InOrder
<1> QED BY <1>1, <1>2, <1>4, <1>7, <1>8, <1>9, <1>10

LEMMA SameCardinality ==
    ASSUME NEW s, NEW T
    PROVE  H264(s)!Cardinality(T) = Cardinality(T)
BY DEF Cardinality, H264!Cardinality

LEMMA NetTyped ==
    ASSUME NEW s, Len(Stream(s)) \in Nat, NetTypeOK(s)
    PROVE  /\ Len(arrived) \in Nat
           /\ \A k \in 1..Len(arrived) : arrived[k] \in Sent(s)
           /\ Len(arrived) > 0 => Latest \in Sent(s) /\ lastSeq = H264(s)!SeqOf(Latest)
           /\ Len(arrived) = 0 => arrived = <<>> /\ lastSeq = None
<1>1. /\ arrived \in Seq(Sent(s)) /\ lastSeq = IF arrived = <<>> THEN None ELSE H264(s)!SeqOf(Latest)
  BY DEF NetTypeOK
<1>2. Len(arrived) \in Nat /\ (Len(arrived) = 0 <=> arrived = <<>>)
  BY <1>1
<1>3. \A k \in 1..Len(arrived) : arrived[k] \in Sent(s)
  BY <1>1, ElementOfSeq
<1>4. Len(arrived) > 0 => Latest \in Sent(s)
  BY <1>2, <1>3 DEF Latest
<1> QED BY <1>1, <1>2, <1>3, <1>4

LEMMA NetStart ==
    ASSUME NEW s, Len(Stream(s)) \in Nat, H264(s)!NetInit, Senders[s].copies \in Nat
    PROVE  NetTypeOK(s)
<1>1. left \in [Sent(s) -> Nat]
  BY DEF H264!NetInit, H264!Sent, Sent, Stream
<1>2. arrived = <<>> /\ lastSeq = None /\ lost = 0
  BY DEF H264!NetInit
<1>3. arrived \in Seq(Sent(s))
  BY <1>2
<1> QED BY <1>1, <1>2, <1>3 DEF NetTypeOK

LEMMA GapTyped ==
    ASSUME NEW s, NEW seq \in Int, lastSeq \in Int \cup {None}
    PROVE  H264(s)!Gap(seq) \in Nat
<1>1. SeqSpace \in Nat \ {0} /\ None \notin Int
  BY SenderAssumption, RangeAssumption
<1>2. CASE lastSeq = None
  BY <1>2 DEF H264!Gap
<1>3. CASE lastSeq \in Int
  <2>1. PICK d \in Int : d = seq - lastSeq - 1
    BY <1>3
  <2>2. d % SeqSpace \in 0..(SeqSpace - 1)
    BY <1>1, SMT
  <2> QED BY <1>1, <1>3, <2>1, <2>2 DEF H264!Gap
<1> QED BY <1>2, <1>3

LEMMA SeqTyped ==
    ASSUME NEW s, NEW i \in Nat, i > 0
    PROVE  H264(s)!SeqOf(i) \in Nat
<1>1. SeqSpace \in Nat \ {0} /\ FirstSeq \in Nat
  BY SenderAssumption
<1>2. PICK a \in Nat : a = FirstSeq + i - 1
  BY <1>1
<1>3. a % SeqSpace \in 0..(SeqSpace - 1)
  BY <1>1, SMT
<1> QED BY <1>1, <1>2, <1>3 DEF H264!SeqOf

\* What an arrival does to the network.
LEMMA Arrival ==
    ASSUME NEW s \in DOMAIN Senders, Len(Stream(s)) \in Nat, NetTypeOK(s),
           NEW i \in Sent(s), H264(s)!Arrive(i)
    PROVE  /\ NetTypeOK(s)'
           /\ Len(arrived') = Len(arrived) + 1 /\ Latest' = i
           /\ \A k \in 1..Len(arrived) : arrived'[k] = arrived[k]
           /\ arrived'[Len(arrived) + 1] = i
           /\ H264(s)!ArrivedSet' = H264(s)!ArrivedSet \cup {i}
           /\ lost' = lost + H264(s)!Gap(H264(s)!SeqOf(i))
           /\ left[i] > 0 /\ left' = [left EXCEPT ![i] = @ - 1]
           /\ \A j \in 1..(i - 1 - Senders[s].window) : left[j] = 0
<1>1. /\ left \in [Sent(s) -> Nat] /\ arrived \in Seq(Sent(s)) /\ lost \in Nat
  BY DEF NetTypeOK
<1>2. /\ left[i] > 0 /\ left' = [left EXCEPT ![i] = @ - 1]
      /\ \A j \in 1..(i - 1 - Senders[s].window) : left[j] = 0
      /\ arrived' = Append(arrived, i)
      /\ lost' = lost + H264(s)!Gap(H264(s)!SeqOf(i))
      /\ lastSeq' = H264(s)!SeqOf(i)
  BY DEF H264!Arrive, H264!CanArrive
<1>3. left' \in [Sent(s) -> Nat]
  BY <1>1, <1>2
<1>4. /\ Len(arrived') = Len(arrived) + 1 /\ Len(arrived) \in Nat
      /\ \A k \in 1..Len(arrived) : arrived'[k] = arrived[k]
      /\ arrived'[Len(arrived) + 1] = i
      /\ arrived' \in Seq(Sent(s))
  BY <1>1, <1>2, AppendProperties
<1>5. Latest' = i
  BY <1>4 DEF Latest
<1>6. lost' \in Nat
  <2>1. lastSeq \in Int \cup {None}
    <3>1. CASE arrived = <<>>
      BY <3>1 DEF NetTypeOK
    <3>2. CASE arrived # <<>>
      <4>1. Len(arrived) > 0
        BY <3>2, <1>1
      <4>2. Latest \in Nat /\ Latest > 0 /\ lastSeq = H264(s)!SeqOf(Latest)
        BY <4>1, NetTyped DEF Sent
      <4> QED BY <4>2, SeqTyped
    <3> QED BY <3>1, <3>2
  <2>2. H264(s)!SeqOf(i) \in Int
    BY SeqTyped DEF Sent
  <2> QED BY <1>1, <1>2, <2>1, <2>2, GapTyped
<1>7. lastSeq' = IF arrived' = <<>> THEN None ELSE H264(s)!SeqOf(Latest')
  <2>1. arrived' # <<>>
    BY <1>4
  <2> QED BY <2>1, <1>2, <1>5
<1>8. NetTypeOK(s)'
  <2>1. (IF arrived = <<>> THEN None ELSE H264(s)!SeqOf(Latest))'
           = IF arrived' = <<>> THEN None ELSE H264(s)!SeqOf(Latest')
    BY DEF H264!SeqOf
  <2> QED BY <1>3, <1>4, <1>6, <1>7, <2>1 DEF NetTypeOK, Sent, Stream
<1>9. H264(s)!ArrivedSet' = H264(s)!ArrivedSet \cup {i}
  <2>1. \A x : x \in H264(s)!ArrivedSet' <=> \E k \in 1..(Len(arrived) + 1) : arrived'[k] = x
    BY <1>4 DEF H264!ArrivedSet
  <2>2. \A x : x \in H264(s)!ArrivedSet <=> \E k \in 1..Len(arrived) : arrived[k] = x
    BY DEF H264!ArrivedSet
  <2>3. \A k : k \in 1..(Len(arrived) + 1) <=> k \in 1..Len(arrived) \/ k = Len(arrived) + 1
    BY <1>4
  <2> QED BY <2>1, <2>2, <2>3, <1>4
<1> QED BY <1>2, <1>4, <1>5, <1>8, <1>9


\* The next packet of an orderly network comes after the latest, and only those
\* between them, fewer than half of all numbers, are missing.
LEMMA NextInOrder ==
    ASSUME NEW s \in DOMAIN Senders, Len(Stream(s)) \in Nat, NetTypeOK(s), Orderly(s), Orders(s),
           NEW i \in Sent(s), H264(s)!Arrive(i), Len(arrived) > 0
    PROVE  /\ Latest \in Nat /\ Latest < i
           /\ \A k \in 1..Len(arrived) : arrived[k] <= Latest
           /\ \A k \in (Latest + 1)..(i - 1) : k \notin H264(s)!ArrivedSet
           /\ H264(s)!Gap(H264(s)!SeqOf(i)) = i - Latest - 1
<1>1. /\ Len(arrived) \in Nat /\ Latest \in Sent(s) /\ lastSeq = H264(s)!SeqOf(Latest)
      /\ \A k \in 1..Len(arrived) : arrived[k] \in Sent(s)
  BY NetTyped
<1>2. /\ left[i] > 0 /\ \A j \in 1..(i - 1) : left[j] = 0
  BY Arrival DEF Orderly, Sent
<1>3. /\ \A j, k \in 1..Len(arrived) : j < k => arrived[j] < arrived[k]
      /\ \A j \in 1..Latest : left[j] = 0
  BY <1>1 DEF Orders, InOrderSoFar, Latest
<1>4. Latest < i
  <2>1. i \notin 1..Latest
    BY <1>2, <1>3
  <2> QED BY <2>1, <1>1 DEF Sent
<1>5. \A k \in 1..Len(arrived) : arrived[k] <= Latest
  <2> TAKE k \in 1..Len(arrived)
  <2>1. k < Len(arrived) => arrived[k] < arrived[Len(arrived)]
    BY <1>1, <1>3
  <2>2. k = Len(arrived) \/ k < Len(arrived)
    BY <1>1
  <2> QED BY <2>1, <2>2, <1>1 DEF Latest, Sent
<1>6. \A k \in (Latest + 1)..(i - 1) : k \notin H264(s)!ArrivedSet
  <2> SUFFICES ASSUME NEW k \in (Latest + 1)..(i - 1), NEW n \in 1..Len(arrived), arrived[n] = k
               PROVE  FALSE
    BY DEF H264!ArrivedSet
  <2>1. k <= Latest
    BY <1>5
  <2> QED BY <2>1, <1>1 DEF Sent
<1>7. i - Latest <= SeqSpace \div 2
  <2>1. SUFFICES ASSUME i - Latest > SeqSpace \div 2 PROVE FALSE
    <3>1. SeqSpace \div 2 \in Int
      BY SenderAssumption, SMT
    <3> QED BY <3>1, <1>1 DEF Sent
  <2>2. PICK k \in (Latest + 1)..(i - 1) : left[k] > 0 \/ k \in H264(s)!ArrivedSet
    BY <2>1, <1>1 DEF Orders, BurstsSoFar
  <2>3. k \in 1..(i - 1)
    BY <1>1 DEF Sent
  <2>4. left[k] = 0
    BY <2>3, <1>2
  <2> QED BY <2>2, <2>4, <1>6
<1>8. H264(s)!Gap(H264(s)!SeqOf(i)) = i - Latest - 1
  BY <1>1, <1>4, <1>7, GapCounts DEF Sent
<1> QED BY <1>1, <1>4, <1>5, <1>6, <1>8 DEF Sent

LEMMA OrdersStart ==
    ASSUME NEW s \in DOMAIN Senders, Len(Stream(s)) \in Nat, H264(s)!NetInit
    PROVE  Orders(s)
<1> SUFFICES ASSUME Orderly(s) PROVE InOrderSoFar(s) /\ BurstsSoFar(s) /\ H264(s)!LostIsMissing
  BY DEF Orders
<1>1. /\ left \in [Sent(s) -> (IF Senders[s].lossy THEN 0 ELSE 1)..1]
      /\ arrived = <<>> /\ lost = 0 /\ H264(s)!ShortBursts
  BY DEF H264!NetInit, H264!Sent, Sent, Stream, Orderly
<1>2. InOrderSoFar(s)
  BY <1>1 DEF InOrderSoFar
<1>3. BurstsSoFar(s)
  BY <1>1 DEF BurstsSoFar, H264!ShortBursts, H264!Sent, Sent, Stream
<1>4. H264(s)!Missing = {}
  BY <1>1 DEF H264!Missing, H264!ArrivedSet
<1>5. H264(s)!LostIsMissing
  BY <1>1, <1>4, FS_EmptySet, SameCardinality DEF H264!LostIsMissing
<1> QED BY <1>2, <1>3, <1>5

LEMMA OrdersStep ==
    ASSUME NEW s \in DOMAIN Senders, Len(Stream(s)) \in Nat, NetTypeOK(s), Orders(s),
           NEW i \in Sent(s), H264(s)!Arrive(i)
    PROVE  Orders(s)'
<1> DEFINE n == Len(arrived)
<1> SUFFICES ASSUME Orderly(s)
             PROVE InOrderSoFar(s)' /\ BurstsSoFar(s)' /\ H264(s)!LostIsMissing'
  BY DEF Orders, Orderly
<1>1. /\ n \in Nat /\ \A k \in 1..n : arrived[k] \in Sent(s)
      /\ n = 0 => arrived = <<>> /\ lastSeq = None
  BY NetTyped
<1>2. /\ Len(arrived') = n + 1 /\ arrived'[n + 1] = i
      /\ \A k \in 1..n : arrived'[k] = arrived[k]
      /\ H264(s)!ArrivedSet' = H264(s)!ArrivedSet \cup {i}
      /\ lost' = lost + H264(s)!Gap(H264(s)!SeqOf(i))
      /\ left[i] > 0 /\ left' = [left EXCEPT ![i] = @ - 1]
      /\ \A j \in 1..(i - 1) : left[j] = 0
      /\ NetTypeOK(s)'
  BY Arrival DEF Orderly, Sent
<1>3. left \in [Sent(s) -> Nat] /\ lost \in Nat
  BY DEF NetTypeOK
<1>4. /\ \A j \in Sent(s) : left[j] <= 1
      /\ \A j, k \in 1..n : j < k => arrived[j] < arrived[k]
      /\ \A k \in 1..n : \A j \in 1..arrived[k] : left[j] = 0
  BY DEF Orders, InOrderSoFar
<1>5. left'[i] = 0 /\ \A j \in Sent(s) : j # i => left'[j] = left[j]
  BY <1>2, <1>3, <1>4
<1>6. \A k \in 1..n : arrived[k] < i
  <2>1. CASE n = 0
    BY <2>1
  <2>2. CASE n > 0
    BY <2>2, <1>1, NextInOrder DEF Sent
  <2> QED BY <2>1, <2>2, <1>1
<1>7. InOrderSoFar(s)'
  <2>1. \A j \in Sent(s) : left'[j] <= 1
    BY <1>3, <1>4, <1>5
  <2>2. \A j, k \in 1..(n + 1) : j < k => arrived'[j] < arrived'[k]
    <3> TAKE j, k \in 1..(n + 1)
    <3>1. CASE k = n + 1
      BY <3>1, <1>1, <1>2, <1>6
    <3>2. CASE k # n + 1
      BY <3>2, <1>1, <1>2, <1>4
    <3> QED BY <3>1, <3>2
  <2>3. \A k \in 1..(n + 1) : \A j \in 1..arrived'[k] : left'[j] = 0
    <3> TAKE k \in 1..(n + 1)
    <3>1. CASE k = n + 1
      <4>1. \A j \in 1..i : j \in Sent(s) /\ (j = i \/ j \in 1..(i - 1))
        BY DEF Sent
      <4> QED BY <4>1, <3>1, <1>2, <1>5
    <3>2. CASE k \in 1..n
      <4>1. \A j \in 1..arrived[k] : j \in Sent(s) /\ j # i
        BY <3>2, <1>1, <1>6 DEF Sent
      <4> QED BY <4>1, <3>2, <1>2, <1>4, <1>5
    <3> QED BY <3>1, <3>2, <1>1
  <2> QED BY <2>1, <2>2, <2>3, <1>2 DEF InOrderSoFar, Sent, Stream
<1>8. BurstsSoFar(s)'
  <2>1. \A k \in Sent(s) : left[k] > 0 \/ k \in H264(s)!ArrivedSet
                               => left'[k] > 0 \/ k \in H264(s)!ArrivedSet'
    BY <1>2, <1>5
  <2>2. \A a, b \in Sent(s) : \A k \in (a + 1)..(b - 1) : k \in Sent(s)
    BY DEF Sent
  <2> QED BY <2>1, <2>2 DEF Orders, BurstsSoFar, Sent, Stream
<1>9. H264(s)!LostIsMissing'
  <2>1. lost = Cardinality(H264(s)!Missing)
    BY SameCardinality DEF Orders, H264!LostIsMissing
  <2>2. lost' = Cardinality(H264(s)!Missing')
    <3>1. CASE n = 0
      <4>1. H264(s)!ArrivedSet = {} /\ H264(s)!Missing = {}
        BY <3>1 DEF H264!ArrivedSet, H264!Missing
      <4>2. H264(s)!Missing' = {}
        BY <4>1, <1>2 DEF H264!Missing, H264!Sent, Sent
      <4>3. H264(s)!Gap(H264(s)!SeqOf(i)) = 0
        BY <3>1, <1>1 DEF H264!Gap
      <4>4. lost' = lost
        BY <4>3, <1>2, <1>3
      <4>5. H264(s)!Missing' = H264(s)!Missing
        BY <4>1, <4>2
      <4> QED BY <2>1, <4>4, <4>5
    <3>2. CASE n > 0
      <4> DEFINE l == Latest
                 between == (l + 1)..(i - 1)
      <4>1. /\ l \in Nat /\ l < i /\ l \in Sent(s)
            /\ \A k \in 1..n : arrived[k] <= l
            /\ \A k \in between : k \notin H264(s)!ArrivedSet
            /\ H264(s)!Gap(H264(s)!SeqOf(i)) = i - l - 1
        BY <3>2, NextInOrder, NetTyped
      <4>2. l \in H264(s)!ArrivedSet /\ \A j \in H264(s)!ArrivedSet : j \in Sent(s) /\ j <= l
        BY <3>2, <1>1, <4>1 DEF H264!ArrivedSet, Latest
      <4>3. H264(s)!Sent = Sent(s)
        BY DEF H264!Sent, Sent, Stream
      <4> HIDE DEF l
      <4>4. \A k \in Sent(s) : k \in H264(s)!Missing =>
                k < l /\ k \notin H264(s)!ArrivedSet
        BY <4>1, <4>2, <4>3 DEF H264!Missing, Sent
      <4>5. \A k \in Sent(s) : k \in H264(s)!Missing' <=> k \in H264(s)!Missing \/ k \in between
        <5> TAKE k \in Sent(s)
        <5>1. k \in H264(s)!Missing' <=>
                  /\ k \notin H264(s)!ArrivedSet /\ k # i
                  /\ \E j \in H264(s)!ArrivedSet \cup {i} : j < k
                  /\ \E j \in H264(s)!ArrivedSet \cup {i} : k < j
          BY <1>2, <4>3 DEF H264!Missing, H264!Sent, Sent, Stream
        <5>2. k \in H264(s)!Missing <=>
                  /\ k \notin H264(s)!ArrivedSet
                  /\ \E j \in H264(s)!ArrivedSet : j < k
                  /\ \E j \in H264(s)!ArrivedSet : k < j
          BY <4>3 DEF H264!Missing
        <5>3. CASE k < l
          <6>1. k # i /\ k \notin between /\ ~(i < k)
            BY <5>3, <4>1 DEF Sent
          <6> QED BY <6>1, <5>1, <5>2, <5>3, <4>2
        <5>4. CASE k = l
          <6>1. k \in H264(s)!ArrivedSet /\ k \notin between
            BY <5>4, <4>1, <4>2
          <6> QED BY <6>1, <5>1, <5>2
        <5>5. CASE k \in between
          <6>1. k # i /\ l < k /\ k < i /\ k \notin H264(s)!ArrivedSet
            BY <5>5, <4>1
          <6> QED BY <6>1, <5>1, <5>5, <4>2
        <5>6. CASE k >= i
          <6>1. ~(\E j \in H264(s)!ArrivedSet \cup {i} : k < j)
            BY <5>6, <4>1, <4>2 DEF Sent
          <6>2. k \notin between
            BY <5>6, <4>1 DEF Sent
          <6> QED BY <6>1, <6>2, <5>1, <5>2
        <5> QED BY <5>3, <5>4, <5>5, <5>6, <4>1 DEF Sent
      <4>6. H264(s)!Missing' = H264(s)!Missing \cup between
        <5>1. H264(s)!Missing \subseteq Sent(s) /\ H264(s)!Missing' \subseteq Sent(s)
          BY DEF H264!Missing, H264!Sent, Sent, Stream
        <5>2. between \subseteq Sent(s)
          BY <4>1 DEF Sent
        <5> QED BY <5>1, <5>2, <4>5
      <4>7. H264(s)!Missing \cap between = {}
        BY <4>1, <4>4 DEF H264!Missing, H264!Sent, Sent, Stream
      <4>8. IsFiniteSet(H264(s)!Missing)
        <5>1. IsFiniteSet(Sent(s))
          BY FS_Interval DEF Sent
        <5>2. H264(s)!Missing \in SUBSET Sent(s)
          BY <4>3 DEF H264!Missing
        <5> QED BY <5>1, <5>2, FS_Subset
      <4>9. IsFiniteSet(between) /\ Cardinality(between) = i - l - 1
        <5>1. l + 1 \in Int /\ i - 1 \in Int
          BY <4>1 DEF Sent
        <5>2. /\ IsFiniteSet(between)
              /\ Cardinality(between) = IF l + 1 > i - 1 THEN 0 ELSE (i - 1) - (l + 1) + 1
          BY <5>1, FS_Interval
        <5> QED BY <5>2, <4>1 DEF Sent
      <4>10. Cardinality(H264(s)!Missing \cup between) = lost + (i - l - 1)
        <5>1. /\ Cardinality(H264(s)!Missing \cup between) =
                   Cardinality(H264(s)!Missing) + Cardinality(between)
                     - Cardinality(H264(s)!Missing \cap between)
          BY <4>8, <4>9, FS_Union
        <5>2. Cardinality(H264(s)!Missing \cap between) = 0
          BY <4>7, FS_EmptySet
        <5> HIDE DEF between
        <5> QED BY <5>1, <5>2, <4>9, <2>1, <4>1, <1>3 DEF Sent
      <4> QED BY <4>1, <4>6, <4>10, <1>2
    <3> QED BY <3>1, <3>2, <1>1
  <2>3. H264(s)!Cardinality(H264(s)!Missing)' = Cardinality(H264(s)!Missing')
    BY DEF Cardinality, H264!Cardinality
  <2> QED BY <2>2, <2>3 DEF H264!LostIsMissing
<1> QED BY <1>7, <1>8, <1>9

-----------------------------------------------------------------------------
(* NAL units of the sender *)

\* A NAL unit: a packet that is one, or fragments from the first to the last.
IsNal(s, nal) ==
    /\ nal \in Nal(s) /\ nal # <<>>
    /\ \A n \in 1..Len(nal) :
          /\ nal[n] = nal[1] + n - 1
          /\ Stream(s)[nal[n]].part =
                IF Len(nal) = 1 THEN "whole" ELSE IF n = 1 THEN "start"
                ELSE IF n = Len(nal) THEN "end" ELSE "mid"

LEMMA SenderNalsAre ==
    ASSUME NEW s, Len(Stream(s)) \in Nat
    PROVE  \A nal : nal \in H264(s)!SenderNals <=> IsNal(s, nal)
<1>1. H264(s)!Sent = Sent(s)
  BY DEF H264!Sent, Sent, Stream
<1>2. ASSUME NEW nal, nal \in H264(s)!SenderNals PROVE IsNal(s, nal)
  <2>1. CASE \E i \in Sent(s) : Stream(s)[i].part = "whole" /\ nal = <<i>>
    <3>1. PICK i \in Sent(s) : Stream(s)[i].part = "whole" /\ nal = <<i>>
      BY <2>1
    <3>2. nal \in Nal(s) /\ Len(nal) = 1 /\ nal[1] = i /\ i \in Nat
      BY <3>1 DEF Nal, Sent
    <3> QED BY <3>1, <3>2 DEF IsNal
  <2>2. CASE \E a, b \in Sent(s) :
                /\ a < b /\ Stream(s)[a].part = "start" /\ Stream(s)[b].part = "end"
                /\ \A j \in (a + 1)..(b - 1) : Stream(s)[j].part = "mid"
                /\ nal = [k \in 1..(b - a + 1) |-> a + k - 1]
    <3>1. PICK a \in Sent(s), b \in Sent(s) :
                /\ a < b /\ Stream(s)[a].part = "start" /\ Stream(s)[b].part = "end"
                /\ \A j \in (a + 1)..(b - 1) : Stream(s)[j].part = "mid"
                /\ nal = [k \in 1..(b - a + 1) |-> a + k - 1]
      BY <2>2
    <3>2. b - a + 1 \in Nat /\ b - a + 1 > 1 /\ \A k \in 1..(b - a + 1) : a + k - 1 \in Sent(s)
      BY <3>1 DEF Sent
    <3>3. /\ nal \in Nal(s) /\ Len(nal) = b - a + 1 /\ nal # <<>>
      <4>1. PICK n \in Nat : n = b - a + 1 /\ n > 1
        BY <3>2
      <4>2. nal \in [1..n -> Sent(s)]
        BY <3>1, <3>2, <4>1
      <4>3. nal \in Seq(Sent(s)) /\ Len(nal) = n
        BY <4>2, FunctionIsSeq
      <4> QED BY <4>1, <4>3 DEF Nal
    <3>4. \A n \in 1..Len(nal) : nal[n] = a + n - 1
      BY <3>1, <3>3
    <3>5. nal[1] = a
      BY <3>2, <3>3, <3>4 DEF Sent
    <3>6. \A n \in 1..Len(nal) :
             Stream(s)[nal[n]].part = IF n = 1 THEN "start" ELSE IF n = Len(nal) THEN "end" ELSE "mid"
      <4> TAKE n \in 1..Len(nal)
      <4>1. n \in Nat /\ nal[n] = a + n - 1
        BY <3>4
      <4>2. CASE n = 1
        BY <4>2, <3>5, <3>1
      <4>3. CASE n = Len(nal) /\ n # 1
        <5>1. nal[n] = b
          BY <4>1, <4>3, <3>3 DEF Sent
        <5> QED BY <5>1, <4>3, <3>1
      <4>4. CASE n # Len(nal) /\ n # 1
        <5>1. nal[n] \in (a + 1)..(b - 1)
          BY <4>1, <4>4, <3>3 DEF Sent
        <5> QED BY <5>1, <4>4, <3>1
      <4> QED BY <4>2, <4>3, <4>4
    <3>7. Len(nal) # 1
      BY <3>2, <3>3
    <3> QED BY <3>3, <3>4, <3>5, <3>6, <3>7 DEF IsNal
  <2>3. \/ \E i \in Sent(s) : Stream(s)[i].part = "whole" /\ nal = <<i>>
        \/ \E r \in Sent(s) \X Sent(s) :
                /\ r[1] < r[2] /\ Stream(s)[r[1]].part = "start" /\ Stream(s)[r[2]].part = "end"
                /\ \A j \in (r[1] + 1)..(r[2] - 1) : Stream(s)[j].part = "mid"
                /\ nal = [k \in 1..(r[2] - r[1] + 1) |-> r[1] + k - 1]
    BY <1>1, <1>2 DEF H264!SenderNals, Stream
  <2> QED BY <2>1, <2>2, <2>3
<1>3. ASSUME NEW nal, IsNal(s, nal) PROVE nal \in H264(s)!SenderNals
  <2>1. /\ nal \in Seq(Sent(s)) /\ nal # <<>> /\ Len(nal) \in Nat /\ Len(nal) > 0
        /\ nal[1] \in Sent(s) /\ nal[Len(nal)] \in Sent(s)
        /\ nal[Len(nal)] = nal[1] + Len(nal) - 1
    BY <1>3 DEF IsNal, Nal
  <2>2. CASE Len(nal) = 1
    <3>1. nal = <<nal[1]>> /\ Stream(s)[nal[1]].part = "whole"
      BY <2>1, <2>2, <1>3 DEF IsNal
    <3> QED BY <3>1, <2>1, <1>1 DEF H264!SenderNals, Stream
  <2>3. CASE Len(nal) > 1
    <3>1. PICK a \in Sent(s), b \in Sent(s) : a = nal[1] /\ b = nal[Len(nal)]
      BY <2>1
    <3>2. a < b /\ b - a + 1 = Len(nal)
      BY <3>1, <2>1, <2>3 DEF Sent
    <3>3. Stream(s)[a].part = "start" /\ Stream(s)[b].part = "end"
      <4>1. 1 \in 1..Len(nal) /\ Len(nal) \in 1..Len(nal) /\ Len(nal) # 1
        BY <2>1, <2>3
      <4> QED BY <4>1, <3>1, <1>3 DEF IsNal
    <3>4. \A j \in (a + 1)..(b - 1) : Stream(s)[j].part = "mid"
      <4> TAKE j \in (a + 1)..(b - 1)
      <4>1. PICK n \in 1..Len(nal) : n = j - a + 1 /\ n # 1 /\ n # Len(nal) /\ a + n - 1 = j
        BY <3>2 DEF Sent
      <4>2. nal[n] = a + n - 1
        BY <3>1, <1>3 DEF IsNal
      <4>3. nal[n] = j
        BY <4>1, <4>2
      <4> QED BY <4>1, <4>3, <2>3, <1>3 DEF IsNal
    <3>5. nal = [k \in 1..(b - a + 1) |-> a + k - 1]
      <4>1. nal = [k \in 1..Len(nal) |-> nal[k]]
        BY <2>1
      <4>2. \A k \in 1..Len(nal) : nal[k] = a + k - 1
        BY <3>1, <1>3 DEF IsNal
      <4> QED BY <4>1, <4>2, <3>2
    <3>6. PICK r \in Sent(s) \X Sent(s) : r[1] = a /\ r[2] = b
      <4>1. <<a, b>> \in Sent(s) \X Sent(s) /\ <<a, b>>[1] = a /\ <<a, b>>[2] = b
        OBVIOUS
      <4> QED BY <4>1
    <3>7. /\ r[1] < r[2] /\ Stream(s)[r[1]].part = "start" /\ Stream(s)[r[2]].part = "end"
          /\ \A j \in (r[1] + 1)..(r[2] - 1) : Stream(s)[j].part = "mid"
      BY <3>2, <3>3, <3>4, <3>6
    <3>8. nal = [k \in 1..(r[2] - r[1] + 1) |-> r[1] + k - 1]
      BY <3>5, <3>6
    <3>9. nal \in {[k \in 1..(x[2] - x[1] + 1) |-> x[1] + k - 1] :
                     x \in {y \in Sent(s) \X Sent(s) :
                              /\ y[1] < y[2]
                              /\ Stream(s)[y[1]].part = "start" /\ Stream(s)[y[2]].part = "end"
                              /\ \A j \in (y[1] + 1)..(y[2] - 1) : Stream(s)[j].part = "mid"}}
      BY <3>7, <3>8
    <3> QED BY <3>9, <1>1 DEF H264!SenderNals, Stream
  <2>4. Len(nal) = 1 \/ Len(nal) > 1
    <3>1. PICK l \in Nat : l = Len(nal) /\ l > 0
      BY <2>1
    <3>2. l = 1 \/ l > 1
      BY <3>1
    <3> QED BY <3>1, <3>2
  <2> QED BY <2>2, <2>3, <2>4
<1> QED BY <1>2, <1>3

LEMMA OneElement ==
    ASSUME NEW S, NEW q \in Seq(S), Len(q) = 1
    PROVE  q = <<q[1]>>
<1>1. PICK e \in S : e = q[1]
  OBVIOUS
<1>2. <<e>> \in Seq(S) /\ Len(<<e>>) = 1 /\ <<e>>[1] = e
  OBVIOUS
<1>3. \A k \in 1..1 : <<e>>[k] = q[k]
  BY <1>1, <1>2
<1> QED BY <1>1, <1>2, <1>3, SeqEqual

LEMMA NalParts ==
    ASSUME NEW s, NEW nal, IsNal(s, nal), NEW l, l = Len(nal)
    PROVE  /\ l \in Nat /\ l > 0 /\ nal \in Seq(Sent(s))
           /\ \A k \in 1..l : nal[k] \in Sent(s) /\ nal[k] = nal[1] + k - 1
           /\ l = 1 => nal = <<nal[1]>> /\ Stream(s)[nal[1]].part = "whole"
           /\ l > 1 => /\ Stream(s)[nal[l]].part = "end"
                       /\ \A k \in 1..(l - 1) :
                             Stream(s)[nal[k]].part = IF k = 1 THEN "start" ELSE "mid"
<1>1. l \in Nat /\ l > 0 /\ nal \in Seq(Sent(s))
  BY DEF IsNal, Nal
<1>2. \A k \in 1..l : /\ nal[k] = nal[1] + k - 1
                      /\ Stream(s)[nal[k]].part =
                           IF l = 1 THEN "whole" ELSE IF k = 1 THEN "start"
                           ELSE IF k = l THEN "end" ELSE "mid"
  BY DEF IsNal
<1>3. \A k \in 1..l : nal[k] \in Sent(s)
  BY <1>1
<1>4. ASSUME l = 1 PROVE nal = <<nal[1]>> /\ Stream(s)[nal[1]].part = "whole"
  <2>1. nal = <<nal[1]>>
    BY <1>1, <1>4, OneElement
  <2>2. 1 \in 1..l
    BY <1>4
  <2> QED BY <2>1, <2>2, <1>2, <1>4
<1>5. ASSUME l > 1
      PROVE  /\ Stream(s)[nal[l]].part = "end"
             /\ \A k \in 1..(l - 1) : Stream(s)[nal[k]].part = IF k = 1 THEN "start" ELSE "mid"
  <2>1. l \in Nat
    BY <1>1
  <2>2. l \in 1..l /\ l # 1 /\ \A k \in 1..(l - 1) : k \in 1..l /\ k # l
    BY <2>1, <1>5
  <2> QED BY <2>2, <1>2
<1> QED BY <1>1, <1>2, <1>3, <1>4, <1>5

\* All fragments of a NAL unit have one timestamp.
LEMMA NalHasOneTime ==
    ASSUME NEW s \in DOMAIN Senders, Len(Stream(s)) \in Nat, H264Stream(Stream(s)),
           NEW nal, IsNal(s, nal), NEW n \in 1..Len(nal)
    PROVE  Stream(s)[nal[n]].ts = Stream(s)[nal[1]].ts
<1> DEFINE T == {m \in 0..Len(nal) : m > 0 => Stream(s)[nal[m]].ts = Stream(s)[nal[1]].ts}
<1>1. nal \in Seq(Sent(s)) /\ Len(nal) \in Nat
  BY DEF IsNal, Nal
<1>2. 0 \in T
  BY <1>1
<1>3. ASSUME NEW m \in 1..Len(nal), m - 1 \in T PROVE m \in T
  <2>1. CASE m = 1
    BY <2>1, <1>1
  <2>2. CASE m > 1
    <3>1. m - 1 \in 1..Len(nal) /\ m - 1 # Len(nal) /\ Len(nal) # 1
      <4> HIDE DEF T
      <4>1. PICK l \in Nat : l = Len(nal)
        BY <1>1
      <4>2. m \in 1..l
        BY <1>3, <4>1
      <4>3. m - 1 \in 1..l /\ m - 1 # l /\ l # 1
        BY <2>2, <4>2
      <4> QED BY <4>1, <4>3
    <3>2. PICK a \in Sent(s), b \in Sent(s) : a = nal[m - 1] /\ b = nal[m]
      BY <3>1, <1>1
    <3>3. a = nal[1] + (m - 1) - 1 /\ b = nal[1] + m - 1
      BY <3>1, <3>2 DEF IsNal
    <3>4. nal[1] \in Sent(s)
      BY <3>1, <1>1
    <3>5. b = a + 1
      BY <3>3, <3>4 DEF Sent
    <3>6. Stream(s)[a].part \in {"start", "mid"}
      BY <3>1, <3>2 DEF IsNal
    <3>7. a \in 1..(Len(Stream(s)) - 1)
      BY <3>5 DEF Sent
    <3>8. Stream(s)[b].ts = Stream(s)[a].ts
      BY <3>5, <3>6, <3>7 DEF H264Stream
    <3>9. Stream(s)[a].ts = Stream(s)[nal[1]].ts
      BY <1>3, <2>2, <3>2, <1>1
    <3> QED BY <3>2, <3>8, <3>9, <1>1
  <2> QED BY <2>1, <2>2, <1>1
<1>4. 0..Len(nal) \subseteq T
  <2> HIDE DEF T
  <2> QED BY <1>1, <1>2, <1>3, InductionUpTo
<1> QED BY <1>1, <1>4

-----------------------------------------------------------------------------
(* What a packet does to the units *)

\* The fragments go on, the unit before the packet, the NAL unit it completes,
\* the unit with it, and the records without the unit.
Ok(s, i) == fragOk /\ ~H264(s)!Broken(i)
Before(s, i) == IF haveAu /\ auTs = Stream(s)[i].ts THEN au ELSE <<>>
Done(s, i) == H264(s)!Completes(i, Ok(s, i))
Unit(s, i) == Before(s, i) \o Done(s, i)
Written(s, i) ==
    IF haveAu /\ auTs # Stream(s)[i].ts /\ au # <<>>
    THEN Append(records, [ts |-> auTs, nals |-> au]) ELSE records

\* The unit stays open, or it becomes a record, or nothing is left of it.
IsHeld(s, i) ==
    /\ haveAu' = TRUE /\ au' = Unit(s, i) /\ auTs' = Stream(s)[i].ts
    /\ records' = Written(s, i)

IsClosed(s, i) ==
    /\ haveAu' = FALSE /\ au' = <<>> /\ auTs' = Stream(s)[i].ts
    /\ Unit(s, i) # <<>> /\ Len(Unit(s, i)) <= MaxNals
    /\ Ends(s, i, Stream(s)[i].ts)
    /\ records' = Append(Written(s, i), [ts |-> Stream(s)[i].ts, nals |-> Unit(s, i)])

IsGone(s, i) ==
    /\ haveAu' = FALSE /\ au' = <<>> /\ auTs' \in {auTs, Stream(s)[i].ts}
    /\ Unit(s, i) = <<>> \/ Len(Unit(s, i)) > MaxNals
    /\ records' = Written(s, i)

LEMMA UnitTyped ==
    ASSUME NEW s \in DOMAIN Senders, s = sender, Sends("h264"), H264TypeOK(s), NEW i \in Sent(s)
    PROVE  /\ Ok(s, i) \in BOOLEAN /\ Stream(s)[i].ts \in Nat
           /\ Before(s, i) \in Seq(Nal(s)) /\ Done(s, i) \in Seq(Nal(s)) /\ Unit(s, i) \in Seq(Nal(s))
           /\ Len(Unit(s, i)) = Len(Before(s, i)) + Len(Done(s, i))
           /\ \A n \in 1..Len(Before(s, i)) : Unit(s, i)[n] = Before(s, i)[n]
           /\ \A n \in 1..Len(Done(s, i)) : Unit(s, i)[Len(Before(s, i)) + n] = Done(s, i)[n]
           /\ Len(Done(s, i)) <= 1
           /\ Len(Done(s, i)) = 1 => Stream(s)[i].part \in {"whole", "end"}
           /\ Written(s, i) \in Seq(Recs(s))
<1>1. /\ au \in Seq(Nal(s)) /\ frag \in Nal(s) /\ fragOk \in BOOLEAN /\ auTs \in Nat
      /\ records \in Seq(Recs(s))
  BY DEF H264TypeOK
<1>2. Stream(s)[i].ts \in Nat
  <2>1. Stream(s)[i] \in PacketShapes("h264")
    BY SenderTyped DEF Sends
  <2> QED BY <2>1 DEF PacketShapes
<1>3. Ok(s, i) \in BOOLEAN
  BY <1>1 DEF Ok
<1>4. Before(s, i) \in Seq(Nal(s))
  BY <1>1 DEF Before
<1>5. /\ Done(s, i) \in Seq(Nal(s)) /\ Len(Done(s, i)) <= 1
      /\ Len(Done(s, i)) = 1 => Stream(s)[i].part \in {"whole", "end"}
  <2>1. <<i>> \in Nal(s) /\ Append(frag, i) \in Nal(s)
    BY <1>1 DEF Nal
  <2>2. Done(s, i) = CASE Stream(s)[i].part = "whole" -> << <<i>> >>
                       [] Stream(s)[i].part = "end" /\ Ok(s, i) -> << Append(frag, i) >>
                       [] OTHER -> <<>>
    BY DEF Done, H264!Completes, Stream
  <2>3. CASE Stream(s)[i].part = "whole"
    <3>1. Done(s, i) = << <<i>> >>
      BY <2>2, <2>3
    <3> QED BY <3>1, <2>1, <2>3
  <2>4. CASE Stream(s)[i].part = "end" /\ Ok(s, i)
    <3>1. Done(s, i) = << Append(frag, i) >>
      BY <2>2, <2>4
    <3> QED BY <3>1, <2>1, <2>4
  <2>5. CASE Stream(s)[i].part # "whole" /\ ~(Stream(s)[i].part = "end" /\ Ok(s, i))
    <3>1. Done(s, i) = <<>>
      BY <2>2, <2>5
    <3> QED BY <3>1
  <2> QED BY <2>3, <2>4, <2>5
<1>6. /\ Unit(s, i) \in Seq(Nal(s))
      /\ Len(Unit(s, i)) = Len(Before(s, i)) + Len(Done(s, i))
      /\ \A n \in 1..Len(Before(s, i)) : Unit(s, i)[n] = Before(s, i)[n]
      /\ \A n \in 1..Len(Done(s, i)) : Unit(s, i)[Len(Before(s, i)) + n] = Done(s, i)[n]
  <2>1. PICK b \in Seq(Nal(s)), d \in Seq(Nal(s)) : b = Before(s, i) /\ d = Done(s, i)
    BY <1>4, <1>5
  <2>2. /\ b \o d \in Seq(Nal(s)) /\ Len(b \o d) = Len(b) + Len(d)
        /\ \A n \in 1..Len(b) : (b \o d)[n] = b[n]
        /\ \A n \in (Len(b) + 1)..(Len(b) + Len(d)) : (b \o d)[n] = d[n - Len(b)]
    BY ConcatParts
  <2>3. \A n \in 1..Len(d) : (b \o d)[Len(b) + n] = d[n]
    BY <2>2
  <2> QED BY <2>1, <2>2, <2>3 DEF Unit
<1>7. Written(s, i) \in Seq(Recs(s))
  <2>1. [ts |-> auTs, nals |-> au] \in Recs(s)
    BY <1>1 DEF Recs
  <2> QED BY <2>1, <1>1, AppendProperties DEF Written
<1> QED BY <1>2, <1>3, <1>4, <1>5, <1>6, <1>7

LEMMA PushDoes ==
    ASSUME NEW s \in DOMAIN Senders, s = sender, Sends("h264"), H264TypeOK(s), NEW i \in Sent(s),
           H264(s)!Push(i)
    PROVE  /\ IsHeld(s, i) \/ IsClosed(s, i) \/ IsGone(s, i)
           /\ frag' = CASE Stream(s)[i].part = "start" -> <<i>>
                        [] Stream(s)[i].part = "mid" /\ Ok(s, i) -> Append(frag, i)
                        [] Stream(s)[i].part = "end" -> <<>>
                        [] OTHER -> IF Ok(s, i) THEN frag ELSE <<>>
           /\ fragOk' = CASE Stream(s)[i].part = "start" -> TRUE
                          [] Stream(s)[i].part = "end" -> FALSE
                          [] OTHER -> Ok(s, i)
<1>1. haveAu \in BOOLEAN /\ (haveAu \/ au = <<>>) /\ au \in Seq(Nal(s))
  BY DEF H264TypeOK
<1>2. /\ Unit(s, i) \in Seq(Nal(s)) /\ Before(s, i) \in Seq(Nal(s)) /\ Done(s, i) \in Seq(Nal(s))
  BY UnitTyped
<1>3. H264(s)!Turns(i) <=> haveAu /\ auTs # Stream(s)[i].ts
  BY DEF H264!Turns, Stream
<1>4. (IF H264(s)!Turns(i) \/ ~haveAu THEN <<>> ELSE au) = Before(s, i)
  BY <1>1, <1>3 DEF Before
<1>5. (IF H264(s)!Turns(i) \/ ~haveAu THEN Stream(s)[i].ts ELSE auTs) = Stream(s)[i].ts
  BY <1>3
<1>6. (IF H264(s)!Turns(i) THEN H264(s)!Closed(TRUE, auTs, au) ELSE records) = Written(s, i)
  BY <1>3 DEF H264!Closed, Written
<1>7. Before(s, i) \o H264(s)!Completes(i, fragOk /\ ~H264(s)!Broken(i)) = Unit(s, i)
  BY DEF Unit, Done, Ok
<1> DEFINE marked == Stream(s)[i].marker /\ Stream(s)[i].part # "short"
           closes == marked \/ Len(Unit(s, i)) > MaxNals
<1>8. IF Stream(s)[i].part = "empty"
      THEN /\ au' = Before(s, i)
           /\ haveAu' = (haveAu /\ ~H264(s)!Turns(i))
           /\ auTs' = auTs
           /\ records' = Written(s, i)
      ELSE /\ au' = IF closes THEN <<>> ELSE Unit(s, i)
           /\ haveAu' = ~closes
           /\ auTs' = Stream(s)[i].ts
           /\ records' = IF ~(Len(Unit(s, i)) > MaxNals) /\ marked /\ Unit(s, i) # <<>>
                         THEN Append(Written(s, i), [ts |-> Stream(s)[i].ts, nals |-> Unit(s, i)])
                         ELSE Written(s, i)
  BY <1>4, <1>5, <1>6, <1>7 DEF H264!Push, H264!TooBig, Stream
<1>9. ASSUME Stream(s)[i].part = "empty"
      PROVE  IsHeld(s, i) \/ IsClosed(s, i) \/ IsGone(s, i)
  <2>1. Done(s, i) = <<>>
    BY <1>9 DEF Done, H264!Completes, Stream
  <2>2. Unit(s, i) = Before(s, i)
    BY <2>1, <1>2 DEF Unit
  <2>3. CASE haveAu /\ auTs = Stream(s)[i].ts
    BY <2>2, <2>3, <1>3, <1>8, <1>9 DEF IsHeld
  <2>4. CASE ~(haveAu /\ auTs = Stream(s)[i].ts)
    <3>1. Before(s, i) = <<>>
      BY <2>4 DEF Before
    <3> QED BY <3>1, <2>2, <2>4, <1>1, <1>3, <1>8, <1>9 DEF IsGone
  <2> QED BY <2>3, <2>4
<1>10. ASSUME Stream(s)[i].part # "empty"
       PROVE  IsHeld(s, i) \/ IsClosed(s, i) \/ IsGone(s, i)
  <2>1. Len(Unit(s, i)) \in Nat /\ MaxNals \in Nat
    BY <1>2, SenderAssumption
  <2>2. Len(Unit(s, i)) <= MaxNals \/ Len(Unit(s, i)) > MaxNals
    BY <2>1
  <2>3. CASE ~closes
    BY <2>3, <1>8, <1>10 DEF IsHeld
  <2>4. CASE marked /\ Unit(s, i) # <<>> /\ Len(Unit(s, i)) <= MaxNals
    <3>1. ~(Len(Unit(s, i)) > MaxNals)
      BY <2>1, <2>4
    <3>2. Ends(s, i, Stream(s)[i].ts)
      BY <2>4, <1>10 DEF Ends
    <3> QED BY <3>1, <3>2, <2>4, <1>8, <1>10 DEF IsClosed
  <2>5. CASE closes /\ (Unit(s, i) = <<>> \/ Len(Unit(s, i)) > MaxNals)
    BY <2>5, <1>8, <1>10 DEF IsGone
  <2> QED BY <2>2, <2>3, <2>4, <2>5
<1>11. frag' = H264(s)!Fragment(i, Ok(s, i))
  BY DEF H264!Push, Ok
<1>12. fragOk' = CASE Stream(s)[i].part = "start" -> TRUE
                   [] Stream(s)[i].part = "end" -> FALSE
                   [] OTHER -> Ok(s, i)
  BY DEF H264!Push, Ok, Stream
<1> QED BY <1>9, <1>10, <1>11, <1>12 DEF H264!Fragment, Stream

\* The unit u has the element x; x came out under the timestamp.
In(u, x) == \E n \in 1..Len(u) : u[n] = x
Out(rs, ts, x) == \E k \in 1..Len(rs) : rs[k].ts = ts /\ In(rs[k].nals, x)

LEMMA EmittedAre ==
    ASSUME NEW S, NEW rs \in Seq([ts : Nat, nals : Seq(S)]), NEW ts, NEW x
    PROVE  x \in UNION {Range(rs[k].nals) : k \in {j \in DOMAIN rs : rs[j].ts = ts}} <=> Out(rs, ts, x)
<1>1. DOMAIN rs = 1..Len(rs) /\ \A k \in 1..Len(rs) : rs[k].nals \in Seq(S)
  <2>1. DOMAIN rs = 1..Len(rs)
    OBVIOUS
  <2>2. ASSUME NEW k \in 1..Len(rs) PROVE rs[k].nals \in Seq(S)
    <3>1. rs[k] \in [ts : Nat, nals : Seq(S)]
      BY ElementOfSeq
    <3> QED BY <3>1
  <2> QED BY <2>1, <2>2
<1>2. \A k \in 1..Len(rs) : x \in Range(rs[k].nals) <=> In(rs[k].nals, x)
  <2> TAKE k \in 1..Len(rs)
  <2>1. PICK u \in Seq(S) : u = rs[k].nals
    BY <1>1
  <2>2. DOMAIN u = 1..Len(u)
    OBVIOUS
  <2>3. x \in Range(u) <=> In(u, x)
    BY <2>2 DEF Range, In
  <2> QED BY <2>1, <2>3
<1> QED BY <1>1, <1>2 DEF Out

LEMMA OutGrows ==
    ASSUME NEW s, NEW rs \in Seq(Recs(s)), NEW t \in Nat, NEW u \in Seq(Nal(s)), NEW ts, NEW x
    PROVE  Out(Append(rs, [ts |-> t, nals |-> u]), ts, x) <=> Out(rs, ts, x) \/ (ts = t /\ In(u, x))
<1> DEFINE o == [ts |-> t, nals |-> u]
           qs == Append(rs, o)
<1>2. o.ts = t /\ o.nals = u /\ o \in Recs(s)
  BY DEF Recs
<1> HIDE DEF o
<1>1. /\ Len(rs) \in Nat /\ Len(qs) = Len(rs) + 1 /\ qs[Len(rs) + 1] = o
      /\ \A k \in 1..Len(rs) : qs[k] = rs[k]
  BY <1>2, AppendProperties
<1> HIDE DEF qs
<1>3. ASSUME Out(qs, ts, x) PROVE Out(rs, ts, x) \/ (ts = t /\ In(u, x))
  <2>1. PICK k \in 1..Len(qs) : qs[k].ts = ts /\ In(qs[k].nals, x)
    BY <1>3 DEF Out
  <2>2. CASE k = Len(rs) + 1
    BY <2>1, <2>2, <1>1, <1>2
  <2>3. CASE k \in 1..Len(rs)
    BY <2>1, <2>3, <1>1 DEF Out
  <2> QED BY <2>2, <2>3, <1>1
<1>4. ASSUME Out(rs, ts, x) PROVE Out(qs, ts, x)
  <2>1. PICK k \in 1..Len(rs) : rs[k].ts = ts /\ In(rs[k].nals, x)
    BY <1>4 DEF Out
  <2>2. k \in 1..Len(qs)
    BY <1>1
  <2> QED BY <2>1, <2>2, <1>1 DEF Out
<1>5. ASSUME ts = t, In(u, x) PROVE Out(qs, ts, x)
  <2>1. Len(rs) + 1 \in 1..Len(qs)
    BY <1>1
  <2> QED BY <2>1, <1>1, <1>2, <1>5 DEF Out
<1> QED BY <1>3, <1>4, <1>5 DEF o, qs

\* What is pending is out or in the unit.
LEMMA PendingAre ==
    ASSUME NEW s, H264TypeOK(s), NEW ts, NEW x
    PROVE  x \in Pending(s, ts) <=> Out(records, ts, x) \/ (haveAu /\ auTs = ts /\ In(au, x))
<1>1. records \in Seq(Recs(s))
  BY DEF H264TypeOK
<1>2. x \in H264(s)!Emitted(ts) <=> Out(records, ts, x)
  BY <1>1, EmittedAre DEF Recs, H264!Emitted, H264!Range, Range
<1> QED BY <1>2 DEF Pending, In

LEMMA PendingAreNext ==
    ASSUME NEW s, H264TypeOK(s)', NEW ts, NEW x
    PROVE  x \in Pending(s, ts)' <=> Out(records', ts, x) \/ (haveAu' /\ auTs' = ts /\ In(au', x))
<1>1. records' \in Seq(Recs(s))
  BY DEF H264TypeOK, Recs, Nal, Sent, Stream
<1>2. x \in H264(s)!Emitted(ts)' <=> Out(records', ts, x)
  BY <1>1, EmittedAre DEF Recs, H264!Emitted, H264!Range, Range
<1> QED BY <1>2 DEF Pending, In

LEMMA H264Typed ==
    ASSUME NEW s \in DOMAIN Senders, s = sender, Sends("h264"), H264TypeOK(s), NEW i \in Sent(s),
           H264(s)!Push(i), reader' = "open"
    PROVE  H264TypeOK(s)'
<1>1. /\ frag \in Nal(s) /\ fragOk \in BOOLEAN /\ auTs \in Nat
  BY DEF H264TypeOK
<1>2. /\ Ok(s, i) \in BOOLEAN /\ Stream(s)[i].ts \in Nat
      /\ Unit(s, i) \in Seq(Nal(s)) /\ Written(s, i) \in Seq(Recs(s))
  BY UnitTyped
<1>3. /\ au' \in Seq(Nal(s)) /\ auTs' \in Nat /\ haveAu' \in BOOLEAN
      /\ records' \in Seq(Recs(s))
      /\ haveAu' \/ au' = <<>>
  <2>1. [ts |-> Stream(s)[i].ts, nals |-> Unit(s, i)] \in Recs(s)
    BY <1>2 DEF Recs
  <2>2. CASE IsHeld(s, i)
    BY <2>2, <1>2 DEF IsHeld
  <2>3. CASE IsClosed(s, i)
    <3>1. au' = <<>> /\ haveAu' = FALSE /\ auTs' \in Nat
      BY <2>3, <1>2 DEF IsClosed
    <3>2. records' = Append(Written(s, i), [ts |-> Stream(s)[i].ts, nals |-> Unit(s, i)])
      BY <2>3 DEF IsClosed
    <3>3. records' \in Seq(Recs(s))
      BY <2>1, <3>2, <1>2, AppendProperties
    <3>4. au' \in Seq(Nal(s)) /\ haveAu' \in BOOLEAN
      <4>1. <<>> \in Seq(Nal(s)) /\ FALSE \in BOOLEAN
        OBVIOUS
      <4> QED BY <4>1, <3>1, Zenon
    <3> QED BY <3>1, <3>3, <3>4
  <2>4. CASE IsGone(s, i)
    <3>1. au' = <<>> /\ haveAu' = FALSE
      BY <2>4 DEF IsGone
    <3>2. auTs' \in Nat
      BY <2>4, <1>1, <1>2 DEF IsGone
    <3>3. records' \in Seq(Recs(s))
      BY <2>4, <1>2 DEF IsGone
    <3>4. au' \in Seq(Nal(s)) /\ haveAu' \in BOOLEAN
      <4>1. <<>> \in Seq(Nal(s)) /\ FALSE \in BOOLEAN
        OBVIOUS
      <4> QED BY <4>1, <3>1, Zenon
    <3> QED BY <3>1, <3>2, <3>3, <3>4
  <2> QED BY <2>2, <2>3, <2>4, PushDoes
<1>4. frag' \in Nal(s) /\ fragOk' \in BOOLEAN
  <2>1. <<i>> \in Nal(s) /\ Append(frag, i) \in Nal(s) /\ <<>> \in Nal(s)
    BY <1>1 DEF Nal
  <2> QED BY <2>1, <1>1, <1>2, PushDoes
<1> QED BY <1>3, <1>4 DEF H264TypeOK, Recs, Nal, Sent, Stream

\* Nothing pending is lost, but with a unit that is too large.
LEMMA PendingStays ==
    ASSUME NEW s \in DOMAIN Senders, s = sender, Sends("h264"), H264TypeOK(s), NEW i \in Sent(s),
           H264(s)!Push(i), reader' = "open", NEW ts, NEW x,
           x \in Pending(s, ts) \/ (ts = Stream(s)[i].ts /\ In(Done(s, i), x))
    PROVE  x \in Pending(s, ts)' \/ (ts = Stream(s)[i].ts /\ Len(Unit(s, i)) > MaxNals)
<1> DEFINE t == Stream(s)[i].ts
<1>1. /\ Unit(s, i) \in Seq(Nal(s)) /\ Written(s, i) \in Seq(Recs(s))
      /\ t \in Nat
  BY UnitTyped
<1>2. In(Before(s, i), x) \/ In(Done(s, i), x) => In(Unit(s, i), x)
  <2>1. /\ Before(s, i) \in Seq(Nal(s)) /\ Done(s, i) \in Seq(Nal(s))
        /\ Len(Unit(s, i)) = Len(Before(s, i)) + Len(Done(s, i))
        /\ \A n \in 1..Len(Before(s, i)) : Unit(s, i)[n] = Before(s, i)[n]
        /\ \A n \in 1..Len(Done(s, i)) : Unit(s, i)[Len(Before(s, i)) + n] = Done(s, i)[n]
    BY UnitTyped
  <2>2. Len(Before(s, i)) \in Nat /\ Len(Done(s, i)) \in Nat
    BY <2>1
  <2>3. /\ \A n \in 1..Len(Before(s, i)) : n \in 1..Len(Unit(s, i))
        /\ \A n \in 1..Len(Done(s, i)) : Len(Before(s, i)) + n \in 1..Len(Unit(s, i))
    BY <2>1, <2>2
  <2> QED BY <2>1, <2>3 DEF In
<1>3. Out(Written(s, i), ts, x) \/ (ts = t /\ In(Unit(s, i), x))
  <2>1. CASE ts = t /\ In(Done(s, i), x)
    BY <2>1, <1>2
  <2>2. CASE Out(records, ts, x)
    <3>1. CASE haveAu /\ auTs # t /\ au # <<>>
      <4>1. records \in Seq(Recs(s)) /\ au \in Seq(Nal(s)) /\ auTs \in Nat
        BY DEF H264TypeOK
      <4>2. Written(s, i) = Append(records, [ts |-> auTs, nals |-> au])
        BY <3>1 DEF Written
      <4>3. Out(Append(records, [ts |-> auTs, nals |-> au]), ts, x)
              <=> Out(records, ts, x) \/ (ts = auTs /\ In(au, x))
        BY <4>1, OutGrows
      <4> QED BY <4>2, <4>3, <2>2
    <3>2. CASE ~(haveAu /\ auTs # t /\ au # <<>>)
      BY <3>2, <2>2 DEF Written
    <3> QED BY <3>1, <3>2
  <2>3. CASE haveAu /\ auTs = ts /\ In(au, x)
    <3>1. CASE auTs = t
      BY <3>1, <2>3, <1>2 DEF Before
    <3>2. CASE auTs # t
      <4>1. records \in Seq(Recs(s)) /\ au \in Seq(Nal(s)) /\ auTs \in Nat
        BY DEF H264TypeOK
      <4>2. au # <<>>
        BY <2>3, <4>1 DEF In
      <4>3. Written(s, i) = Append(records, [ts |-> auTs, nals |-> au])
        BY <4>2, <3>2, <2>3 DEF Written
      <4>4. Out(Append(records, [ts |-> auTs, nals |-> au]), ts, x)
              <=> Out(records, ts, x) \/ (ts = auTs /\ In(au, x))
        BY <4>1, OutGrows
      <4> QED BY <4>3, <4>4, <2>3
    <3> QED BY <3>1, <3>2
  <2> QED BY <2>1, <2>2, <2>3, PendingAre
<1>4. H264TypeOK(s)'
  BY H264Typed
<1>5. x \in Pending(s, ts)' <=> Out(records', ts, x) \/ (haveAu' /\ auTs' = ts /\ In(au', x))
  BY <1>4, PendingAreNext
<1>6. CASE IsHeld(s, i)
  BY <1>3, <1>5, <1>6 DEF IsHeld
<1>7. CASE IsClosed(s, i)
  <2>2. records' = Append(Written(s, i), [ts |-> t, nals |-> Unit(s, i)])
    BY <1>7 DEF IsClosed
  <2>3. Out(Append(Written(s, i), [ts |-> t, nals |-> Unit(s, i)]), ts, x)
          <=> Out(Written(s, i), ts, x) \/ (ts = t /\ In(Unit(s, i), x))
    BY <1>1, OutGrows
  <2> QED BY <2>2, <2>3, <1>3, <1>5
<1>8. CASE IsGone(s, i)
  <2>1. In(Unit(s, i), x) => Len(Unit(s, i)) > MaxNals
    <3>1. In(Unit(s, i), x) => Unit(s, i) # <<>>
      BY <1>1 DEF In
    <3> QED BY <3>1, <1>8 DEF IsGone
  <2>2. records' = Written(s, i)
    BY <1>8 DEF IsGone
  <2> QED BY <2>1, <2>2, <1>3, <1>5
<1> QED BY <1>6, <1>7, <1>8, PushDoes

-----------------------------------------------------------------------------
(* NAL units that arrive in one piece *)

LEMMA CompletionsGrow ==
    ASSUME NEW s \in DOMAIN Senders, Len(Stream(s)) \in Nat, NetTypeOK(s), NEW i \in Sent(s),
           H264(s)!Arrive(i), NEW ts
    PROVE  /\ H264(s)!Completions(ts) \in Nat
           /\ H264(s)!Completions(ts)' = H264(s)!Completions(ts)
                + IF Stream(s)[i].ts = ts /\ Stream(s)[i].part \in {"whole", "end"} THEN 1 ELSE 0
<1> DEFINE n == Len(arrived)
           Counts(j) == Stream(s)[j].ts = ts /\ Stream(s)[j].part \in {"whole", "end"}
<1>1. n \in Nat /\ DOMAIN arrived = 1..n
  BY DEF NetTypeOK
<1>2. /\ Len(arrived') = n + 1 /\ arrived'[n + 1] = i /\ DOMAIN arrived' = 1..(n + 1)
      /\ \A k \in 1..n : arrived'[k] = arrived[k]
  BY Arrival DEF NetTypeOK
<1>3. PICK K : K = {k \in 1..n : Counts(arrived[k])}
  OBVIOUS
<1>4. H264(s)!Completions(ts) = Cardinality(K)
  BY <1>1, <1>3 DEF H264!Completions, Stream, Cardinality, H264!Cardinality
<1>5. H264(s)!Completions(ts)' = Cardinality({k \in 1..(n + 1) : Counts(arrived'[k])})
  BY <1>2 DEF H264!Completions, Stream, Cardinality, H264!Cardinality
<1>6. {k \in 1..(n + 1) : Counts(arrived'[k])} = IF Counts(i) THEN K \cup {n + 1} ELSE K
  <2>1. \A k : k \in 1..(n + 1) <=> k \in 1..n \/ k = n + 1
    BY <1>1
  <2> HIDE DEF n, Counts
  <2> QED BY <2>1, <1>2, <1>3
<1>7. IsFiniteSet(K) /\ n + 1 \notin K
  <2>1. K \in SUBSET (1..n)
    BY <1>3
  <2> HIDE DEF n, Counts
  <2>2. IsFiniteSet(1..n) /\ n + 1 \notin 1..n
    BY <1>1, FS_Interval
  <2> QED BY <2>1, <2>2, FS_Subset
<1>8. Cardinality(K) \in Nat /\ Cardinality(K \cup {n + 1}) = Cardinality(K) + 1
  BY <1>7, FS_AddElement, FS_CardinalityType
<1>9. CASE Counts(i)
  BY <1>4, <1>5, <1>6, <1>8, <1>9
<1>10. CASE ~Counts(i)
  <2>1. H264(s)!Completions(ts)' = H264(s)!Completions(ts)
    BY <1>4, <1>5, <1>6, <1>10
  <2> QED BY <2>1, <1>4, <1>8, <1>10
<1> QED BY <1>9, <1>10

\* A packet that comes right after the one before it shows no gap.
LEMMA NextHasNoGap ==
    ASSUME NEW s \in DOMAIN Senders, Len(Stream(s)) \in Nat, NetTypeOK(s), NEW i \in Sent(s),
           Len(arrived) > 0, i = Latest + 1
    PROVE  H264(s)!Gap(H264(s)!SeqOf(i)) = 0
<1>1. Latest \in Nat /\ Latest > 0 /\ i \in Nat /\ lastSeq = H264(s)!SeqOf(Latest)
  BY NetTyped DEF Sent
<1>2. SeqSpace \in Nat /\ SeqSpace >= 2
  BY SenderAssumption
<1>3. i - Latest <= SeqSpace \div 2
  <2>1. PICK h \in Nat : h = SeqSpace \div 2 /\ h >= 1
    BY <1>2, SMT
  <2> QED BY <2>1, <1>1
<1>4. H264(s)!Gap(H264(s)!SeqOf(i)) = i - Latest - 1
  BY <1>1, <1>3, GapCounts
<1> QED BY <1>1, <1>4

LEMMA BegunStep ==
    ASSUME NEW s \in DOMAIN Senders, s = sender, Sends("h264"), NetTypeOK(s), H264TypeOK(s),
           BegunIsHeld(s), NEW i \in Sent(s), H264(s)!Arrive(i), H264(s)!Push(i)
    PROVE  BegunIsHeld(s)'
<1> DEFINE n == Len(arrived)
<1>0. /\ n \in Nat /\ Len(arrived') = n + 1 /\ arrived'[n + 1] = i
      /\ \A k \in 1..n : arrived'[k] = arrived[k]
  BY Arrival, NetTyped, SenderTyped
<1>1. PICK e \in Nat :
         /\ e = Len(arrived') /\ n \in Nat /\ e = n + 1 /\ arrived'[e] = i
         /\ \A k \in 1..n : arrived'[k] = arrived[k]
  BY <1>0
<1>2. ASSUME NEW m \in 1..e,
             LET first == arrived'[e - m + 1]
             IN  \A k \in 1..m : LET j == arrived'[e - m + k] IN
                     j = first + k - 1 /\ Stream(s)[j].part = IF k = 1 THEN "start" ELSE "mid"
      PROVE  /\ fragOk' /\ Len(frag') = m
             /\ \A k \in 1..m : frag'[k] = arrived'[e - m + k]
  <2>1. CASE m = 1
    <3>1. Stream(s)[i].part = "start"
      BY <1>1, <1>2, <2>1
    <3>2. fragOk' = TRUE /\ frag' = <<i>>
      BY <3>1, PushDoes
    <3> QED BY <3>2, <2>1, <1>1
  <2>2. CASE m > 1
    <3>1. PICK a : a = arrived'[e - m + 1]
      OBVIOUS
    <3>2. \A k \in 1..m : LET j == arrived'[e - m + k] IN
             j = a + k - 1 /\ Stream(s)[j].part = IF k = 1 THEN "start" ELSE "mid"
      BY <1>2, <3>1
    <3>3. /\ m - 1 \in 1..n /\ n - (m - 1) + 1 \in 1..n
          /\ \A k \in 1..(m - 1) : /\ k \in 1..m /\ n - (m - 1) + k \in 1..n
                                   /\ e - m + k = n - (m - 1) + k
      BY <2>2, <1>1
    <3>4. a = arrived[n - (m - 1) + 1] /\ a \in Nat
      <4>1. n - (m - 1) + 1 = e - m + 1
        BY <2>2, <1>1
      <4>2. a = arrived[n - (m - 1) + 1]
        BY <4>1, <3>1, <3>3, <1>1
      <4>3. a \in Sent(s)
        BY <4>2, <3>3, NetTyped, SenderTyped
      <4> QED BY <4>2, <4>3 DEF Sent
    <3>5. Begun(s, m - 1)
      <4>1. \A k \in 1..(m - 1) : /\ arrived[n - (m - 1) + k] = a + k - 1
                                  /\ Stream(s)[arrived[n - (m - 1) + k]].part = IF k = 1 THEN "start" ELSE "mid"
        <5> TAKE k \in 1..(m - 1)
        <5>1. arrived[n - (m - 1) + k] = arrived'[e - m + k]
          BY <3>3, <1>1
        <5> QED BY <5>1, <3>2, <3>3
      <4> QED BY <4>1, <3>4 DEF Begun, BegunAt
    <3>6. /\ fragOk /\ Len(frag) = m - 1
          /\ \A k \in 1..(m - 1) : frag[k] = arrived[n - (m - 1) + k]
      BY <3>3, <3>5 DEF BegunIsHeld
    <3>7. /\ i = a + m - 1 /\ Stream(s)[i].part = "mid"
      <4>1. m \in 1..m /\ m # 1 /\ e - m + m = e
        BY <2>2, <1>1
      <4> QED BY <4>1, <3>2, <1>1
    <3>8. Latest = a + (m - 1) - 1 /\ n > 0
      <4>1. m - 1 \in 1..(m - 1) /\ n - (m - 1) + (m - 1) = n /\ n > 0
        BY <2>2, <1>1, <3>3
      <4>2. arrived[n - (m - 1) + (m - 1)] = a + (m - 1) - 1
        BY <4>1, <3>5, <3>4 DEF Begun, BegunAt
      <4> QED BY <4>1, <4>2 DEF Latest
    <3>9. i = Latest + 1
      BY <3>4, <3>7, <3>8
    <3>10. Ok(s, i) = TRUE
      BY <3>6, <3>8, <3>9, NextHasNoGap, SenderTyped DEF Ok, H264!Broken
    <3>11. fragOk' = TRUE /\ frag' = Append(frag, i)
      BY <3>7, <3>10, PushDoes
    <3>12. /\ Len(frag') = m /\ frag'[m] = i
           /\ \A k \in 1..(m - 1) : frag'[k] = frag[k]
      <4>1. frag \in Seq(Sent(s)) /\ m - 1 + 1 = m
        BY DEF H264TypeOK, Nal
      <4>2. /\ Len(Append(frag, i)) = (m - 1) + 1 /\ Append(frag, i)[(m - 1) + 1] = i
            /\ \A k \in 1..(m - 1) : Append(frag, i)[k] = frag[k]
        BY <4>1, <3>6, AppendProperties
      <4> QED BY <4>1, <4>2, <3>11
    <3>13. \A k \in 1..m : frag'[k] = arrived'[e - m + k]
      <4> TAKE k \in 1..m
      <4>1. CASE k = m
        BY <4>1, <3>12, <1>1
      <4>2. CASE k \in 1..(m - 1)
        BY <4>2, <3>3, <3>6, <3>12, <1>1
      <4> QED BY <4>1, <4>2
    <3> QED BY <3>11, <3>12, <3>13
  <2> QED BY <2>1, <2>2
<1> HIDE DEF n
<1>3. Len(arrived') = e
  BY <1>1
<1> QED BY <1>2, <1>3 DEF BegunIsHeld, Begun, BegunAt, Stream

\* A run of packets that ends with packet i.
EndsAt(nal, row, l) == Len(nal) <= l /\ \A k \in 1..Len(nal) : row[l - Len(nal) + k] = nal[k]

\* Packet i completes the NAL unit whose packets come right before it.
LEMMA NalIsCompleted ==
    ASSUME NEW s \in DOMAIN Senders, s = sender, Sends("h264"), NetTypeOK(s), H264TypeOK(s),
           BegunIsHeld(s), NEW i \in Sent(s), H264(s)!Arrive(i),
           NEW nal, IsNal(s, nal), EndsAt(nal, arrived', Len(arrived) + 1)
    PROVE  Done(s, i) = <<nal>> /\ Stream(s)[nal[1]].ts = Stream(s)[i].ts
<1> DEFINE n == Len(arrived)
<1>1. /\ n \in Nat /\ Len(arrived') = n + 1 /\ arrived'[n + 1] = i
      /\ \A k \in 1..n : arrived'[k] = arrived[k]
  BY Arrival, NetTyped, SenderTyped
<1>2. PICK l \in Nat \ {0} : l = Len(nal) /\ nal \in Seq(Sent(s)) /\ l <= n + 1
  BY DEF IsNal, Nal, EndsAt
<1>0. l \in Nat \ {0} /\ l <= n + 1
  BY <1>2
<1>3. \A k \in 1..l : arrived'[(n + 1) - l + k] = nal[k] /\ nal[k] = nal[1] + k - 1
  BY <1>2, NalParts DEF EndsAt
<1>4. nal[1] \in Nat /\ nal[l] = i
  <2>1. nal[1] \in Sent(s)
    BY <1>2
  <2>2. l \in 1..l /\ (n + 1) - l + l = n + 1
    BY <1>1, <1>2
  <2> QED BY <2>1, <2>2, <1>1, <1>3 DEF Sent
<1>5. Stream(s)[nal[1]].ts = Stream(s)[i].ts
  <2>1. H264Stream(Stream(s)) /\ Len(Stream(s)) \in Nat
    BY SenderTyped DEF Sends
  <2>2. l \in 1..Len(nal)
    BY <1>2
  <2> QED BY <2>1, <2>2, <1>4, NalHasOneTime
<1>6. CASE l = 1
  <2>1. Stream(s)[i].part = "whole" /\ nal = <<i>>
    <3>1. Len(nal) = 1 /\ 1 \in 1..Len(nal) /\ nal \in Seq(Sent(s))
      BY <1>2, <1>6
    <3>2. nal = <<nal[1]>>
      BY <3>1, OneElement
    <3>3. Stream(s)[nal[1]].part = "whole"
      BY <3>1 DEF IsNal
    <3> QED BY <3>2, <3>3, <1>4, <1>6
  <2> QED BY <2>1, <1>5 DEF Done, H264!Completes, Stream
<1>7. CASE l > 1
  <2>1. Stream(s)[i].part = "end"
    BY <1>2, <1>4, <1>7, NalParts
  <2>2. /\ l - 1 \in 1..n /\ n - (l - 1) + 1 \in 1..n
        /\ \A k \in 1..(l - 1) : /\ k \in 1..l /\ n - (l - 1) + k \in 1..n
                                 /\ (n + 1) - l + k = n - (l - 1) + k
    BY <1>7, <1>1, <1>2
  <2>3. \A k \in 1..(l - 1) : arrived[n - (l - 1) + k] = nal[k]
    BY <2>2, <1>1, <1>3
  <2>4. Begun(s, l - 1)
    <3>1. arrived[n - (l - 1) + 1] = nal[1]
      BY <2>2, <2>3
    <3>2. \A k \in 1..(l - 1) : /\ arrived[n - (l - 1) + k] = nal[1] + k - 1
                                /\ Stream(s)[arrived[n - (l - 1) + k]].part = IF k = 1 THEN "start" ELSE "mid"
      <4> TAKE k \in 1..(l - 1)
      <4>2. Stream(s)[nal[k]].part = IF k = 1 THEN "start" ELSE "mid"
        BY <1>2, <1>7, NalParts
      <4> QED BY <4>2, <2>3, <1>3
    <3> QED BY <3>1, <3>2 DEF Begun, BegunAt
  <2>5. fragOk /\ Len(frag) = l - 1 /\ \A k \in 1..(l - 1) : frag[k] = nal[k]
    BY <2>2, <2>3, <2>4 DEF BegunIsHeld
  <2>6. i = Latest + 1 /\ n > 0
    <3>1. l - 1 \in 1..(l - 1) /\ n - (l - 1) + (l - 1) = n /\ n > 0 /\ l - 1 \in 1..l
      BY <2>2, <1>1, <1>2
    <3>2. Latest = nal[l - 1]
      BY <3>1, <2>3 DEF Latest
    <3>3. nal[l - 1] = nal[1] + (l - 1) - 1 /\ nal[l] = nal[1] + l - 1
      BY <3>1, <1>2, <1>3
    <3> QED BY <3>1, <3>2, <3>3, <1>4, <1>2
  <2>7. Ok(s, i) = TRUE
    BY <2>5, <2>6, NextHasNoGap, SenderTyped DEF Ok, H264!Broken
  <2>8. Done(s, i) = << Append(frag, i) >>
    BY <2>1, <2>7 DEF Done, H264!Completes, Stream
  <2>9. Append(frag, i) = nal
    <3>1. frag \in Seq(Sent(s)) /\ (l - 1) + 1 = l
      BY <1>2 DEF H264TypeOK, Nal
    <3>2. /\ Append(frag, i) \in Seq(Sent(s)) /\ Len(Append(frag, i)) = l
          /\ Append(frag, i)[l] = i
          /\ \A k \in 1..(l - 1) : Append(frag, i)[k] = frag[k]
      BY <3>1, <2>5, AppendProperties
    <3>3. \A k \in 1..l : Append(frag, i)[k] = nal[k]
      <4> TAKE k \in 1..l
      <4>1. CASE k = l
        BY <4>1, <3>2, <1>4
      <4>2. CASE k \in 1..(l - 1)
        BY <4>2, <3>2, <2>5
      <4>3. l \in Nat
        BY <1>0
      <4>4. k = l \/ k \in 1..(l - 1)
        BY <4>3
      <4> QED BY <4>1, <4>2, <4>4
    <3> QED BY <3>2, <3>3, <1>2, SeqEqual
  <2> QED BY <2>8, <2>9, <1>5
<1> QED BY <1>2, <1>6, <1>7

LEMMA RunIs ==
    ASSUME NEW S, NEW p \in Seq(S), NEW row, NEW k
    PROVE  [n \in 1..Len(p) |-> row[k + n]] = p <=> \A n \in 1..Len(p) : row[k + n] = p[n]
<1>1. p = [n \in 1..Len(p) |-> p[n]]
  OBVIOUS
<1> QED BY <1>1

\* A run is one already, or it ends with packet i.
LEMMA RunsGrow ==
    ASSUME NEW s \in DOMAIN Senders, Len(Stream(s)) \in Nat, NetTypeOK(s), NEW i \in Sent(s),
           H264(s)!Arrive(i), NEW p \in Seq(Sent(s)), H264(s)!RunOf(p)'
    PROVE  H264(s)!RunOf(p) \/ EndsAt(p, arrived', Len(arrived) + 1)
<1> DEFINE n == Len(arrived)
<1>1. /\ n \in Nat /\ Len(arrived') = n + 1 /\ arrived'[n + 1] = i
      /\ \A k \in 1..n : arrived'[k] = arrived[k]
  BY Arrival, NetTyped
<1>2. PICK l \in Nat : l = Len(p)
  OBVIOUS
<1> HIDE DEF n
<1>3. PICK k \in 0..((n + 1) - l) : \A j \in 1..l : arrived'[k + j] = p[j]
  <2>1. PICK k \in 0..(Len(arrived') - Len(p)) : [m \in 1..Len(p) |-> arrived'[k + m]] = p
    BY DEF H264!RunOf
  <2>2. \A m \in 1..Len(p) : arrived'[k + m] = p[m]
    BY <2>1, RunIs
  <2> QED BY <2>1, <2>2, <1>1, <1>2
<1>4. CASE k = (n + 1) - l
  <2>1. l <= n + 1
    BY <1>1, <1>2, <1>3, <1>4
  <2> QED BY <2>1, <1>2, <1>3, <1>4 DEF EndsAt, n
<1>5. CASE k \in 0..(n - l)
  <2>1. \A j \in 1..l : k + j \in 1..n
    BY <1>1, <1>2, <1>5
  <2>2. \A j \in 1..l : arrived[k + j] = p[j]
    BY <2>1, <1>1, <1>3
  <2>3. [m \in 1..Len(p) |-> arrived[k + m]] = p
    BY <2>2, <1>2, RunIs
  <2> QED BY <2>3, <1>2, <1>5 DEF H264!RunOf, n
<1>6. k = (n + 1) - l \/ k \in 0..(n - l)
  BY <1>1, <1>2, <1>3
<1> QED BY <1>4, <1>5, <1>6

\* The unit has no more NAL units than packets of its frame completed some.
LEMMA UnitIsCounted ==
    ASSUME NEW s \in DOMAIN Senders, s = sender, Sends("h264"), NetTypeOK(s), H264TypeOK(s),
           UnitCounted(s), NEW i \in Sent(s), H264(s)!Arrive(i)
    PROVE  Len(Unit(s, i)) <= H264(s)!Completions(Stream(s)[i].ts)'
<1>1. PICK b \in Nat, d \in Nat : b = Len(Before(s, i)) /\ d = Len(Done(s, i))
  BY UnitTyped
<1>2. /\ Len(Unit(s, i)) = b + d /\ d <= 1
      /\ d = 1 => Stream(s)[i].part \in {"whole", "end"}
  BY <1>1, UnitTyped
<1>3. PICK c \in Nat : c = H264(s)!Completions(Stream(s)[i].ts)
  BY CompletionsGrow, SenderTyped
<1>4. b <= c
  <2>1. CASE haveAu /\ auTs = Stream(s)[i].ts
    BY <2>1, <1>1, <1>3 DEF UnitCounted, Before
  <2>2. CASE ~(haveAu /\ auTs = Stream(s)[i].ts)
    <3>1. b = 0
      BY <2>2, <1>1 DEF Before
    <3> QED BY <3>1, <1>3
  <2> QED BY <2>1, <2>2
<1>5. H264(s)!Completions(Stream(s)[i].ts)'
        = c + IF Stream(s)[i].part \in {"whole", "end"} THEN 1 ELSE 0
  BY <1>3, CompletionsGrow, SenderTyped
<1>6. CASE d = 1
  BY <1>2, <1>4, <1>5, <1>6
<1>7. CASE d = 0
  BY <1>2, <1>4, <1>5, <1>7
<1> QED BY <1>1, <1>2, <1>6, <1>7

LEMMA UnitsStep ==
    ASSUME NEW s \in DOMAIN Senders, s = sender, Sends("h264"), NetTypeOK(s), H264Inv(s),
           NEW i \in Sent(s), H264(s)!Receive(i), reader' = "open"
    PROVE  UnitCounted(s)' /\ UnitsComeOut(s)'
<1>0. H264(s)!Arrive(i) /\ H264(s)!Push(i) /\ Len(Stream(s)) \in Nat
  BY SenderTyped DEF H264!Receive
<1>1. H264TypeOK(s) /\ BegunIsHeld(s) /\ UnitCounted(s) /\ UnitsComeOut(s)
  BY DEF H264Inv
<1>2. Len(Unit(s, i)) <= H264(s)!Completions(Stream(s)[i].ts)'
  BY <1>0, <1>1, UnitIsCounted
<1>3. UnitCounted(s)'
  <2> SUFFICES ASSUME haveAu' PROVE Len(au') <= H264(s)!Completions(auTs)'
    BY DEF UnitCounted
  <2>1. IsHeld(s, i)
    BY <1>0, <1>1, PushDoes DEF IsClosed, IsGone
  <2>2. au' = Unit(s, i) /\ auTs' = Stream(s)[i].ts
    BY <2>1 DEF IsHeld
  <2>3. H264(s)!Completions(auTs)' = H264(s)!Completions(Stream(s)[i].ts)'
    BY <2>2 DEF H264!Completions, Stream
  <2> QED BY <2>2, <2>3, <1>2
<1>4. H264(s)!SenderNals' = H264(s)!SenderNals
  BY DEF H264!SenderNals, H264!Sent
<1>5. ASSUME NEW nal \in H264(s)!SenderNals, NEW ts, ts = Stream(s)[nal[1]].ts,
             H264(s)!RunOf(nal)', H264(s)!Completions(ts)' <= MaxNals
      PROVE  nal \in Pending(s, ts)'
  <2>1. IsNal(s, nal) /\ nal \in Seq(Sent(s))
    BY <1>0, SenderNalsAre DEF IsNal, Nal
  <2>2. nal \in Pending(s, ts) \/ (ts = Stream(s)[i].ts /\ In(Done(s, i), nal))
    <3>1. CASE H264(s)!RunOf(nal)
      <4>1. PICK a \in Nat, b \in Nat :
                a = H264(s)!Completions(ts) /\ b = H264(s)!Completions(ts)' /\ a <= b
        BY <1>0, CompletionsGrow
      <4>2. H264(s)!Completions(ts) <= MaxNals
        BY <4>1, <1>5, SenderAssumption
      <4> QED BY <4>2, <3>1, <1>1, <1>5 DEF UnitsComeOut
    <3>2. CASE EndsAt(nal, arrived', Len(arrived) + 1)
      <4>1. Done(s, i) = <<nal>> /\ ts = Stream(s)[i].ts
        BY <3>2, <2>1, <1>0, <1>1, <1>5, NalIsCompleted
      <4>2. In(Done(s, i), nal)
        BY <4>1 DEF In
      <4> QED BY <4>1, <4>2
    <3> QED BY <3>1, <3>2, <2>1, <1>0, <1>5, RunsGrow
  <2>3. ~(ts = Stream(s)[i].ts /\ Len(Unit(s, i)) > MaxNals)
    <3>1. SUFFICES ASSUME ts = Stream(s)[i].ts PROVE ~(Len(Unit(s, i)) > MaxNals)
      OBVIOUS
    <3>2. PICK c \in Nat : c = H264(s)!Completions(ts)'
      BY <1>0, CompletionsGrow
    <3>3. PICK l \in Nat : l = Len(Unit(s, i))
      BY <1>1, UnitTyped
    <3>4. l <= c /\ c <= MaxNals
      BY <3>1, <3>2, <3>3, <1>2, <1>5
    <3> QED BY <3>2, <3>3, <3>4, SenderAssumption
  <2> QED BY <2>2, <2>3, <1>0, <1>1, PendingStays
<1>6. UnitsComeOut(s)'
  BY <1>4, <1>5 DEF UnitsComeOut, Stream
<1> QED BY <1>3, <1>6

LEMMA H264Step ==
    ASSUME NEW s \in DOMAIN Senders, s = sender, Sends("h264"), NetTypeOK(s), H264Inv(s),
           NEW i \in Sent(s), H264(s)!Receive(i), reader' = "open"
    PROVE  H264Inv(s)'
<1>1. H264(s)!Arrive(i) /\ H264(s)!Push(i)
  BY DEF H264!Receive
<1>2. H264TypeOK(s) /\ BegunIsHeld(s)
  BY DEF H264Inv
<1>3. H264TypeOK(s)' /\ BegunIsHeld(s)'
  BY <1>1, <1>2, H264Typed, BegunStep
<1> QED BY <1>3, UnitsStep DEF H264Inv

LEMMA H264Start ==
    ASSUME NEW s \in DOMAIN Senders, s = sender, Sends("h264"), H264(s)!Init, reader = "binding"
    PROVE  H264Inv(s)
<1>1. /\ arrived = <<>> /\ au = <<>> /\ auTs = 0 /\ haveAu = FALSE
      /\ frag = <<>> /\ fragOk = FALSE /\ records = <<>>
  BY DEF H264!Init, H264!NetInit
<1>2. H264TypeOK(s)
  <2>1. <<>> \in Seq(Nal(s)) /\ <<>> \in Nal(s) /\ <<>> \in Seq(Recs(s)) /\ FALSE \in BOOLEAN /\ 0 \in Nat
    BY DEF Nal
  <2>2. /\ au \in Seq(Nal(s)) /\ auTs \in Nat /\ haveAu \in BOOLEAN
        /\ frag \in Nal(s) /\ fragOk \in BOOLEAN /\ records \in Seq(Recs(s))
    BY <1>1, <2>1, Zenon
  <2> QED BY <2>2, <1>1 DEF H264TypeOK
<1>3. BegunIsHeld(s) /\ UnitCounted(s)
  BY <1>1 DEF BegunIsHeld, UnitCounted
<1>4. UnitsComeOut(s)
  <2> SUFFICES ASSUME NEW nal \in H264(s)!SenderNals, H264(s)!RunOf(nal) PROVE FALSE
    BY DEF UnitsComeOut
  <2>1. nal \in Seq(Sent(s)) /\ nal # <<>>
    BY SenderNalsAre, SenderTyped DEF IsNal, Nal
  <2>2. PICK l \in Nat : l = Len(nal) /\ l > 0
    BY <2>1
  <2>3. Len(arrived) = 0
    BY <1>1
  <2> QED BY <2>2, <2>3 DEF H264!RunOf
<1> QED BY <1>2, <1>3, <1>4 DEF H264Inv

\* At the end what is in the unit comes out.
LEMMA PendingEnds ==
    ASSUME NEW s, H264TypeOK(s), H264(s)!Finish, H264TypeOK(s)',
           NEW ts, NEW x, x \in Pending(s, ts)
    PROVE  x \in Pending(s, ts)'
<1>1. /\ au \in Seq(Nal(s)) /\ auTs \in Nat /\ records \in Seq(Recs(s))
      /\ records' = IF haveAu /\ au # <<>> THEN Append(records, [ts |-> auTs, nals |-> au]) ELSE records
  BY DEF H264TypeOK, H264!Finish, H264!Closed
<1>2. Out(records, ts, x) \/ (haveAu /\ auTs = ts /\ In(au, x))
  BY PendingAre
<1>3. Out(records', ts, x)
  <2>1. CASE haveAu /\ au # <<>>
    <3>1. records' = Append(records, [ts |-> auTs, nals |-> au])
      BY <2>1, <1>1
    <3>2. Out(Append(records, [ts |-> auTs, nals |-> au]), ts, x)
            <=> Out(records, ts, x) \/ (ts = auTs /\ In(au, x))
      BY <1>1, OutGrows
    <3> QED BY <3>1, <3>2, <1>2
  <2>2. CASE ~(haveAu /\ au # <<>>)
    <3>1. ~(haveAu /\ In(au, x))
      BY <2>2 DEF In
    <3> QED BY <3>1, <2>2, <1>1, <1>2
  <2> QED BY <2>1, <2>2
<1> QED BY <1>3, PendingAreNext

\* Nothing is pending any more: all is out.
LEMMA H264Ends ==
    ASSUME NEW s \in DOMAIN Senders, s = sender, Sends("h264"), H264Inv(s), H264(s)!Finish, reader' = "eof"
    PROVE  H264Inv(s)'
<1>1. /\ H264TypeOK(s) /\ BegunIsHeld(s) /\ UnitsComeOut(s)
  BY DEF H264Inv
<1>2. /\ au' = <<>> /\ haveAu' = FALSE /\ auTs' = auTs /\ frag' = frag /\ fragOk' = fragOk
      /\ arrived' = arrived
      /\ records' = IF haveAu /\ au # <<>> THEN Append(records, [ts |-> auTs, nals |-> au]) ELSE records
  BY DEF H264!Finish, H264!Closed, H264!netVars, H264!fragVars
<1>3. /\ au \in Seq(Nal(s)) /\ auTs \in Nat /\ frag \in Nal(s) /\ fragOk \in BOOLEAN
      /\ records \in Seq(Recs(s))
  BY <1>1 DEF H264TypeOK
<1>4. records' \in Seq(Recs(s))
  <2>1. [ts |-> auTs, nals |-> au] \in Recs(s)
    BY <1>3 DEF Recs
  <2> QED BY <2>1, <1>2, <1>3, AppendProperties
<1>5. H264TypeOK(s)'
  <2>1. <<>> \in Seq(Nal(s)) /\ FALSE \in BOOLEAN
    OBVIOUS
  <2>2. au' \in Seq(Nal(s)) /\ haveAu' \in BOOLEAN
    BY <2>1, <1>2, Zenon
  <2> QED BY <2>2, <1>2, <1>3, <1>4 DEF H264TypeOK, Recs, Nal, Sent, Stream
<1>6. BegunIsHeld(s)'
  BY <1>1, <1>2 DEF BegunIsHeld, Begun, BegunAt, Stream
<1>7. UnitCounted(s)'
  BY <1>2 DEF UnitCounted
<1>8. \A ts : \A x \in Pending(s, ts) : x \in Pending(s, ts)'
  BY <1>1, <1>5, PendingEnds
<1>9. UnitsComeOut(s)'
  <2>1. H264(s)!SenderNals' = H264(s)!SenderNals
    BY DEF H264!SenderNals, H264!Sent
  <2>2. \A nal : H264(s)!RunOf(nal)' <=> H264(s)!RunOf(nal)
    BY <1>2 DEF H264!RunOf
  <2>3. \A ts : H264(s)!Completions(ts)' = H264(s)!Completions(ts)
    BY <1>2 DEF H264!Completions, H264!Cardinality
  <2> QED BY <2>1, <2>2, <2>3, <1>1, <1>8 DEF UnitsComeOut, Stream
<1> QED BY <1>5, <1>6, <1>7, <1>9 DEF H264Inv

-----------------------------------------------------------------------------
(* NAL units on an orderly network *)

\* A NAL unit is so many packets from some number on.
Part(l, k) == IF l = 1 THEN "whole" ELSE IF k = 1 THEN "start" ELSE IF k = l THEN "end" ELSE "mid"

NalAt(s, nal, a, l) ==
    /\ l > 0 /\ l = Len(nal) /\ a = nal[1]
    /\ \A k \in 1..l : nal[k] = a + k - 1 /\ Stream(s)[a + k - 1].part = Part(l, k)

LEMMA NalNumbers ==
    ASSUME NEW s, Len(Stream(s)) \in Nat, NEW nal, IsNal(s, nal)
    PROVE  \E a \in Nat, l \in Nat : NalAt(s, nal, a, l)
<1>1. /\ nal \in Seq(Sent(s)) /\ nal # <<>>
      /\ \A k \in 1..Len(nal) : nal[k] = nal[1] + k - 1
      /\ \A k \in 1..Len(nal) : Stream(s)[nal[k]].part = Part(Len(nal), k)
  BY DEF IsNal, Nal, Part
<1>2. PICK l \in Nat : l = Len(nal) /\ l > 0
  BY <1>1
<1>3. PICK a \in Nat : a = nal[1]
  <2>1. nal[1] \in Sent(s)
    BY <1>1, <1>2
  <2> QED BY <2>1 DEF Sent
<1>4. \A k \in 1..l : nal[k] = a + k - 1
  BY <1>1, <1>2, <1>3
<1>5. \A k \in 1..l : Stream(s)[a + k - 1].part = Part(l, k)
  <2> TAKE k \in 1..l
  <2>1. Stream(s)[nal[k]].part = Part(l, k) /\ nal[k] = a + k - 1
    BY <1>1, <1>2, <1>4
  <2> QED BY <2>1
<1> QED BY <1>2, <1>3, <1>4, <1>5 DEF NalAt

\* Where the packets of two NAL units overlap, they are the same.
LEMMA NumbersApart ==
    ASSUME NEW s, NEW a \in Nat, NEW l \in Nat, NEW b \in Nat, NEW m \in Nat,
           NEW p, NEW q, NalAt(s, p, a, l), NalAt(s, q, b, m), a <= b, b <= a + l - 1
    PROVE  a = b /\ l = m
<1>0. /\ l \in Nat \ {0} /\ m \in Nat \ {0}
      /\ \A k \in 1..l : Stream(s)[a + k - 1].part = Part(l, k)
      /\ \A k \in 1..m : Stream(s)[b + k - 1].part = Part(m, k)
  BY DEF NalAt
<1>1. PICK j \in 1..l : j = b - a + 1
  BY <1>0
<1>2. Part(l, j) = Part(m, 1)
  <2>1. Stream(s)[a + j - 1].part = Part(l, j) /\ Stream(s)[b + 1 - 1].part = Part(m, 1)
    BY <1>0
  <2>2. a + j - 1 = b + 1 - 1
    BY <1>1
  <2> QED BY <2>1, <2>2
<1>3. j = 1 /\ (l = 1 <=> m = 1)
  BY <1>0, <1>2 DEF Part
<1>4. a = b
  BY <1>1, <1>3
<1>5. ~(m < l)
  <2> SUFFICES ASSUME m < l PROVE FALSE
    OBVIOUS
  <2>1. Part(l, m) = Part(m, m)
    <3>1. m \in 1..l /\ m \in 1..m
      BY <1>0
    <3>2. Stream(s)[a + m - 1].part = Part(l, m) /\ Stream(s)[b + m - 1].part = Part(m, m)
      BY <3>1, <1>0
    <3> QED BY <3>2, <1>4
  <2>2. m # 1 /\ m # l /\ l # 1
    BY <1>0, <1>3
  <2> QED BY <2>1, <2>2 DEF Part
<1>6. ~(l < m)
  <2> SUFFICES ASSUME l < m PROVE FALSE
    OBVIOUS
  <2>1. Part(l, l) = Part(m, l)
    <3>1. l \in 1..l /\ l \in 1..m
      BY <1>0
    <3>2. Stream(s)[a + l - 1].part = Part(l, l) /\ Stream(s)[b + l - 1].part = Part(m, l)
      BY <3>1, <1>0
    <3> QED BY <3>2, <1>4
  <2>2. l # 1 /\ m # l /\ m # 1
    BY <1>0, <1>3
  <2> QED BY <2>1, <2>2 DEF Part
<1> QED BY <1>0, <1>4, <1>5, <1>6

LEMMA NalsApart ==
    ASSUME NEW s, Len(Stream(s)) \in Nat, NEW p, NEW q, IsNal(s, p), IsNal(s, q),
           p[1] <= q[1], q[1] <= p[Len(p)]
    PROVE  p = q
<1>1. PICK a \in Nat, l \in Nat : NalAt(s, p, a, l)
  BY NalNumbers
<1>2. PICK b \in Nat, m \in Nat : NalAt(s, q, b, m)
  BY NalNumbers
<1>0. a \in Nat /\ b \in Nat /\ l \in Nat \ {0} /\ m \in Nat \ {0}
  BY <1>1, <1>2 DEF NalAt
<1>3. a <= b /\ b <= a + l - 1
  <2>1. p[l] = a + l - 1
    BY <1>1 DEF NalAt
  <2> QED BY <2>1, <1>1, <1>2 DEF NalAt
<1>4. a = b /\ l = m
  BY <1>1, <1>2, <1>3, NumbersApart
<1>5. p \in Seq(Sent(s)) /\ q \in Seq(Sent(s))
  BY DEF IsNal, Nal
<1>6. \A k \in 1..l : p[k] = q[k]
  BY <1>1, <1>2, <1>4 DEF NalAt
<1> QED BY <1>1, <1>2, <1>4, <1>5, <1>6, SeqEqual DEF NalAt

LEMMA ArrivedNalsAre ==
    ASSUME NEW s, Len(Stream(s)) \in Nat, NEW ts, NEW nal
    PROVE  /\ nal \in H264(s)!ArrivedNals(ts) <=>
                 /\ IsNal(s, nal) /\ Stream(s)[nal[1]].ts = ts
                 /\ \A k \in 1..Len(nal) : nal[k] \in H264(s)!ArrivedSet
           /\ nal \in H264(s)!ArrivedNals(ts)' <=>
                 /\ IsNal(s, nal) /\ Stream(s)[nal[1]].ts = ts
                 /\ \A k \in 1..Len(nal) : nal[k] \in H264(s)!ArrivedSet'
<1>1. nal \in H264(s)!SenderNals <=> IsNal(s, nal)
  BY SenderNalsAre
<1>2. H264(s)!SenderNals' = H264(s)!SenderNals
  BY DEF H264!SenderNals, H264!Sent
<1>3. IsNal(s, nal) => DOMAIN nal = 1..Len(nal)
  BY DEF IsNal, Nal
<1> QED BY <1>1, <1>2, <1>3 DEF H264!ArrivedNals, Stream

\* Of an increasing sequence, numbers up to the last that are all in it come last.
LEMMA LastRun ==
    ASSUME NEW n \in Nat \ {0}, NEW row \in [1..n -> Nat],
           \A j, k \in 1..n : j < k => row[j] < row[k],
           NEW l \in Nat \ {0}, \A j \in 0..(l - 1) : \E c \in 1..n : row[c] = row[n] - j
    PROVE  l <= n /\ \A j \in 0..(l - 1) : row[n - j] = row[n] - j
<1>1. PICK i \in Nat : i = row[n]
  OBVIOUS
<1> DEFINE T == {j \in 0..(l - 1) : j < n /\ row[n - j] = i - j}
<1>2. 0 \in T
  BY <1>1
<1>3. ASSUME NEW j \in 1..(l - 1), j - 1 \in T PROVE j \in T
  <2>1. row[n - (j - 1)] = i - (j - 1) /\ j - 1 < n
    BY <1>3
  <2>2. PICK c \in 1..n : row[c] = i - j
    BY <1>1
  <2>3. n - (j - 1) \in 1..n
    BY <2>1
  <2>4. c < n - (j - 1)
    <3>1. ~(n - (j - 1) < c)
      BY <2>1, <2>2, <2>3
    <3>2. row[n - (j - 1)] # row[c]
      BY <2>1, <2>2, <1>1
    <3>3. n - (j - 1) # c
      BY <3>2
    <3> QED BY <3>1, <3>3, <2>1
  <2>5. n - j \in 1..n /\ n - j < n - (j - 1) /\ j < n
    BY <2>2, <2>4
  <2>6. PICK x \in Nat : x = row[n - j]
    BY <2>5
  <2>7. x < i - (j - 1)
    BY <2>1, <2>3, <2>5, <2>6
  <2>8. ~(c < n - j)
    <3> SUFFICES ASSUME c < n - j PROVE FALSE
      OBVIOUS
    <3>1. i - j < x
      BY <2>2, <2>5, <2>6
    <3> QED BY <3>1, <2>7
  <2>9. c = n - j
    BY <2>2, <2>4, <2>8
  <2> QED BY <2>2, <2>5, <2>9
<1>4. 0..(l - 1) \subseteq T
  <2>1. l - 1 \in Nat
    OBVIOUS
  <2> HIDE DEF T
  <2> QED BY <2>1, <1>2, <1>3, InductionUpTo
<1>5. l <= n
  <2>1. l - 1 \in T
    <3>1. l - 1 \in 0..(l - 1)
      OBVIOUS
    <3> HIDE DEF T
    <3> QED BY <3>1, <1>4
  <2> QED BY <2>1
<1> QED BY <1>1, <1>4, <1>5

\* What is in order on an orderly network, after packet i.
LEMMA OrderlyArrival ==
    ASSUME NEW s \in DOMAIN Senders, Len(Stream(s)) \in Nat, NetTypeOK(s), Orderly(s), Orders(s),
           NEW i \in Sent(s), H264(s)!Arrive(i)
    PROVE  /\ \A j \in H264(s)!ArrivedSet : j \in Nat /\ j < i
           /\ \A j, k \in 1..(Len(arrived) + 1) : j < k => arrived'[j] < arrived'[k]
           /\ Len(arrived) > 0 => Latest \in H264(s)!ArrivedSet
           /\ Len(arrived) > 0 /\ H264(s)!Gap(H264(s)!SeqOf(i)) = 0 => i = Latest + 1
<1>1. /\ Len(arrived) \in Nat /\ Len(arrived') = Len(arrived) + 1
      /\ \A k \in 1..Len(arrived) : arrived[k] \in Sent(s)
  BY NetTyped, Arrival
<1>2. \A j, k \in 1..(Len(arrived) + 1) : j < k => arrived'[j] < arrived'[k]
  BY <1>1, OrdersStep DEF Orders, InOrderSoFar, Orderly
<1>3. ASSUME NEW j \in H264(s)!ArrivedSet PROVE j \in Nat /\ j < i
  <2>1. PICK k \in 1..Len(arrived) : j = arrived[k]
    BY <1>3 DEF H264!ArrivedSet
  <2>2. Len(arrived) > 0 /\ j \in Nat
    BY <2>1, <1>1 DEF Sent
  <2>3. arrived[k] <= Latest /\ Latest \in Nat /\ Latest < i
    BY <2>2, NextInOrder
  <2> QED BY <2>1, <2>2, <2>3 DEF Sent
<1>4. Len(arrived) > 0 => Latest \in H264(s)!ArrivedSet
  <2>1. Len(arrived) > 0 => Len(arrived) \in 1..Len(arrived)
    BY <1>1
  <2> QED BY <2>1 DEF H264!ArrivedSet, Latest
<1>5. ASSUME Len(arrived) > 0, H264(s)!Gap(H264(s)!SeqOf(i)) = 0 PROVE i = Latest + 1
  <2>1. i - Latest - 1 = 0 /\ Latest \in Nat
    BY <1>5, NextInOrder
  <2> QED BY <2>1 DEF Sent
<1> QED BY <1>2, <1>3, <1>4, <1>5

\* The NAL unit completed by packet i, whole.
IsCompleted(s, nal, i) ==
    /\ IsNal(s, nal) /\ nal[Len(nal)] = i /\ Stream(s)[nal[1]].ts = Stream(s)[i].ts
    /\ \A k \in 1..Len(nal) : nal[k] \in H264(s)!ArrivedSet \cup {i}

LEMMA DoneIs ==
    ASSUME NEW s \in DOMAIN Senders, s = sender, Sends("h264"), NetTypeOK(s), H264TypeOK(s),
           Orderly(s), Orders(s), FragmentIsWhole(s), NEW i \in Sent(s), H264(s)!Arrive(i)
    PROVE  Done(s, i) = <<>> \/ \E nal : Done(s, i) = <<nal>> /\ IsCompleted(s, nal, i)
<1> DEFINE n == Len(arrived)
<1>0. Len(Stream(s)) \in Nat /\ H264Stream(Stream(s))
  BY SenderTyped DEF Sends
<1>1. n \in Nat /\ \A k \in 1..n : arrived[k] \in Sent(s)
  BY <1>0, NetTyped
<1>2. CASE Stream(s)[i].part = "whole"
  <2>1. PICK nal : nal = <<i>>
    OBVIOUS
  <2>2. nal \in Nal(s) /\ nal # <<>> /\ Len(nal) = 1 /\ nal[1] = i
    BY <2>1 DEF Nal
  <2>3. IsNal(s, nal)
    <3>1. \A k \in 1..1 : nal[k] = nal[1] + k - 1
      BY <2>2 DEF Sent
    <3> QED BY <3>1, <2>2, <1>2 DEF IsNal
  <2>4. IsCompleted(s, nal, i)
    BY <2>2, <2>3 DEF IsCompleted
  <2>5. Done(s, i) = <<nal>>
    BY <2>1, <1>2 DEF Done, H264!Completes, Stream
  <2> QED BY <2>4, <2>5
<1>3. CASE Stream(s)[i].part = "end" /\ Ok(s, i)
  <2>1. PICK f \in Nat \ {0} : f = Len(frag) /\ f <= n
    BY <1>1, <1>3 DEF H264TypeOK, Nal, Ok, FragmentIsWhole
  <2>2. Begun(s, f) /\ \A k \in 1..f : frag[k] = arrived[n - f + k]
    BY <2>1, <1>3 DEF Ok, FragmentIsWhole
  <2>3. PICK a \in Nat : a = arrived[n - f + 1]
    <3>1. n - f + 1 \in 1..n
      BY <2>1, <1>1
    <3> QED BY <3>1, <1>1 DEF Sent
  <2>4. \A k \in 1..f : /\ frag[k] = a + k - 1
                        /\ Stream(s)[frag[k]].part = IF k = 1 THEN "start" ELSE "mid"
    BY <2>2, <2>3 DEF Begun, BegunAt
  <2>5. Latest = a + f - 1 /\ n > 0
    <3>1. f \in 1..f /\ n - f + f = n /\ n > 0
      BY <2>1, <1>1
    <3>2. frag[f] = arrived[n]
      BY <3>1, <2>2
    <3> QED BY <3>1, <3>2, <2>4 DEF Latest
  <2>6. i = a + f
    <3>1. H264(s)!Gap(H264(s)!SeqOf(i)) = 0
      BY <1>3 DEF Ok, H264!Broken
    <3>2. i = Latest + 1
      BY <3>1, <2>5, <1>0, OrderlyArrival
    <3> QED BY <3>2, <2>1, <2>3, <2>5
  <2>7. PICK nal : nal = Append(frag, i)
    OBVIOUS
  <2>8. /\ nal \in Seq(Sent(s)) /\ Len(nal) = f + 1 /\ nal[f + 1] = i
        /\ \A k \in 1..f : nal[k] = frag[k]
    <3>1. frag \in Seq(Sent(s))
      BY DEF H264TypeOK, Nal
    <3> QED BY <3>1, <2>1, <2>7, AppendProperties
  <2>9. \A k \in 1..(f + 1) : k = f + 1 \/ k \in 1..f
    BY <2>1
  <2>10. nal[1] = a
    <3>1. 1 \in 1..f
      BY <2>1
    <3>2. frag[1] = a + 1 - 1
      BY <3>1, <2>4
    <3> QED BY <3>1, <3>2, <2>3, <2>8
  <2>11. IsNal(s, nal)
    <3>1. \A k \in 1..(f + 1) : nal[k] = a + k - 1
      BY <2>4, <2>6, <2>8, <2>9, <2>3, <2>1
    <3>2. \A k \in 1..(f + 1) : Stream(s)[nal[k]].part =
             IF k = 1 THEN "start" ELSE IF k = f + 1 THEN "end" ELSE "mid"
      <4> TAKE k \in 1..(f + 1)
      <4>1. CASE k = f + 1
        <5>1. k # 1
          BY <4>1, <2>1
        <5> QED BY <4>1, <5>1, <2>8, <1>3
      <4>2. CASE k \in 1..f
        <5>1. k # f + 1
          BY <4>2, <2>1
        <5> QED BY <4>2, <5>1, <2>4, <2>8
      <4> QED BY <4>1, <4>2, <2>9
    <3>3. f + 1 # 1 /\ nal # <<>>
      BY <2>1, <2>8
    <3> QED BY <3>1, <3>2, <3>3, <2>8, <2>10 DEF IsNal, Nal
  <2>12. \A k \in 1..(f + 1) : nal[k] \in H264(s)!ArrivedSet \cup {i}
    <3> TAKE k \in 1..(f + 1)
    <3>1. CASE k = f + 1
      BY <3>1, <2>8
    <3>2. CASE k \in 1..f
      <4>1. n - f + k \in 1..n
        BY <3>2, <2>1, <1>1
      <4> QED BY <4>1, <3>2, <2>2, <2>8 DEF H264!ArrivedSet
    <3> QED BY <3>1, <3>2, <2>9
  <2>13. Stream(s)[nal[1]].ts = Stream(s)[i].ts
    <3>1. f + 1 \in 1..Len(nal)
      BY <2>1, <2>8
    <3> QED BY <3>1, <2>8, <2>11, <1>0, NalHasOneTime
  <2>14. IsCompleted(s, nal, i)
    BY <2>8, <2>11, <2>12, <2>13 DEF IsCompleted
  <2>15. Done(s, i) = <<nal>>
    BY <2>7, <1>3 DEF Done, H264!Completes, Stream
  <2> QED BY <2>14, <2>15
<1>4. CASE Stream(s)[i].part # "whole" /\ ~(Stream(s)[i].part = "end" /\ Ok(s, i))
  BY <1>4 DEF Done, H264!Completes, Stream
<1> QED BY <1>2, <1>3, <1>4

LEMMA FragmentStep ==
    ASSUME NEW s \in DOMAIN Senders, s = sender, Sends("h264"), NetTypeOK(s), H264TypeOK(s),
           Orderly(s), Orders(s), FragmentIsWhole(s), NEW i \in Sent(s),
           H264(s)!Arrive(i), H264(s)!Push(i)
    PROVE  FragmentIsWhole(s)'
<1> DEFINE n == Len(arrived)
<1>0. Len(Stream(s)) \in Nat /\ H264Stream(Stream(s))
  BY SenderTyped DEF Sends
<1>1. PICK e \in Nat :
         /\ e = Len(arrived') /\ n \in Nat /\ e = n + 1 /\ arrived'[e] = i
         /\ \A k \in 1..n : arrived'[k] = arrived[k] /\ arrived[k] \in Sent(s)
  BY <1>0, NetTyped, Arrival
<1> HIDE DEF n
<1>2. SUFFICES ASSUME fragOk', NEW g, g = frag'
               PROVE  /\ g # <<>> /\ Len(g) <= e /\ BegunAt(s, arrived', e, Len(g))
                      /\ \A k \in 1..Len(g) : g[k] = arrived'[e - Len(g) + k]
  <2>1. Len(arrived') = e
    BY <1>1
  <2>2. FragmentIsWhole(s)' <=>
          (fragOk' => /\ frag' # <<>> /\ Len(frag') <= Len(arrived')
                      /\ BegunAt(s, arrived', Len(arrived'), Len(frag'))
                      /\ \A k \in 1..Len(frag') : frag'[k] = arrived'[Len(arrived') - Len(frag') + k])
    BY DEF FragmentIsWhole, Begun, BegunAt, Stream
  <2> QED BY <2>1, <2>2
<1>3. CASE Stream(s)[i].part = "start"
  <2>1. g = <<i>>
    BY <1>2, <1>3, PushDoes
  <2>2. g # <<>> /\ Len(g) = 1 /\ g[1] = i
    BY <2>1
  <2>3. BegunAt(s, arrived', e, 1)
    <3>1. \A k \in 1..1 : /\ arrived'[e - 1 + k] = arrived'[e - 1 + 1] + k - 1
                          /\ Stream(s)[arrived'[e - 1 + k]].part = IF k = 1 THEN "start" ELSE "mid"
      BY <1>1, <1>3 DEF Sent
    <3> QED BY <3>1 DEF BegunAt
  <2>4. \A k \in 1..1 : g[k] = arrived'[e - 1 + k]
    BY <2>2, <1>1
  <2>5. 1 <= e
    BY <1>1
  <2> QED BY <2>2, <2>3, <2>4, <2>5
<1>4. CASE Stream(s)[i].part # "start"
  <2>1. Ok(s, i) /\ Stream(s)[i].part # "end"
    BY <1>2, <1>4, PushDoes
  <2>2. PICK f \in Nat \ {0} : f = Len(frag) /\ f <= n
    BY <2>1, <1>1 DEF H264TypeOK, Nal, Ok, FragmentIsWhole, n
  <2>3. Begun(s, f) /\ \A k \in 1..f : frag[k] = arrived[n - f + k]
    BY <2>1, <2>2 DEF Ok, FragmentIsWhole, n
  <2>4. PICK a \in Nat : a = arrived[n - f + 1]
    <3>1. n - f + 1 \in 1..n
      BY <2>2, <1>1
    <3> QED BY <3>1, <1>0, <1>1 DEF Sent
  <2>5. \A k \in 1..f : /\ arrived[n - f + k] = a + k - 1
                        /\ Stream(s)[arrived[n - f + k]].part = IF k = 1 THEN "start" ELSE "mid"
    BY <2>3, <2>4 DEF Begun, BegunAt, n
  <2>6. /\ Latest = a + f - 1 /\ n > 0
        /\ Stream(s)[Latest].part \in {"start", "mid"}
    <3>1. f \in 1..f /\ n - f + f = n /\ n > 0
      BY <2>2, <1>1
    <3>2. arrived[n] = a + f - 1 /\ Stream(s)[arrived[n]].part \in {"start", "mid"}
      BY <3>1, <2>5
    <3> QED BY <3>1, <3>2 DEF Latest, n
  <2>7. i = a + f /\ i = Latest + 1
    <3>1. H264(s)!Gap(H264(s)!SeqOf(i)) = 0
      BY <2>1 DEF Ok, H264!Broken
    <3>2. i = Latest + 1
      BY <3>1, <2>6, <1>0, OrderlyArrival DEF n
    <3> QED BY <3>2, <2>2, <2>4, <2>6
  <2>8. Stream(s)[i].part = "mid"
    <3>1. Latest \in 1..(Len(Stream(s)) - 1)
      <4>1. Latest \in Nat /\ Latest > 0
        BY <2>2, <2>4, <2>6, <2>7, <1>0, <1>1, NetTyped DEF Sent, n
      <4> QED BY <4>1, <2>7, <1>0 DEF Sent
    <3>2. Stream(s)[Latest + 1].part \in {"mid", "end"}
      BY <3>1, <2>6, <1>0 DEF H264Stream
    <3> QED BY <3>2, <2>1, <2>7
  <2>9. g = Append(frag, i)
    BY <1>2, <2>1, <2>8, PushDoes
  <2>10. /\ Len(g) = f + 1 /\ g[f + 1] = i
         /\ \A k \in 1..f : g[k] = frag[k]
    <3>1. frag \in Seq(Sent(s))
      BY DEF H264TypeOK, Nal
    <3> QED BY <3>1, <2>2, <2>9, AppendProperties
  <2>11. \A k \in 1..(f + 1) : k = f + 1 \/ k \in 1..f
    BY <2>2
  <2>12. /\ \A k \in 1..f : /\ e - (f + 1) + k \in 1..n /\ e - (f + 1) + k = n - f + k
         /\ e - (f + 1) + (f + 1) = e
    BY <2>2, <1>1
  <2>13. \A k \in 1..(f + 1) : g[k] = arrived'[e - (f + 1) + k]
    BY <2>3, <2>10, <2>11, <2>12, <1>1
  <2>14. \A k \in 1..(f + 1) : arrived'[e - (f + 1) + k] = a + k - 1
    <3> TAKE k \in 1..(f + 1)
    <3>1. CASE k \in 1..f
      BY <3>1, <2>5, <2>12, <1>1
    <3>2. CASE k = f + 1
      BY <3>2, <2>2, <2>4, <2>7, <2>12, <1>1
    <3> QED BY <3>1, <3>2, <2>11
  <2>15. \A k \in 1..(f + 1) :
            Stream(s)[arrived'[e - (f + 1) + k]].part = IF k = 1 THEN "start" ELSE "mid"
    <3> TAKE k \in 1..(f + 1)
    <3>1. CASE k \in 1..f
      BY <3>1, <2>5, <2>12, <1>1
    <3>2. CASE k = f + 1
      <4>1. k # 1
        BY <3>2, <2>2
      <4> QED BY <4>1, <3>2, <2>8, <2>12, <1>1
    <3> QED BY <3>1, <3>2, <2>11
  <2>16. arrived'[e - (f + 1) + 1] = a
    <3>1. 1 \in 1..(f + 1)
      BY <2>2
    <3>2. arrived'[e - (f + 1) + 1] = a + 1 - 1
      BY <3>1, <2>14
    <3> QED BY <3>2, <2>4
  <2>17. BegunAt(s, arrived', e, f + 1)
    BY <2>14, <2>15, <2>16 DEF BegunAt
  <2>18. g # <<>> /\ f + 1 <= e
    BY <2>2, <2>10, <1>1
  <2> QED BY <2>10, <2>13, <2>17, <2>18
<1> QED BY <1>3, <1>4

\* NAL units of a frame that have arrived stay such.
LEMMA WholeStays ==
    ASSUME NEW s \in DOMAIN Senders, Len(Stream(s)) \in Nat, NetTypeOK(s), NEW i \in Sent(s),
           H264(s)!Arrive(i), NEW nals, NEW ts, WholeNals(s, nals, ts)
    PROVE  WholeNals(s, nals, ts)'
<1>1. \A nal : nal \in H264(s)!ArrivedNals(ts) => nal \in H264(s)!ArrivedNals(ts)'
  BY ArrivedNalsAre, Arrival
<1> QED BY <1>1 DEF WholeNals

\* With the NAL unit it completes, the unit is that of packet i.
LEMMA UnitIsWholeWith ==
    ASSUME NEW s \in DOMAIN Senders, s = sender, Sends("h264"), NetTypeOK(s), H264TypeOK(s),
           Orderly(s), Orders(s), FragmentIsWhole(s), UnitIsWhole(s), NEW i \in Sent(s),
           H264(s)!Arrive(i), NEW u, u = Unit(s, i), NEW ts, ts = Stream(s)[i].ts
    PROVE  WholeNals(s, u, ts)'
<1>0. Len(Stream(s)) \in Nat
  BY SenderTyped
<1>1. /\ Before(s, i) \in Seq(Nal(s)) /\ Done(s, i) \in Seq(Nal(s))
      /\ Len(Unit(s, i)) = Len(Before(s, i)) + Len(Done(s, i))
      /\ \A n \in 1..Len(Before(s, i)) : Unit(s, i)[n] = Before(s, i)[n]
      /\ \A n \in 1..Len(Done(s, i)) : Unit(s, i)[Len(Before(s, i)) + n] = Done(s, i)[n]
      /\ Len(Done(s, i)) <= 1
  BY UnitTyped
<1>2. PICK b \in Nat, d \in Nat : b = Len(Before(s, i)) /\ d = Len(Done(s, i)) /\ d <= 1
  BY <1>1
<1>3. u = Unit(s, i) /\ ts = Stream(s)[i].ts
  OBVIOUS
<1>4. Len(u) = b + d
  BY <1>1, <1>2, <1>3
<1>5. /\ \A n \in 1..b : u[n] \in H264(s)!ArrivedNals(ts)
      /\ \A m, n \in 1..b : m < n => u[m][1] < u[n][1]
  <2>1. CASE haveAu /\ auTs = Stream(s)[i].ts
    <3>1. b = Len(au) /\ \A n \in 1..b : u[n] = au[n]
      BY <2>1, <1>1, <1>2, <1>3 DEF Before
    <3> QED BY <3>1, <2>1, <1>3 DEF UnitIsWhole, WholeNals
  <2>2. CASE ~(haveAu /\ auTs = Stream(s)[i].ts)
    <3>1. b = 0
      BY <2>2, <1>2 DEF Before
    <3> QED BY <3>1
  <2> QED BY <2>1, <2>2
<1>6. \A nal : nal \in H264(s)!ArrivedNals(ts) => nal \in H264(s)!ArrivedNals(ts)'
  BY <1>0, ArrivedNalsAre, Arrival
<1>7. ASSUME d = 1
      PROVE  /\ u[b + 1] \in H264(s)!ArrivedNals(ts)'
             /\ \A m \in 1..b : u[m][1] < u[b + 1][1]
  <2>1. PICK nal : Done(s, i) = <<nal>> /\ IsCompleted(s, nal, i)
    <3>1. Done(s, i) # <<>>
      <4>1. Len(Done(s, i)) = 1
        BY <1>2, <1>7
      <4>2. Len(<<>>) # 1
        OBVIOUS
      <4> QED BY <4>1, <4>2
    <3> QED BY <3>1, DoneIs
  <2>2. u[b + 1] = nal
    <3>1. Done(s, i)[1] = nal /\ 1 \in 1..Len(Done(s, i))
      BY <2>1, <1>2, <1>7
    <3>2. Unit(s, i)[Len(Before(s, i)) + 1] = Done(s, i)[1]
      BY <3>1, <1>1
    <3> QED BY <3>1, <3>2, <1>2, <1>3
  <2>3. nal \in H264(s)!ArrivedNals(ts)'
    <3>1. H264(s)!ArrivedSet' = H264(s)!ArrivedSet \cup {i}
      BY <1>0, Arrival
    <3>2. IsNal(s, nal) /\ Stream(s)[nal[1]].ts = ts
      BY <2>1, <1>3 DEF IsCompleted
    <3>3. \A k \in 1..Len(nal) : nal[k] \in H264(s)!ArrivedSet'
      BY <2>1, <3>1 DEF IsCompleted
    <3> QED BY <3>2, <3>3, <1>0, ArrivedNalsAre
  <2>4. ASSUME NEW m \in 1..b PROVE u[m][1] < nal[1]
    <3>1. PICK q : q = u[m] /\ q \in H264(s)!ArrivedNals(ts)
      BY <1>5
    <3>2. IsNal(s, q) /\ \A k \in 1..Len(q) : q[k] \in H264(s)!ArrivedSet
      BY <3>1, <1>0, ArrivedNalsAre
    <3>3. PICK y \in Nat, l \in Nat : NalAt(s, q, y, l)
      BY <3>2, <1>0, NalNumbers
    <3>4. PICK x \in Nat, e \in Nat : NalAt(s, nal, x, e)
      BY <2>1, <1>0, NalNumbers DEF IsCompleted
    <3>5. y < i /\ q[Len(q)] < i
      <4>1. l \in 1..l /\ 1 \in 1..l /\ l = Len(q) /\ y = q[1]
        BY <3>3 DEF NalAt
      <4>2. q[1] \in H264(s)!ArrivedSet /\ q[l] \in H264(s)!ArrivedSet
        BY <4>1, <3>2
      <4> QED BY <4>1, <4>2, <1>0, OrderlyArrival
    <3>6. nal[Len(nal)] = i /\ nal[1] = x /\ q[1] = y
      BY <2>1, <3>3, <3>4 DEF IsCompleted, NalAt
    <3>7. ~(x <= y)
      <4> SUFFICES ASSUME x <= y PROVE FALSE
        OBVIOUS
      <4>1. y <= i
        BY <3>5 DEF Sent
      <4>2. nal = q
        BY <4>1, <3>2, <3>6, <2>1, <1>0, NalsApart DEF IsCompleted
      <4> QED BY <4>2, <3>5, <3>6 DEF Sent
    <3> QED BY <3>1, <3>6, <3>7
  <2> QED BY <2>2, <2>3, <2>4
<1>8. \A n \in 1..(b + d) : n \in 1..b \/ (n = b + 1 /\ d = 1)
  BY <1>2
<1>9. \A n \in 1..(b + d) : u[n] \in H264(s)!ArrivedNals(ts)'
  BY <1>5, <1>6, <1>7, <1>8
<1>10. \A m, n \in 1..(b + d) : m < n => u[m][1] < u[n][1]
  <2> TAKE m, n \in 1..(b + d)
  <2>1. CASE n \in 1..b
    <3>1. m < n => m \in 1..b
      BY <2>1, <1>2
    <3> QED BY <3>1, <2>1, <1>5
  <2>2. CASE n = b + 1 /\ d = 1
    <3>1. m < n => m \in 1..b
      BY <2>2, <1>2
    <3> QED BY <3>1, <2>2, <1>7
  <2> QED BY <2>1, <2>2, <1>8
<1> QED BY <1>4, <1>9, <1>10 DEF WholeNals

-----------------------------------------------------------------------------
(* Records on an orderly network *)

LEMMA RecordAdded ==
    ASSUME NEW s, NEW rs \in Seq(Recs(s)), NEW t \in Nat, NEW u \in Seq(Nal(s)),
           NEW q, q = Append(rs, [ts |-> t, nals |-> u])
    PROVE  /\ q \in Seq(Recs(s)) /\ Len(rs) \in Nat /\ Len(q) = Len(rs) + 1
           /\ \A k \in 1..Len(rs) : q[k] = rs[k]
           /\ q[Len(rs) + 1].ts = t /\ q[Len(rs) + 1].nals = u
<1> DEFINE o == [ts |-> t, nals |-> u]
<1>1. o \in Recs(s) /\ o.ts = t /\ o.nals = u
  BY DEF Recs
<1>2. q = Append(rs, o)
  OBVIOUS
<1> HIDE DEF o
<1> QED BY <1>1, <1>2, AppendProperties

LEMMA OneMoreWhole ==
    ASSUME NEW s, NEW rs \in Seq(Recs(s)), NEW t \in Nat, NEW u \in Seq(Nal(s)), u # <<>>,
           NEW q, q = Append(rs, [ts |-> t, nals |-> u]),
           AllWhole(s, rs)', WholeNals(s, u, t)'
    PROVE  AllWhole(s, q)'
<1>1. /\ Len(rs) \in Nat /\ Len(q) = Len(rs) + 1
      /\ \A k \in 1..Len(rs) : q[k] = rs[k]
      /\ q[Len(rs) + 1].ts = t /\ q[Len(rs) + 1].nals = u
  BY RecordAdded
<1>2. ASSUME NEW k \in 1..Len(q), NEW v, v = q[k].nals, NEW ts, ts = q[k].ts
      PROVE  v # <<>> /\ WholeNals(s, v, ts)'
  <2>1. CASE k \in 1..Len(rs)
    <3>1. v = rs[k].nals /\ ts = rs[k].ts
      BY <2>1, <1>1, <1>2
    <3> QED BY <3>1, <2>1 DEF AllWhole
  <2>2. CASE k = Len(rs) + 1
    <3>1. v = u /\ ts = t
      BY <2>2, <1>1, <1>2
    <3> QED BY <3>1
  <2> QED BY <2>1, <2>2, <1>1
<1> QED BY <1>2 DEF AllWhole

LEMMA OneMoreInOrder ==
    ASSUME NEW s, NEW rs \in Seq(Recs(s)), NEW t \in Nat, NEW u \in Seq(Nal(s)),
           NEW q, q = Append(rs, [ts |-> t, nals |-> u]), AllInOrder(rs),
           \A k \in 1..Len(rs) : rs[k].ts # t /\ rs[k].nals[1][1] < u[1][1]
    PROVE  AllInOrder(q)
<1>1. /\ Len(rs) \in Nat /\ Len(q) = Len(rs) + 1
      /\ \A k \in 1..Len(rs) : q[k] = rs[k]
      /\ q[Len(rs) + 1].ts = t /\ q[Len(rs) + 1].nals = u
  BY RecordAdded
<1>2. ASSUME NEW j \in 1..Len(q), NEW k \in 1..Len(q), j < k
      PROVE  q[j].ts # q[k].ts /\ q[j].nals[1][1] < q[k].nals[1][1]
  <2>1. j \in 1..Len(rs)
    BY <1>1, <1>2
  <2>2. CASE k \in 1..Len(rs)
    BY <2>1, <2>2, <1>1, <1>2 DEF AllInOrder
  <2>3. CASE k = Len(rs) + 1
    BY <2>1, <2>3, <1>1
  <2> QED BY <2>2, <2>3, <1>1
<1> QED BY <1>2 DEF AllInOrder

LEMMA LatestIsLast ==
    ASSUME NEW s \in DOMAIN Senders, Len(Stream(s)) \in Nat, NetTypeOK(s), Orderly(s), Orders(s),
           NEW j \in H264(s)!ArrivedSet
    PROVE  j \in Sent(s) /\ Latest \in Sent(s) /\ j <= Latest /\ Len(arrived) > 0
<1>1. PICK k \in 1..Len(arrived) : j = arrived[k]
  BY DEF H264!ArrivedSet
<1>2. /\ Len(arrived) \in Nat /\ Len(arrived) > 0 /\ j \in Sent(s) /\ Latest \in Sent(s)
  BY <1>1, NetTyped
<1>3. k < Len(arrived) => arrived[k] < arrived[Len(arrived)]
  BY <1>2 DEF Orders, InOrderSoFar
<1>4. k = Len(arrived) \/ k < Len(arrived)
  BY <1>2
<1> QED BY <1>1, <1>2, <1>3, <1>4 DEF Latest, Sent

\* The packets of a frame are not mixed with those of others.
LEMMA TimesApart ==
    ASSUME NEW s \in DOMAIN Senders, s = sender, Sends("h264"),
           NEW a \in Sent(s), NEW b \in Sent(s), NEW i \in Sent(s), b <= a, a <= i,
           Stream(s)[b].ts = Stream(s)[i].ts
    PROVE  Stream(s)[a].ts = Stream(s)[i].ts
<1>1. Len(Stream(s)) \in Nat /\ H264Stream(Stream(s))
  BY SenderTyped DEF Sends
<1>2. CASE b < i
  <2>1. \A k \in b..i : Stream(s)[k].ts = Stream(s)[b].ts
    BY <1>1, <1>2 DEF H264Stream, Sent
  <2>2. a \in b..i
    BY <1>1 DEF Sent
  <2> QED BY <2>1, <2>2
<1>3. CASE b = i
  BY <1>1, <1>3 DEF Sent
<1> QED BY <1>1, <1>2, <1>3 DEF Sent

\* The first packet of a unit whose NAL units are whole.
LEMMA UnitBegins ==
    ASSUME NEW s, Len(Stream(s)) \in Nat, NEW u \in Seq(Nal(s)), u # <<>>, NEW ts
    PROVE  /\ WholeNals(s, u, ts) =>
                u[1][1] \in H264(s)!ArrivedSet /\ u[1][1] \in Sent(s) /\ Stream(s)[u[1][1]].ts = ts
           /\ WholeNals(s, u, ts)' =>
                u[1][1] \in H264(s)!ArrivedSet' /\ u[1][1] \in Sent(s) /\ Stream(s)[u[1][1]].ts = ts
<1>1. 1 \in 1..Len(u)
  OBVIOUS
<1>2. PICK nal : nal = u[1]
  OBVIOUS
<1>3. IsNal(s, nal) => 1 \in 1..Len(nal) /\ nal[1] \in Sent(s)
  <2>1. ASSUME IsNal(s, nal) PROVE 1 \in 1..Len(nal) /\ nal[1] \in Sent(s)
    <3>1. nal \in Seq(Sent(s)) /\ nal # <<>>
      BY <2>1 DEF IsNal, Nal
    <3> QED BY <3>1
  <2> QED BY <2>1
<1>4. ASSUME WholeNals(s, u, ts)
      PROVE  nal[1] \in H264(s)!ArrivedSet /\ nal[1] \in Sent(s) /\ Stream(s)[nal[1]].ts = ts
  <2>1. nal \in H264(s)!ArrivedNals(ts)
    BY <1>1, <1>2, <1>4 DEF WholeNals
  <2> QED BY <2>1, <1>3, ArrivedNalsAre
<1>5. ASSUME WholeNals(s, u, ts)'
      PROVE  nal[1] \in H264(s)!ArrivedSet' /\ nal[1] \in Sent(s) /\ Stream(s)[nal[1]].ts = ts
  <2>1. nal \in H264(s)!ArrivedNals(ts)'
    BY <1>1, <1>2, <1>5 DEF WholeNals
  <2> QED BY <2>1, <1>3, ArrivedNalsAre
<1> QED BY <1>2, <1>4, <1>5

\* A record of the frame of packet i, if there is one, was closed by the marker,
\* and nothing comes after it.
LEMMA FrameIsOver ==
    ASSUME NEW s \in DOMAIN Senders, s = sender, Sends("h264"), NetTypeOK(s), H264TypeOK(s),
           Orderly(s), Orders(s), UnitIsLatest(s), RecordsAreWhole(s), RecordsAreOver(s),
           NEW i \in Sent(s), H264(s)!Arrive(i),
           NEW k \in 1..Len(records), records[k].ts = Stream(s)[i].ts
    PROVE  /\ Unit(s, i) = <<>>
           /\ \E j \in H264(s)!ArrivedSet : Ends(s, j, Stream(s)[i].ts)
<1>0. Len(Stream(s)) \in Nat /\ H264Stream(Stream(s))
  BY SenderTyped DEF Sends
<1>1. PICK u \in Seq(Nal(s)) : u = records[k].nals /\ u # <<>> /\ WholeNals(s, u, Stream(s)[i].ts)
  <2>1. records[k] \in Recs(s)
    BY ElementOfSeq DEF H264TypeOK
  <2>2. records[k].nals \in Seq(Nal(s))
    BY <2>1 DEF Recs
  <2> QED BY <2>2 DEF RecordsAreWhole, AllWhole
<1>2. PICK a \in Sent(s) : a \in H264(s)!ArrivedSet /\ Stream(s)[a].ts = Stream(s)[i].ts
  BY <1>0, <1>1, UnitBegins
<1>3. a <= Latest /\ Latest \in Sent(s) /\ Len(arrived) > 0
  BY <1>0, <1>2, LatestIsLast
<1>4. Latest <= i
  <2>1. Latest \in H264(s)!ArrivedSet
    BY <1>0, <1>3, OrderlyArrival
  <2> QED BY <2>1, <1>0, OrderlyArrival DEF Sent
<1>5. Stream(s)[Latest].ts = Stream(s)[i].ts
  BY <1>2, <1>3, <1>4, TimesApart
<1>6. PICK j \in H264(s)!ArrivedSet : Ends(s, j, Stream(s)[i].ts)
  BY <1>5 DEF RecordsAreOver
<1>7. Stream(s)[i].part \notin {"whole", "end"}
  <2>1. j \in Sent(s) /\ j < i
    BY <1>0, <1>6, LatestIsLast, OrderlyArrival
  <2> QED BY <2>1, <1>0, <1>6 DEF H264Stream, Ends, Sent
<1>8. Done(s, i) = <<>>
  <2>1. Done(s, i) \in Seq(Nal(s)) /\ Len(Done(s, i)) <= 1 /\ Len(Done(s, i)) # 1
    BY <1>7, UnitTyped
  <2>2. Len(Done(s, i)) = 0
    <3>1. PICK l \in Nat : l = Len(Done(s, i))
      BY <2>1
    <3>2. l <= 1 /\ l # 1
      BY <2>1, <3>1
    <3> QED BY <3>1, <3>2
  <2> QED BY <2>1, <2>2
<1>9. Before(s, i) = <<>>
  BY <1>5 DEF Before, UnitIsLatest
<1> QED BY <1>6, <1>8, <1>9 DEF Unit

\* The unit under assembly comes after every record.
LEMMA UnitComesLast ==
    ASSUME NEW s \in DOMAIN Senders, s = sender, Sends("h264"), NetTypeOK(s), H264TypeOK(s),
           Orderly(s), Orders(s), UnitIsLatest(s), UnitIsWhole(s), RecordsAreWhole(s),
           haveAu, au # <<>>, NEW k \in 1..Len(records)
    PROVE  records[k].ts # auTs /\ records[k].nals[1][1] < au[1][1]
<1>0. Len(Stream(s)) \in Nat
  BY SenderTyped
<1>1. records[k].ts # auTs /\ auTs = Stream(s)[Latest].ts
  BY DEF UnitIsLatest
<1>2. PICK u \in Seq(Nal(s)) : u = records[k].nals /\ u # <<>> /\ WholeNals(s, u, records[k].ts)
  <2>1. records[k] \in Recs(s)
    BY ElementOfSeq DEF H264TypeOK
  <2>2. records[k].nals \in Seq(Nal(s))
    BY <2>1 DEF Recs
  <2> QED BY <2>2 DEF RecordsAreWhole, AllWhole
<1>3. PICK a \in Sent(s) : a = u[1][1] /\ a \in H264(s)!ArrivedSet /\ Stream(s)[a].ts = records[k].ts
  BY <1>0, <1>2, UnitBegins
<1>4. PICK b \in Sent(s) : b = au[1][1] /\ Stream(s)[b].ts = auTs
  BY <1>0, UnitBegins DEF H264TypeOK, UnitIsWhole
<1>5. a <= Latest /\ Latest \in Sent(s)
  BY <1>0, <1>3, LatestIsLast
<1>6. ~(b <= a)
  <2> SUFFICES ASSUME b <= a PROVE FALSE
    OBVIOUS
  <2>1. Stream(s)[a].ts = Stream(s)[Latest].ts
    BY <1>1, <1>4, <1>5, TimesApart
  <2> QED BY <2>1, <1>1, <1>3
<1> QED BY <1>0, <1>1, <1>2, <1>3, <1>4, <1>6 DEF Sent

\* What is written before packet i is looked at is whole and in order, and what
\* the unit becomes comes after it.
LEMMA WrittenIs ==
    ASSUME NEW s \in DOMAIN Senders, s = sender, Sends("h264"), NetTypeOK(s), H264TypeOK(s),
           Orderly(s), Orders(s), FragmentIsWhole(s), UnitIsWhole(s), RecordsAreWhole(s),
           UnitIsLatest(s), RecordsAreOver(s), RecordsInOrder,
           NEW i \in Sent(s), H264(s)!Arrive(i), NEW w, w = Written(s, i)
    PROVE  /\ AllWhole(s, w)' /\ AllInOrder(w)
           /\ \A k \in 1..Len(w) : w[k].ts = Stream(s)[i].ts =>
                 k \in 1..Len(records) /\ records[k].ts = Stream(s)[i].ts
           /\ Unit(s, i) # <<>> => \A k \in 1..Len(w) :
                 w[k].ts # Stream(s)[i].ts /\ w[k].nals[1][1] < Unit(s, i)[1][1]
<1>0. Len(Stream(s)) \in Nat
  BY SenderTyped
<1>1. /\ records \in Seq(Recs(s)) /\ au \in Seq(Nal(s)) /\ auTs \in Nat
      /\ w \in Seq(Recs(s))
  BY UnitTyped DEF H264TypeOK
<1>2. PICK rs \in Seq(Recs(s)), a \in Seq(Nal(s)), t \in Nat : rs = records /\ a = au /\ t = auTs
  BY <1>1
<1>3. AllWhole(s, rs)'
  <2>1. ASSUME NEW k \in 1..Len(rs), NEW v, v = rs[k].nals, NEW ts, ts = rs[k].ts
        PROVE  v # <<>> /\ WholeNals(s, v, ts)'
    <3>1. v # <<>> /\ WholeNals(s, v, ts)
      BY <2>1, <1>2 DEF RecordsAreWhole, AllWhole
    <3> QED BY <3>1, <1>0, WholeStays
  <2> QED BY <2>1 DEF AllWhole
<1>4. AllInOrder(rs)
  BY <1>2 DEF RecordsInOrder
<1>5. /\ AllWhole(s, w)' /\ AllInOrder(w)
      /\ \A k \in 1..Len(w) : w[k].ts = Stream(s)[i].ts =>
            k \in 1..Len(records) /\ records[k].ts = Stream(s)[i].ts
  <2>1. CASE haveAu /\ auTs # Stream(s)[i].ts /\ au # <<>>
    <3>1. w = Append(rs, [ts |-> t, nals |-> a]) /\ a # <<>> /\ t # Stream(s)[i].ts
      BY <1>2, <2>1 DEF Written
    <3>2. WholeNals(s, a, t)'
      <4>1. WholeNals(s, a, t)
        BY <1>2 DEF UnitIsWhole
      <4> QED BY <4>1, <1>0, WholeStays
    <3>3. AllWhole(s, w)'
      BY <3>1, <3>2, <1>2, <1>3, OneMoreWhole
    <3>4. \A k \in 1..Len(rs) : rs[k].ts # t /\ rs[k].nals[1][1] < a[1][1]
      BY <1>2, <2>1, UnitComesLast
    <3>5. AllInOrder(w)
      BY <3>1, <3>4, <1>2, <1>4, OneMoreInOrder
    <3>6. \A k \in 1..Len(w) : w[k].ts = Stream(s)[i].ts =>
              k \in 1..Len(rs) /\ rs[k].ts = Stream(s)[i].ts
      <4>1. /\ Len(rs) \in Nat /\ Len(w) = Len(rs) + 1
            /\ \A k \in 1..Len(rs) : w[k] = rs[k]
            /\ w[Len(rs) + 1].ts = t
        BY <3>1, <1>2, RecordAdded
      <4>2. \A k \in 1..Len(w) : k \in 1..Len(rs) \/ k = Len(rs) + 1
        BY <4>1
      <4> QED BY <4>1, <4>2, <3>1
    <3> QED BY <3>3, <3>5, <3>6, <1>2
  <2>2. CASE ~(haveAu /\ auTs # Stream(s)[i].ts /\ au # <<>>)
    <3>1. w = rs
      BY <1>2, <2>2 DEF Written
    <3> QED BY <3>1, <1>2, <1>3, <1>4
  <2> QED BY <2>1, <2>2
<1>6. ASSUME Unit(s, i) # <<>>, NEW k \in 1..Len(w)
      PROVE  w[k].ts # Stream(s)[i].ts /\ w[k].nals[1][1] < Unit(s, i)[1][1]
  <2>1. w[k].ts # Stream(s)[i].ts
    BY <1>5, <1>6, FrameIsOver
  <2>2. PICK u \in Seq(Nal(s)) : u = Unit(s, i) /\ u # <<>>
    BY <1>6, UnitTyped
  <2>3. PICK ts \in Nat : ts = Stream(s)[i].ts
    BY UnitTyped
  <2>4. PICK b \in Sent(s) : b = u[1][1] /\ Stream(s)[b].ts = ts
    <3>1. WholeNals(s, u, ts)'
      BY <2>2, <2>3, UnitIsWholeWith
    <3> QED BY <3>1, <2>2, <1>0, UnitBegins
  <2>5. PICK v \in Seq(Nal(s)), tv \in Nat : v = w[k].nals /\ tv = w[k].ts /\ v # <<>> /\ WholeNals(s, v, tv)'
    <3>1. w[k] \in Recs(s)
      BY <1>1, <1>6, ElementOfSeq
    <3>2. w[k].nals \in Seq(Nal(s)) /\ w[k].ts \in Nat
      BY <3>1 DEF Recs
    <3> QED BY <3>2, <1>5, <1>6 DEF AllWhole
  <2>6. PICK c \in Sent(s) : c = v[1][1] /\ c \in H264(s)!ArrivedSet' /\ Stream(s)[c].ts = tv
    BY <2>5, <1>0, UnitBegins
  <2>7. c < i
    <3>1. c = i \/ c \in H264(s)!ArrivedSet
      BY <2>6, <1>0, Arrival
    <3>2. c # i
      BY <2>1, <2>5, <2>6
    <3> QED BY <3>1, <3>2, <1>0, OrderlyArrival
  <2>8. ~(b <= c)
    <3> SUFFICES ASSUME b <= c PROVE FALSE
      OBVIOUS
    <3>1. c <= i
      BY <2>7 DEF Sent
    <3>2. Stream(s)[c].ts = Stream(s)[i].ts
      BY <3>1, <2>3, <2>4, TimesApart
    <3> QED BY <3>2, <2>1, <2>5, <2>6
  <2>9. c < b
    BY <2>8, <1>0 DEF Sent
  <2> QED BY <2>1, <2>2, <2>4, <2>5, <2>6, <2>9
<1> QED BY <1>5, <1>6

\* What packet i leaves of the unit and of the records.
LEMMA RecordsStep ==
    ASSUME NEW s \in DOMAIN Senders, s = sender, Sends("h264"), NetTypeOK(s), H264TypeOK(s),
           Orderly(s), Orders(s), FragmentIsWhole(s), UnitIsWhole(s), RecordsAreWhole(s),
           UnitIsLatest(s), RecordsAreOver(s), RecordsInOrder,
           NEW i \in Sent(s), H264(s)!Arrive(i), H264(s)!Push(i)
    PROVE  /\ UnitIsWhole(s)' /\ RecordsAreWhole(s)' /\ RecordsInOrder'
           /\ UnitIsLatest(s)' /\ RecordsAreOver(s)'
<1>0. Len(Stream(s)) \in Nat
  BY SenderTyped
<1>1. PICK u \in Seq(Nal(s)), ts \in Nat, w \in Seq(Recs(s)) :
         u = Unit(s, i) /\ ts = Stream(s)[i].ts /\ w = Written(s, i)
  BY UnitTyped
<1>2. WholeNals(s, u, ts)'
  BY <1>1, UnitIsWholeWith
<1>3. /\ AllWhole(s, w)' /\ AllInOrder(w)
      /\ \A k \in 1..Len(w) : w[k].ts = ts =>
            k \in 1..Len(records) /\ records[k].ts = Stream(s)[i].ts
      /\ u # <<>> => \A k \in 1..Len(w) : w[k].ts # ts /\ w[k].nals[1][1] < u[1][1]
  BY <1>1, WrittenIs
<1>4. Latest' = i /\ arrived' # <<>> /\ i \in H264(s)!ArrivedSet'
  <2>1. Latest' = i /\ Len(arrived') = Len(arrived) + 1 /\ Len(arrived) \in Nat
    BY <1>0, Arrival, NetTyped
  <2>2. i \in H264(s)!ArrivedSet'
    BY <1>0, Arrival
  <2> QED BY <2>1, <2>2
<1>5. \A k \in 1..Len(w) : w[k].ts = ts => \E j \in H264(s)!ArrivedSet' : Ends(s, j, ts)
  <2> SUFFICES ASSUME NEW k \in 1..Len(w), w[k].ts = ts
               PROVE  \E j \in H264(s)!ArrivedSet' : Ends(s, j, ts)
    OBVIOUS
  <2>1. k \in 1..Len(records) /\ records[k].ts = Stream(s)[i].ts
    BY <1>3
  <2>2. \E j \in H264(s)!ArrivedSet : Ends(s, j, Stream(s)[i].ts)
    BY <2>1, FrameIsOver
  <2>3. H264(s)!ArrivedSet' = H264(s)!ArrivedSet \cup {i}
    BY <1>0, Arrival
  <2> QED BY <2>2, <2>3, <1>1
<1>6. CASE IsHeld(s, i)
  <2>1. haveAu' = TRUE /\ au' = u /\ auTs' = ts /\ records' = w
    BY <1>1, <1>6 DEF IsHeld
  <2>2. UnitIsWhole(s)' /\ RecordsAreWhole(s)' /\ RecordsInOrder'
    BY <2>1, <1>2, <1>3 DEF UnitIsWhole, WholeNals, RecordsAreWhole, AllWhole, RecordsInOrder, AllInOrder
  <2>3. UnitIsLatest(s)'
    BY <2>1, <1>1, <1>3, <1>4 DEF UnitIsLatest, Stream
  <2>4. RecordsAreOver(s)'
    BY <2>1, <1>1, <1>4, <1>5 DEF RecordsAreOver, Ends, Stream
  <2> QED BY <2>2, <2>3, <2>4
<1>7. CASE IsClosed(s, i)
  <2>1. /\ haveAu' = FALSE /\ au' = <<>> /\ u # <<>> /\ Ends(s, i, ts)
        /\ records' = Append(w, [ts |-> ts, nals |-> u])
    BY <1>1, <1>7 DEF IsClosed
  <2>2. PICK q : q = records' /\ q = Append(w, [ts |-> ts, nals |-> u])
    BY <2>1
  <2>3. AllWhole(s, q)'
    BY <2>1, <2>2, <1>2, <1>3, OneMoreWhole
  <2>4. AllInOrder(q)
    BY <2>1, <2>2, <1>3, OneMoreInOrder
  <2>5. RecordsAreWhole(s)' /\ RecordsInOrder'
    BY <2>2, <2>3, <2>4 DEF RecordsAreWhole, AllWhole, RecordsInOrder, AllInOrder
  <2>6. UnitIsWhole(s)' /\ UnitIsLatest(s)'
    BY <2>1 DEF UnitIsWhole, WholeNals, UnitIsLatest
  <2>7. RecordsAreOver(s)'
    BY <2>1, <1>1, <1>4 DEF RecordsAreOver, Ends, Stream
  <2> QED BY <2>5, <2>6, <2>7
<1>8. CASE IsGone(s, i)
  <2>1. haveAu' = FALSE /\ au' = <<>> /\ records' = w
    BY <1>1, <1>8 DEF IsGone
  <2>2. RecordsAreWhole(s)' /\ RecordsInOrder'
    BY <2>1, <1>3 DEF RecordsAreWhole, AllWhole, RecordsInOrder, AllInOrder
  <2>3. UnitIsWhole(s)' /\ UnitIsLatest(s)'
    BY <2>1 DEF UnitIsWhole, WholeNals, UnitIsLatest
  <2>4. RecordsAreOver(s)'
    BY <2>1, <1>1, <1>4, <1>5 DEF RecordsAreOver, Ends, Stream
  <2> QED BY <2>2, <2>3, <2>4
<1> QED BY <1>6, <1>7, <1>8, PushDoes

\* So many different elements of a finite set.
LEMMA SoMany ==
    ASSUME NEW n \in Nat, NEW T, IsFiniteSet(T), NEW u, \A k \in 1..n : u[k] \in T,
           \A j, k \in 1..n : j < k => u[j] # u[k]
    PROVE  n <= Cardinality(T) /\ Cardinality(T) \in Nat
<1> DEFINE f == [k \in 1..n |-> u[k]]
<1>1. \A j, k \in 1..n : f[j] = f[k] => j = k
  <2> SUFFICES ASSUME NEW j \in 1..n, NEW k \in 1..n, u[j] = u[k] PROVE j = k
    OBVIOUS
  <2>1. ~(j < k) /\ ~(k < j)
    OBVIOUS
  <2> QED BY <2>1
<1>2. f \in Injection(1..n, T)
  BY <1>1 DEF Injection, IsInjective
<1>3. Cardinality(1..n) = n
  BY FS_Interval
<1>4. Cardinality(1..n) <= Cardinality(T)
  BY <1>2, FS_Injection
<1> QED BY <1>3, <1>4, FS_CardinalityType

\* The NAL units of the sender are finitely many.
LEMMA NalsAreFinite ==
    ASSUME NEW s, Len(Stream(s)) \in Nat, NEW T, \A nal \in T : IsNal(s, nal)
    PROVE  IsFiniteSet(T)
<1> DEFINE f == [nal \in T |-> nal[1]]
<1>1. \A nal \in T : nal[1] \in Sent(s) /\ nal[1] <= nal[Len(nal)]
  <2> TAKE nal \in T
  <2>1. PICK a \in Nat, l \in Nat : NalAt(s, nal, a, l)
    BY NalNumbers
  <2>2. l \in 1..l /\ nal[1] = a /\ nal[l] = a + l - 1 /\ l = Len(nal) /\ l > 0
    BY <2>1 DEF NalAt
  <2>3. nal \in Seq(Sent(s)) /\ nal # <<>>
    BY DEF IsNal, Nal
  <2> QED BY <2>2, <2>3
<1>2. ASSUME NEW p \in T, NEW q \in T, p[1] = q[1] PROVE p = q
  <2>1. p[1] \in Nat
    BY <1>1 DEF Sent
  <2>2. p[1] <= q[1] /\ q[1] <= p[Len(p)]
    BY <1>1, <1>2, <2>1
  <2> QED BY <2>2, NalsApart
<1>3. f \in Injection(T, Sent(s))
  BY <1>1, <1>2 DEF Injection, IsInjective
<1>4. IsFiniteSet(Sent(s))
  BY FS_Interval DEF Sent
<1> QED BY <1>3, <1>4, FS_Injection

\* On an orderly network the packets of a NAL unit that is there once packet i
\* has arrived, and was not before, are the last ones.
LEMMA NalComesLast ==
    ASSUME NEW s \in DOMAIN Senders, Len(Stream(s)) \in Nat, NetTypeOK(s), Orderly(s), Orders(s),
           NEW i \in Sent(s), H264(s)!Arrive(i), NEW x, IsNal(s, x),
           \A k \in 1..Len(x) : x[k] \in H264(s)!ArrivedSet',
           NEW c \in 1..Len(x), x[c] \notin H264(s)!ArrivedSet
    PROVE  EndsAt(x, arrived', Len(arrived) + 1)
<1>1. PICK n \in Nat : n = Len(arrived) + 1
  BY NetTyped
<1>2. /\ Len(arrived') = n /\ arrived'[n] = i
      /\ H264(s)!ArrivedSet' = H264(s)!ArrivedSet \cup {i}
  BY <1>1, Arrival
<1>3. /\ \A j \in H264(s)!ArrivedSet : j \in Nat /\ j < i
      /\ \A j, k \in 1..n : j < k => arrived'[j] < arrived'[k]
  BY <1>1, OrderlyArrival
<1>4. PICK a \in Nat, l \in Nat : NalAt(s, x, a, l)
  BY NalNumbers
<1>5. /\ l \in Nat \ {0} /\ l = Len(x) /\ \A k \in 1..l : x[k] = a + k - 1
  BY <1>4 DEF NalAt
<1>13. l \in Nat \ {0} /\ \A k \in 1..l : x[k] = a + k - 1
  BY <1>5
<1>6. x[c] = i /\ i \in Nat
  BY <1>2 DEF Sent
<1>7. a + l - 1 = i
  <2>1. l \in 1..l /\ c \in 1..l
    BY <1>5
  <2>2. x[l] = a + l - 1 /\ i = a + c - 1
    BY <2>1, <1>5, <1>6
  <2>3. x[l] = i \/ x[l] < i
    BY <2>1, <1>2, <1>3, <1>5
  <2> QED BY <2>1, <2>2, <2>3, <1>6
<1>8. PICK row \in [1..n -> Nat] : row = arrived'
  <2>1. arrived' \in Seq(Sent(s))
    BY Arrival DEF NetTypeOK, Sent, Stream
  <2>2. arrived' \in [1..Len(arrived') -> Sent(s)]
    BY <2>1
  <2> QED BY <2>2, <1>2 DEF Sent
<1>9. \A j \in 0..(l - 1) : \E k \in 1..n : row[k] = row[n] - j
  <2> TAKE j \in 0..(l - 1)
  <2>1. l - j \in 1..l
    BY <1>13
  <2>2. x[l - j] = i - j
    <3>1. x[l - j] = a + (l - j) - 1
      BY <2>1, <1>13
    <3> QED BY <3>1, <1>13, <1>7, <1>6
  <2>3. i - j \in H264(s)!ArrivedSet'
    BY <2>1, <2>2, <1>5
  <2>4. PICK k \in 1..Len(arrived') : arrived'[k] = i - j
    BY <2>3 DEF H264!ArrivedSet
  <2> QED BY <2>4, <1>2, <1>8
<1>10. n \in Nat \ {0}
  <2>1. Len(arrived) \in Nat
    BY NetTyped
  <2> QED BY <2>1, <1>1
<1>11. l <= n /\ \A j \in 0..(l - 1) : row[n - j] = row[n] - j
  BY <1>3, <1>5, <1>8, <1>9, <1>10, LastRun
<1>12. \A k \in 1..l : row[n - l + k] = x[k]
  <2> TAKE k \in 1..l
  <2>1. PICK j \in 0..(l - 1) : j = l - k
    <3>1. l - k \in 0..(l - 1)
      BY <1>13
    <3> QED BY <3>1
  <2>2. row[n - j] = i - j
    BY <1>2, <1>8, <1>11
  <2>3. n - j = n - l + k /\ i - j = a + k - 1
    BY <2>1, <1>13, <1>7, <1>6
  <2> QED BY <2>2, <2>3, <1>13
<1> QED BY <1>1, <1>5, <1>8, <1>11, <1>12 DEF EndsAt

\* Nothing that arrived of a frame within the limit is lost.
LEMMA NoneLostStep ==
    ASSUME NEW s \in DOMAIN Senders, s = sender, Sends("h264"), NetTypeOK(s), H264TypeOK(s),
           BegunIsHeld(s), Orderly(s), Orders(s), FragmentIsWhole(s), UnitIsWhole(s), NoneIsLost(s),
           NEW i \in Sent(s), H264(s)!Arrive(i), H264(s)!Push(i), reader' = "open"
    PROVE  NoneIsLost(s)'
<1>0. Len(Stream(s)) \in Nat
  BY SenderTyped
<1>1. SUFFICES ASSUME NEW j \in Sent(s), NEW ts, ts = Stream(s)[j].ts,
                      Cardinality(H264(s)!ArrivedNals(ts)') <= MaxNals,
                      NEW x, x \in H264(s)!ArrivedNals(ts)'
               PROVE  x \in Pending(s, ts)'
  BY DEF NoneIsLost, Sent, Stream
<1>2. PICK T : T = H264(s)!ArrivedNals(ts)'
  OBVIOUS
<1>3. IsFiniteSet(T) /\ Cardinality(T) <= MaxNals
  BY <1>0, <1>1, <1>2, NalsAreFinite, ArrivedNalsAre
<1>4. Cardinality(H264(s)!ArrivedNals(ts)) <= MaxNals
  <2>1. H264(s)!ArrivedNals(ts) \in SUBSET T
    BY <1>0, <1>2, ArrivedNalsAre, Arrival
  <2>2. /\ Cardinality(H264(s)!ArrivedNals(ts)) \in Nat /\ Cardinality(T) \in Nat
        /\ Cardinality(H264(s)!ArrivedNals(ts)) <= Cardinality(T)
    BY <2>1, <1>3, FS_Subset, FS_CardinalityType
  <2> QED BY <2>2, <1>3, SenderAssumption
<1>5. /\ IsNal(s, x) /\ Stream(s)[x[1]].ts = ts
      /\ \A k \in 1..Len(x) : x[k] \in H264(s)!ArrivedSet'
  BY <1>0, <1>1, ArrivedNalsAre
<1>6. x \in Pending(s, ts) \/ (ts = Stream(s)[i].ts /\ In(Done(s, i), x))
  <2>1. CASE \A k \in 1..Len(x) : x[k] \in H264(s)!ArrivedSet
    <3>1. x \in H264(s)!ArrivedNals(ts)
      BY <2>1, <1>0, <1>5, ArrivedNalsAre
    <3> QED BY <3>1, <1>1, <1>4 DEF NoneIsLost
  <2>2. CASE \E k \in 1..Len(x) : x[k] \notin H264(s)!ArrivedSet
    <3>1. EndsAt(x, arrived', Len(arrived) + 1)
      BY <2>2, <1>0, <1>5, NalComesLast
    <3>2. Done(s, i) = <<x>> /\ Stream(s)[x[1]].ts = Stream(s)[i].ts
      BY <3>1, <1>5, NalIsCompleted
    <3>3. In(<<x>>, x)
      BY DEF In
    <3> QED BY <3>2, <3>3, <1>5
  <2> QED BY <2>1, <2>2
<1>7. x \in Pending(s, ts)' \/ (ts = Stream(s)[i].ts /\ Len(Unit(s, i)) > MaxNals)
  BY <1>6, PendingStays
<1>8. ASSUME ts = Stream(s)[i].ts PROVE ~(Len(Unit(s, i)) > MaxNals)
  <2>1. PICK u \in Seq(Nal(s)), n \in Nat : u = Unit(s, i) /\ n = Len(u)
    BY UnitTyped
  <2>2. WholeNals(s, u, ts)'
    BY <2>1, <1>8, UnitIsWholeWith
  <2>3. /\ \A k \in 1..n : u[k] \in T
        /\ \A p, q \in 1..n : p < q => u[p][1] < u[q][1]
    BY <2>1, <2>2, <1>2 DEF WholeNals
  <2>4. \A p, q \in 1..n : p < q => u[p] # u[q]
    <3> SUFFICES ASSUME NEW p \in 1..n, NEW q \in 1..n, p < q, u[p] = u[q] PROVE FALSE
      OBVIOUS
    <3>1. PICK y \in Sent(s) : y = u[p][1]
      <4>1. IsNal(s, u[p])
        BY <2>3, <1>0, <1>2, ArrivedNalsAre
      <4>2. u[p] \in Seq(Sent(s)) /\ u[p] # <<>>
        BY <4>1 DEF IsNal, Nal
      <4> QED BY <4>2
    <3>2. u[p][1] < u[q][1]
      BY <2>3
    <3> QED BY <3>1, <3>2 DEF Sent
  <2>5. n <= Cardinality(T) /\ Cardinality(T) \in Nat
    BY <2>3, <2>4, <1>3, SoMany
  <2> QED BY <2>1, <2>5, <1>3, SenderAssumption
<1> QED BY <1>7, <1>8

LEMMA WholeStep ==
    ASSUME NEW s \in DOMAIN Senders, s = sender, Sends("h264"), NetTypeOK(s), Orders(s), Orderly(s),
           H264Inv(s), WholeInv(s), reader # "eof",
           NEW i \in Sent(s), H264(s)!Receive(i), reader' = "open"
    PROVE  WholeInv(s)'
<1>1. H264(s)!Arrive(i) /\ H264(s)!Push(i)
  BY DEF H264!Receive
<1>2. H264TypeOK(s) /\ BegunIsHeld(s)
  BY DEF H264Inv
<1>3. /\ FragmentIsWhole(s) /\ UnitIsWhole(s) /\ RecordsAreWhole(s)
      /\ UnitIsLatest(s) /\ RecordsAreOver(s) /\ RecordsInOrder /\ NoneIsLost(s)
  BY DEF WholeInv
<1>4. FragmentIsWhole(s)'
  BY <1>1, <1>2, <1>3, FragmentStep
<1>5. /\ UnitIsWhole(s)' /\ RecordsAreWhole(s)' /\ RecordsInOrder'
      /\ UnitIsLatest(s)' /\ RecordsAreOver(s)'
  BY <1>1, <1>2, <1>3, RecordsStep
<1>6. NoneIsLost(s)'
  BY <1>1, <1>2, <1>3, NoneLostStep
<1> QED BY <1>4, <1>5, <1>6 DEF WholeInv

LEMMA WholeStart ==
    ASSUME NEW s \in DOMAIN Senders, s = sender, Sends("h264"), H264(s)!Init
    PROVE  WholeInv(s)
<1>0. Len(Stream(s)) \in Nat
  BY SenderTyped
<1>1. /\ arrived = <<>> /\ au = <<>> /\ haveAu = FALSE /\ fragOk = FALSE /\ records = <<>>
  BY DEF H264!Init, H264!NetInit
<1>2. FragmentIsWhole(s) /\ UnitIsWhole(s) /\ RecordsAreWhole(s)
  BY <1>1 DEF FragmentIsWhole, UnitIsWhole, WholeNals, RecordsAreWhole, AllWhole
<1>3. UnitIsLatest(s) /\ RecordsAreOver(s) /\ RecordsInOrder
  BY <1>1 DEF UnitIsLatest, RecordsAreOver, RecordsInOrder, AllInOrder
<1>4. NoneIsLost(s)
  <2> SUFFICES ASSUME NEW ts, NEW x, x \in H264(s)!ArrivedNals(ts) PROVE FALSE
    BY DEF NoneIsLost
  <2>1. IsNal(s, x) /\ \A k \in 1..Len(x) : x[k] \in H264(s)!ArrivedSet
    BY <1>0, ArrivedNalsAre
  <2>2. 1 \in 1..Len(x)
    <3>1. x \in Seq(Sent(s)) /\ x # <<>>
      BY <2>1 DEF IsNal, Nal
    <3> QED BY <3>1
  <2>3. PICK k \in 1..Len(arrived) : x[1] = arrived[k]
    BY <2>1, <2>2 DEF H264!ArrivedSet
  <2> QED BY <2>3, <1>1
<1> QED BY <1>2, <1>3, <1>4 DEF WholeInv

LEMMA WholeEnds ==
    ASSUME NEW s \in DOMAIN Senders, s = sender, Sends("h264"), NetTypeOK(s), Orders(s), Orderly(s),
           H264Inv(s), WholeInv(s), reader # "eof", H264(s)!Finish, H264Inv(s)', reader' = "eof"
    PROVE  WholeInv(s)'
<1>0. Len(Stream(s)) \in Nat
  BY SenderTyped
<1>1. H264TypeOK(s) /\ H264TypeOK(s)'
  BY DEF H264Inv
<1>2. /\ FragmentIsWhole(s) /\ UnitIsWhole(s) /\ RecordsAreWhole(s)
      /\ UnitIsLatest(s) /\ RecordsInOrder /\ NoneIsLost(s)
  BY DEF WholeInv
<1>3. /\ au' = <<>> /\ haveAu' = FALSE /\ frag' = frag /\ fragOk' = fragOk /\ arrived' = arrived
      /\ records' = IF haveAu /\ au # <<>> THEN Append(records, [ts |-> auTs, nals |-> au]) ELSE records
  BY DEF H264!Finish, H264!Closed, H264!netVars, H264!fragVars
<1>4. \A ts : H264(s)!ArrivedNals(ts)' = H264(s)!ArrivedNals(ts)
  <2>1. H264(s)!ArrivedSet' = H264(s)!ArrivedSet
    BY <1>3 DEF H264!ArrivedSet
  <2>2. \A ts, x : x \in H264(s)!ArrivedNals(ts)' <=> x \in H264(s)!ArrivedNals(ts)
    BY <2>1, <1>0, ArrivedNalsAre
  <2>3. \A ts : /\ H264(s)!ArrivedNals(ts) \in SUBSET H264(s)!SenderNals
                /\ H264(s)!ArrivedNals(ts)' \in SUBSET H264(s)!SenderNals'
    BY DEF H264!ArrivedNals
  <2> QED BY <2>2, <2>3
<1>5. FragmentIsWhole(s)'
  BY <1>2, <1>3 DEF FragmentIsWhole, Begun, BegunAt, Stream
<1>6. UnitIsWhole(s)' /\ UnitIsLatest(s)'
  BY <1>3 DEF UnitIsWhole, WholeNals, UnitIsLatest
<1>7. NoneIsLost(s)'
  <2>1. \A ts : \A x \in Pending(s, ts) : x \in Pending(s, ts)'
    BY <1>1, PendingEnds
  <2> QED BY <2>1, <1>2, <1>4 DEF NoneIsLost, Sent, Stream
<1>8. PICK rs \in Seq(Recs(s)), u \in Seq(Nal(s)), t \in Nat : rs = records /\ u = au /\ t = auTs
  BY <1>1 DEF H264TypeOK
<1>9. AllWhole(s, rs)' /\ AllInOrder(rs)
  BY <1>2, <1>4, <1>8 DEF RecordsAreWhole, AllWhole, WholeNals, RecordsInOrder
<1>10. RecordsAreWhole(s)' /\ RecordsInOrder'
  <2>1. CASE haveAu /\ u # <<>>
    <3>1. PICK q : q = records' /\ q = Append(rs, [ts |-> t, nals |-> u])
      BY <2>1, <1>3, <1>8
    <3>2. WholeNals(s, u, t)'
      BY <1>2, <1>4, <1>8 DEF UnitIsWhole, WholeNals
    <3>3. \A k \in 1..Len(rs) : rs[k].ts # t /\ rs[k].nals[1][1] < u[1][1]
      BY <2>1, <1>1, <1>2, <1>8, UnitComesLast
    <3>4. AllWhole(s, q)' /\ AllInOrder(q)
      BY <2>1, <3>1, <3>2, <3>3, <1>9, OneMoreWhole, OneMoreInOrder
    <3> QED BY <3>1, <3>4 DEF RecordsAreWhole, AllWhole, RecordsInOrder, AllInOrder
  <2>2. CASE ~(haveAu /\ u # <<>>)
    <3>1. PICK q : q = records' /\ q = rs
      BY <2>2, <1>3, <1>8
    <3>2. AllWhole(s, q)' /\ AllInOrder(q)
      BY <3>1, <1>9
    <3> QED BY <3>1, <3>2 DEF RecordsAreWhole, AllWhole, RecordsInOrder, AllInOrder
  <2> QED BY <2>1, <2>2
<1> QED BY <1>5, <1>6, <1>7, <1>10 DEF WholeInv

-----------------------------------------------------------------------------
(* What has come out *)

\* The records are what the sender sent (NalsAreWhole), and once all is out
\* nothing that arrived is missing (NothingElseIsLost).
LEMMA WholeShows ==
    ASSUME NEW s \in DOMAIN Senders, s = sender, Sends("h264"), H264Inv(s), WholeInv(s)
    PROVE  /\ H264(s)!NalsAreWhole
           /\ reader = "eof" => H264(s)!NothingElseIsLost
<1>0. Len(Stream(s)) \in Nat
  BY SenderTyped
<1>1. H264TypeOK(s)
  BY DEF H264Inv
<1>2. RecordsAreWhole(s) /\ RecordsInOrder /\ NoneIsLost(s)
  BY DEF WholeInv
<1>3. ASSUME NEW k \in 1..Len(records), NEW n \in 1..Len(records[k].nals)
      PROVE  records[k].nals[n] \in H264(s)!ArrivedNals(records[k].ts)
  BY <1>2, <1>3 DEF RecordsAreWhole, AllWhole, WholeNals
<1>4. H264(s)!NalsAreWhole
  BY <1>3 DEF H264!NalsAreWhole, H264!ArrivedNals
<1>5. ASSUME reader = "eof" PROVE H264(s)!NothingElseIsLost
  <2>1. ~haveAu /\ records \in Seq(Recs(s))
    BY <1>1, <1>5 DEF H264TypeOK
  <2>2. DOMAIN records = 1..Len(records) /\ \A k \in 1..Len(records) : records[k].nals \in Seq(Nal(s))
    <3>1. \A k \in 1..Len(records) : records[k] \in Recs(s)
      BY <2>1, ElementOfSeq
    <3> QED BY <3>1, <2>1 DEF Recs
  <2>3. \A k \in DOMAIN records : \A m, n \in DOMAIN records[k].nals :
           m < n => records[k].nals[m][1] < records[k].nals[n][1]
    <3> TAKE k \in DOMAIN records
    <3>1. DOMAIN records[k].nals = 1..Len(records[k].nals)
      BY <2>2
    <3> QED BY <3>1, <2>2, <1>2 DEF RecordsAreWhole, AllWhole, WholeNals
  <2>4. ASSUME NEW i \in H264(s)!Sent, NEW ts, ts = Stream(s)[i].ts,
               H264(s)!Cardinality(H264(s)!ArrivedNals(ts)) <= MaxNals
        PROVE  H264(s)!Emitted(ts) = H264(s)!ArrivedNals(ts)
    <3>1. H264(s)!ArrivedNals(ts) \in SUBSET Pending(s, ts)
      <4>1. Cardinality(H264(s)!ArrivedNals(ts)) <= MaxNals
        BY <2>4, SameCardinality
      <4> QED BY <4>1, <2>4, <1>2 DEF NoneIsLost, H264!Sent, Sent, Stream
    <3>2. Pending(s, ts) = H264(s)!Emitted(ts)
      BY <2>1 DEF Pending
    <3>3. ASSUME NEW x \in H264(s)!Emitted(ts) PROVE x \in H264(s)!ArrivedNals(ts)
      <4>1. Out(records, ts, x)
        BY <3>2, <3>3, <2>1, <1>1, PendingAre
      <4> QED BY <4>1, <1>3 DEF Out, In
    <3> QED BY <3>1, <3>2, <3>3
  <2>5. \A ts \in {Stream(s)[i].ts : i \in H264(s)!Sent} :
           H264(s)!Cardinality(H264(s)!ArrivedNals(ts)) <= MaxNals =>
               H264(s)!Emitted(ts) = H264(s)!ArrivedNals(ts)
    BY <2>4
  <2> QED BY <2>3, <2>5, <1>2 DEF H264!NothingElseIsLost, RecordsInOrder, AllInOrder, Stream
<1> QED BY <1>4, <1>5

\* Once all is out, a NAL unit that arrived in one piece is out.
LEMMA UnitsShow ==
    ASSUME NEW s \in DOMAIN Senders, s = sender, Sends("h264"), H264Inv(s), reader = "eof"
    PROVE  H264(s)!Resynchronises
<1>1. ~haveAu /\ UnitsComeOut(s)
  BY DEF H264Inv, H264TypeOK
<1>2. \A ts : Pending(s, ts) = H264(s)!Emitted(ts)
  BY <1>1 DEF Pending
<1> QED BY <1>1, <1>2 DEF UnitsComeOut, H264!Resynchronises, Stream

-----------------------------------------------------------------------------
(* What a packet does to the JPEG under assembly *)

\* A packet is ignored, or the frame is given up; it starts a frame, or continues
\* the one under assembly, and the marker writes it.
IsIgnored(s, i) ==
    /\ Stream(s)[i].shape = "odd" \/ (Stream(s)[i].off # 0 /\ ~inFrame)
    /\ scan' = scan /\ inFrame' = inFrame /\ frameTs' = frameTs
    /\ dropped' = dropped /\ starts' = starts /\ records' = records

IsGivenUp(s, i) ==
    /\ scan' \in {scan, <<>>} /\ inFrame' = FALSE /\ frameTs' \in {frameTs, Stream(s)[i].ts}
    /\ dropped' = dropped + (IF inFrame THEN 1 ELSE 0) /\ starts' = starts /\ records' = records

IsStarted(s, i) ==
    /\ Stream(s)[i].off = 0 /\ tables' # None
    /\ scan' = <<i>> /\ starts' = starts + 1
    /\ dropped' = dropped + (IF inFrame THEN 1 ELSE 0)

IsContinued(s, i) ==
    /\ inFrame /\ Stream(s)[i].shape # "odd" /\ Stream(s)[i].off # 0
    /\ Stream(s)[i].off = Len(scan) /\ Stream(s)[i].ts = frameTs
    /\ scan' = Append(scan, i) /\ starts' = starts /\ dropped' = dropped

IsTaken(s, i) ==
    /\ IsStarted(s, i) \/ IsContinued(s, i)
    /\ frameTs' = Stream(s)[i].ts /\ inFrame' = ~Stream(s)[i].marker
    /\ records' = IF Stream(s)[i].marker
                  THEN Append(records, [ts |-> Stream(s)[i].ts, scan |-> scan', tables |-> tables'])
                  ELSE records

LEMMA JpegPackets ==
    ASSUME NEW s \in DOMAIN Senders, s = sender, Sends("jpeg")
    PROVE  /\ Len(Stream(s)) \in Nat /\ None \notin Int
           /\ \A i \in Sent(s) :
                 /\ Stream(s)[i].ts \in Nat /\ Stream(s)[i].off \in Nat
                 /\ Stream(s)[i].marker \in BOOLEAN
                 /\ Brings(s, i) => Stream(s)[i].off = 0 /\ Stream(s)[i].shape # "odd"
                 /\ \A j \in Sent(s) :
                       Stream(s)[i].ts = Stream(s)[j].ts /\ Stream(s)[i].off = Stream(s)[j].off => i = j
                 /\ Stream(s)[i].shape # "odd" /\ Stream(s)[i].off # 0 =>
                       /\ i - 1 \in Sent(s) /\ Stream(s)[i - 1].ts = Stream(s)[i].ts
                       /\ Stream(s)[i - 1].off = Stream(s)[i].off - 1 /\ ~Stream(s)[i - 1].marker
<1>1. /\ Len(Stream(s)) \in Nat /\ None \notin Int /\ JpegStream(Stream(s))
      /\ \A i \in Sent(s) : Stream(s)[i] \in PacketShapes("jpeg")
  BY SenderTyped DEF Sends
<1>2. SUFFICES ASSUME NEW i \in Sent(s)
               PROVE  /\ Stream(s)[i].ts \in Nat /\ Stream(s)[i].off \in Nat
                      /\ Stream(s)[i].marker \in BOOLEAN
                      /\ Brings(s, i) => Stream(s)[i].off = 0 /\ Stream(s)[i].shape # "odd"
                      /\ \A j \in Sent(s) :
                            Stream(s)[i].ts = Stream(s)[j].ts /\ Stream(s)[i].off = Stream(s)[j].off => i = j
                      /\ Stream(s)[i].shape # "odd" /\ Stream(s)[i].off # 0 =>
                            /\ i - 1 \in Sent(s) /\ Stream(s)[i - 1].ts = Stream(s)[i].ts
                            /\ Stream(s)[i - 1].off = Stream(s)[i].off - 1 /\ ~Stream(s)[i - 1].marker
  BY <1>1
<1>3. Stream(s)[i].ts \in Nat /\ Stream(s)[i].off \in Nat /\ Stream(s)[i].marker \in BOOLEAN
  BY <1>1 DEF PacketShapes
<1>4. i > 1 => i - 1 \in Sent(s)
  BY <1>1 DEF Sent
<1> QED BY <1>1, <1>3, <1>4 DEF JpegStream, Brings, Sent

LEMMA JpegDoes ==
    ASSUME NEW s \in DOMAIN Senders, s = sender, Sends("jpeg"), JpegTypeOK(s), ScanIsFrame(s),
           NEW i \in Sent(s), Jpeg(s)!Receive(i)
    PROVE  /\ H264(s)!Arrive(i)
           /\ tables' = IF Brings(s, i) THEN i ELSE tables
           /\ IsIgnored(s, i) \/ IsGivenUp(s, i) \/ IsTaken(s, i)
           /\ Brings(s, i) => IsTaken(s, i) /\ IsStarted(s, i)
<1>1. /\ Brings(s, i) => Stream(s)[i].off = 0 /\ Stream(s)[i].shape # "odd"
      /\ Stream(s)[i].off \in Nat /\ None \notin Int /\ i \in Int
  BY JpegPackets DEF Sent
<1>2. H264(s)!Arrive(i)
  <2>1. Jpeg(s)!Arrive(i)
    BY DEF Jpeg!Receive, Jpeg!Ignore, Jpeg!Start, Jpeg!StartWithoutTables, Jpeg!Continue, Jpeg!Break
  <2> QED BY <2>1, SameNetwork
<1>3. inFrame => scan # <<>>
  BY DEF ScanIsFrame, FrameSoFar
<1>4. Jpeg(s)!Abandoned = IF inFrame THEN 1 ELSE 0
  BY <1>3 DEF Jpeg!Abandoned
<1>5. CASE Jpeg(s)!Ignore(i)
  <2>1. IsIgnored(s, i) /\ tables' = tables /\ ~Brings(s, i)
    BY <1>5, <1>1 DEF Jpeg!Ignore, Jpeg!frameVars, Jpeg!depayVars, IsIgnored, Stream
  <2> QED BY <2>1, <1>2
<1>6. CASE Jpeg(s)!Start(i)
  <2>1. tables' = IF Stream(s)[i].shape = "kept" THEN tables ELSE i
    BY <1>6 DEF Jpeg!Start, Jpeg!TablesAfter, Stream
  <2>2. Brings(s, i) \/ (Stream(s)[i].shape = "kept" /\ tables # None)
    BY <1>6 DEF Jpeg!Start, Jpeg!Usable, Brings, Stream
  <2>3. tables' = IF Brings(s, i) THEN i ELSE tables
    BY <2>1, <2>2 DEF Brings
  <2>4. tables' # None
    BY <2>2, <2>3, <1>1
  <2>5. IsTaken(s, i) /\ IsStarted(s, i)
    BY <2>4, <1>4, <1>6 DEF Jpeg!Start, Jpeg!Written, IsTaken, IsStarted, Stream
  <2> QED BY <2>3, <2>5, <1>2
<1>7. CASE Jpeg(s)!StartWithoutTables(i)
  <2>1. ~Brings(s, i) /\ tables' = tables
    BY <1>7 DEF Jpeg!StartWithoutTables, Jpeg!Usable, Brings, Stream
  <2>2. IsGivenUp(s, i)
    BY <1>4, <1>7 DEF Jpeg!StartWithoutTables, IsGivenUp, Stream
  <2> QED BY <2>1, <2>2, <1>2
<1>8. CASE Jpeg(s)!Continue(i)
  <2>1. ~Brings(s, i) /\ tables' = tables
    BY <1>1, <1>8 DEF Jpeg!Continue, Stream
  <2>2. IsTaken(s, i)
    BY <1>8 DEF Jpeg!Continue, Jpeg!Fits, Jpeg!Written, IsTaken, IsContinued, Stream
  <2> QED BY <2>1, <2>2, <1>2
<1>9. CASE Jpeg(s)!Break(i)
  <2>1. ~Brings(s, i) /\ tables' = tables
    BY <1>1, <1>9 DEF Jpeg!Break, Stream
  <2>2. IsGivenUp(s, i)
    BY <1>9 DEF Jpeg!Break, IsGivenUp, Stream
  <2> QED BY <2>1, <2>2, <1>2
<1> QED BY <1>5, <1>6, <1>7, <1>8, <1>9 DEF Jpeg!Receive

\* The frame that packet i belongs to, up to it.
LEMMA FrameTaken ==
    ASSUME NEW s \in DOMAIN Senders, s = sender, Sends("jpeg"), JpegTypeOK(s), ScanIsFrame(s),
           NEW i \in Sent(s), IsTaken(s, i), NEW p, p = scan'
    PROVE  /\ p \in Nal(s) /\ FrameSoFar(s, p, Stream(s)[i].ts) /\ p[Len(p)] = i
           /\ ~Stream(s)[i].marker => \A n \in 1..Len(p) : ~Stream(s)[p[n]].marker
<1>0. /\ Len(Stream(s)) \in Nat /\ i \in Nat /\ scan \in Seq(Sent(s))
  BY JpegPackets DEF JpegTypeOK, Nal, Sent
<1>1. CASE IsStarted(s, i)
  <2>1. p = <<i>> /\ Stream(s)[i].off = 0
    BY <1>1 DEF IsStarted
  <2>2. Len(p) = 1 /\ p[1] = i /\ p \in Nal(s) /\ p # <<>>
    BY <2>1 DEF Nal
  <2>3. \A n \in 1..Len(p) : n = 1
    BY <2>2
  <2> QED BY <2>1, <2>2, <2>3, <1>0 DEF FrameSoFar
<1>2. CASE IsContinued(s, i)
  <2>1. PICK l \in Nat : l = Len(scan) /\ l > 0
    <3>1. scan # <<>>
      BY <1>2 DEF IsContinued, ScanIsFrame, FrameSoFar
    <3> QED BY <3>1, <1>0
  <2>2. /\ p \in Seq(Sent(s)) /\ Len(p) = l + 1 /\ p[l + 1] = i
        /\ \A n \in 1..l : p[n] = scan[n]
    BY <2>1, <1>0, <1>2, AppendProperties DEF IsContinued
  <2>3. /\ Stream(s)[i].shape # "odd" /\ Stream(s)[i].off = l /\ Stream(s)[i].ts = frameTs
        /\ \A n \in 1..l : /\ scan[n] = scan[1] + n - 1 /\ scan[n] \in Sent(s)
                           /\ Stream(s)[scan[n]].ts = frameTs /\ Stream(s)[scan[n]].off = n - 1
                           /\ ~Stream(s)[scan[n]].marker
    BY <2>1, <1>0, <1>2 DEF IsContinued, ScanIsFrame, FrameSoFar
  <2>4. i - 1 = scan[l] /\ scan[l] = scan[1] + l - 1
    <3>1. PICK m \in Sent(s) : /\ m = scan[l] /\ m = scan[1] + l - 1
                               /\ Stream(s)[m].ts = frameTs /\ Stream(s)[m].off = l - 1
      <4>1. l \in 1..l
        BY <2>1
      <4> QED BY <4>1, <2>3
    <3>2. /\ i - 1 \in Sent(s) /\ Stream(s)[i - 1].ts = Stream(s)[i].ts
          /\ Stream(s)[i - 1].off = Stream(s)[i].off - 1
      BY <2>1, <2>3, JpegPackets
    <3>3. Stream(s)[i - 1].ts = Stream(s)[m].ts /\ Stream(s)[i - 1].off = Stream(s)[m].off
      BY <3>1, <3>2, <2>3
    <3>4. i - 1 = m
      BY <3>2, <3>3, JpegPackets
    <3> QED BY <3>1, <3>4
  <2>5. i = scan[1] + (l + 1) - 1
    <3>1. PICK f \in Nat : f = scan[1]
      <4>1. 1 \in 1..l
        BY <2>1
      <4> QED BY <4>1, <2>3 DEF Sent
    <3>2. i - 1 = f + l - 1
      BY <3>1, <2>4
    <3> QED BY <3>1, <3>2, <2>1, <1>0
  <2>6. /\ p[1] = scan[1]
        /\ \A n \in 1..(l + 1) : n \in 1..l \/ n = l + 1
    BY <2>1, <2>2
  <2>7. \A n \in 1..(l + 1) :
            /\ p[n] = p[1] + n - 1 /\ Stream(s)[p[n]].ts = Stream(s)[i].ts
            /\ Stream(s)[p[n]].off = n - 1
            /\ n < l + 1 => ~Stream(s)[p[n]].marker
    <3> TAKE n \in 1..(l + 1)
    <3>1. CASE n \in 1..l
      BY <3>1, <2>2, <2>3, <2>6
    <3>2. CASE n = l + 1
      <4>1. p[n] = i /\ Stream(s)[i].off = n - 1 /\ i = p[1] + n - 1 /\ ~(n < l + 1)
        BY <3>2, <2>1, <2>2, <2>3, <2>5, <2>6
      <4> QED BY <4>1
    <3> QED BY <3>1, <3>2, <2>6
  <2>8. \A n \in 1..(l + 1) : n < l + 1 \/ n = l + 1
    BY <2>1
  <2>9. p # <<>> /\ p \in Nal(s)
    BY <2>1, <2>2 DEF Nal
  <2> QED BY <2>2, <2>7, <2>8, <2>9 DEF FrameSoFar
<1> QED BY <1>1, <1>2 DEF IsTaken

\* Its JPEG, if the marker writes it.
LEMMA JpegAdded ==
    ASSUME NEW s, NEW rs \in Seq(JpegRecs(s)), NEW t \in Nat, NEW p \in Nal(s),
           NEW quant \in Sent(s) \cup {None},
           NEW r, r = Append(rs, [ts |-> t, scan |-> p, tables |-> quant])
    PROVE  /\ r \in Seq(JpegRecs(s)) /\ Len(rs) \in Nat /\ Len(r) = Len(rs) + 1
           /\ \A k \in 1..Len(rs) : r[k] = rs[k]
           /\ r[Len(rs) + 1].ts = t /\ r[Len(rs) + 1].scan = p /\ r[Len(rs) + 1].tables = quant
<1> DEFINE o == [ts |-> t, scan |-> p, tables |-> quant]
<1>1. o \in JpegRecs(s) /\ o.ts = t /\ o.scan = p /\ o.tables = quant
  BY DEF JpegRecs
<1>2. r = Append(rs, o)
  OBVIOUS
<1> HIDE DEF o
<1> QED BY <1>1, <1>2, AppendProperties

\* What is written is the records that were, or they and the frame of packet i.
LEMMA JpegTyped ==
    ASSUME NEW s \in DOMAIN Senders, s = sender, Sends("jpeg"), JpegTypeOK(s), ScanIsFrame(s),
           NEW i \in Sent(s), Jpeg(s)!Receive(i)
    PROVE  /\ JpegTypeOK(s)'
           /\ records' = records \/
                 /\ IsTaken(s, i) /\ Stream(s)[i].marker
                 /\ Len(records) \in Nat /\ Len(records') = Len(records) + 1
                 /\ \A k \in 1..Len(records) : records'[k] = records[k]
                 /\ records'[Len(records) + 1].ts = Stream(s)[i].ts
                 /\ records'[Len(records) + 1].scan = scan'
                 /\ records'[Len(records) + 1].tables = tables'
<1>1. /\ scan \in Nal(s) /\ inFrame \in BOOLEAN /\ frameTs \in Nat
      /\ tables \in Sent(s) \cup {None} /\ dropped \in Nat /\ starts \in Nat
      /\ records \in Seq(JpegRecs(s))
  BY DEF JpegTypeOK
<1>2. Stream(s)[i].ts \in Nat /\ Stream(s)[i].marker \in BOOLEAN
  BY JpegPackets
<1>3. tables' \in Sent(s) \cup {None}
  BY <1>1, JpegDoes
<1>4. CASE IsIgnored(s, i)
  <2>1. /\ scan' = scan /\ inFrame' = inFrame /\ frameTs' = frameTs
        /\ dropped' = dropped /\ starts' = starts /\ records' = records
    BY <1>4 DEF IsIgnored
  <2> QED BY <2>1, <1>1, <1>3 DEF JpegTypeOK, JpegRecs, Nal, Sent, Stream
<1>5. CASE IsGivenUp(s, i)
  <2>1. /\ inFrame' = FALSE /\ starts' = starts /\ records' = records
        /\ dropped' = dropped + (IF inFrame THEN 1 ELSE 0)
    BY <1>5 DEF IsGivenUp
  <2>2. frameTs' \in Nat
    BY <1>1, <1>2, <1>5 DEF IsGivenUp
  <2>3. scan' \in Nal(s)
    <3>1. <<>> \in Nal(s)
      BY DEF Nal
    <3> QED BY <3>1, <1>1, <1>5 DEF IsGivenUp
  <2>4. dropped' \in Nat
    BY <2>1, <1>1
  <2> QED BY <2>1, <2>2, <2>3, <2>4, <1>1, <1>3 DEF JpegTypeOK, JpegRecs, Nal, Sent, Stream
<1>6. CASE IsTaken(s, i)
  <2>1. /\ frameTs' = Stream(s)[i].ts /\ inFrame' = ~Stream(s)[i].marker
        /\ records' = IF Stream(s)[i].marker
                      THEN Append(records, [ts |-> Stream(s)[i].ts, scan |-> scan', tables |-> tables'])
                      ELSE records
    BY <1>6 DEF IsTaken
  <2>2. scan' \in Nal(s)
    BY <1>6, FrameTaken
  <2>3. starts' \in Nat /\ dropped' \in Nat
    BY <1>1, <1>6 DEF IsTaken, IsStarted, IsContinued
  <2>4. CASE Stream(s)[i].marker
    <3>1. records' = Append(records, [ts |-> Stream(s)[i].ts, scan |-> scan', tables |-> tables'])
      BY <2>1, <2>4
    <3>2. /\ records' \in Seq(JpegRecs(s)) /\ Len(records) \in Nat /\ Len(records') = Len(records) + 1
          /\ \A k \in 1..Len(records) : records'[k] = records[k]
          /\ records'[Len(records) + 1].ts = Stream(s)[i].ts
          /\ records'[Len(records) + 1].scan = scan'
          /\ records'[Len(records) + 1].tables = tables'
      BY <3>1, <2>2, <1>1, <1>2, <1>3, JpegAdded
    <3> QED BY <3>2, <2>1, <2>2, <2>3, <2>4, <1>2, <1>3, <1>6 DEF JpegTypeOK, JpegRecs, Nal, Sent, Stream
  <2>5. CASE ~Stream(s)[i].marker
    BY <2>5, <2>1, <2>2, <2>3, <1>1, <1>2, <1>3 DEF JpegTypeOK, JpegRecs, Nal, Sent, Stream
  <2> QED BY <2>4, <2>5
<1> QED BY <1>4, <1>5, <1>6, JpegDoes

\* What is under assembly and what is written are frames.
LEMMA FramesStep ==
    ASSUME NEW s \in DOMAIN Senders, s = sender, Sends("jpeg"), JpegTypeOK(s), ScanIsFrame(s),
           JpegRecordsWhole(s), NEW i \in Sent(s), Jpeg(s)!Receive(i)
    PROVE  ScanIsFrame(s)' /\ JpegRecordsWhole(s)'
<1>1. ScanIsFrame(s)'
  <2>1. CASE IsIgnored(s, i)
    BY <2>1 DEF IsIgnored, ScanIsFrame, FrameSoFar, Stream
  <2>2. CASE IsGivenUp(s, i)
    BY <2>2 DEF IsGivenUp, ScanIsFrame
  <2>3. CASE IsTaken(s, i)
    <3>1. frameTs' = Stream(s)[i].ts /\ inFrame' = ~Stream(s)[i].marker
      BY <2>3 DEF IsTaken
    <3>2. PICK p : p = scan'
      OBVIOUS
    <3>3. /\ FrameSoFar(s, p, Stream(s)[i].ts)
          /\ ~Stream(s)[i].marker => \A n \in 1..Len(p) : ~Stream(s)[p[n]].marker
      BY <2>3, <3>2, FrameTaken
    <3> QED BY <3>1, <3>2, <3>3 DEF ScanIsFrame, FrameSoFar, Stream
  <2> QED BY <2>1, <2>2, <2>3, JpegDoes
<1>2. CASE records' = records
  BY <1>1, <1>2 DEF JpegRecordsWhole, FrameSoFar, Stream
<1>3. CASE /\ IsTaken(s, i) /\ Stream(s)[i].marker
           /\ Len(records) \in Nat /\ Len(records') = Len(records) + 1
           /\ \A k \in 1..Len(records) : records'[k] = records[k]
           /\ records'[Len(records) + 1].ts = Stream(s)[i].ts
           /\ records'[Len(records) + 1].scan = scan'
  <2>1. PICK rs, p : rs = records' /\ p = scan'
    OBVIOUS
  <2>2. /\ FrameSoFar(s, p, Stream(s)[i].ts) /\ p[Len(p)] = i
    BY <1>3, <2>1, FrameTaken
  <2>3. \A k \in 1..Len(rs) :
           /\ FrameSoFar(s, rs[k].scan, rs[k].ts)
           /\ Stream(s)[rs[k].scan[Len(rs[k].scan)]].marker
    <3> TAKE k \in 1..Len(rs)
    <3>1. CASE k \in 1..Len(records)
      <4>1. rs[k] = records[k]
        BY <3>1, <1>3, <2>1
      <4> QED BY <3>1, <4>1 DEF JpegRecordsWhole
    <3>2. CASE k = Len(records) + 1
      <4>1. rs[k].scan = p /\ rs[k].ts = Stream(s)[i].ts
        BY <3>2, <1>3, <2>1
      <4> QED BY <4>1, <2>2, <1>3
    <3> QED BY <3>1, <3>2, <1>3, <2>1
  <2>4. JpegRecordsWhole(s)'
    BY <2>1, <2>3 DEF JpegRecordsWhole, FrameSoFar, Stream
  <2> QED BY <1>1, <2>4
<1> QED BY <1>1, <1>2, <1>3, JpegTyped

\* A frame taken up comes out, is dropped or is under assembly.
LEMMA AccountedStep ==
    ASSUME NEW s \in DOMAIN Senders, s = sender, Sends("jpeg"), JpegTypeOK(s), ScanIsFrame(s),
           Jpeg(s)!FramesAccountedFor, NEW i \in Sent(s), Jpeg(s)!Receive(i)
    PROVE  Jpeg(s)!FramesAccountedFor'
<1>1. PICK n \in Nat : n = Len(records)
  BY DEF JpegTypeOK
<1>2. /\ starts = n + dropped + (IF inFrame THEN 1 ELSE 0)
      /\ inFrame \in BOOLEAN /\ dropped \in Nat /\ starts \in Nat
      /\ Stream(s)[i].marker \in BOOLEAN
  BY <1>1, JpegPackets DEF Jpeg!FramesAccountedFor, JpegTypeOK
<1>3. CASE IsIgnored(s, i)
  BY <1>3 DEF IsIgnored, Jpeg!FramesAccountedFor
<1>4. CASE IsGivenUp(s, i)
  <2>1. inFrame' = FALSE /\ starts' = starts /\ Len(records') = n
        /\ dropped' = dropped + (IF inFrame THEN 1 ELSE 0)
    BY <1>1, <1>4 DEF IsGivenUp
  <2> QED BY <2>1, <1>2 DEF Jpeg!FramesAccountedFor
<1>5. CASE IsTaken(s, i)
  <2>1. /\ starts' = n + dropped' + 1
        /\ starts' \in Nat /\ dropped' \in Nat
    <3>1. CASE IsStarted(s, i)
      <4>1. starts' = starts + 1 /\ dropped' = dropped + (IF inFrame THEN 1 ELSE 0)
        BY <3>1 DEF IsStarted
      <4>2. CASE inFrame
        BY <4>1, <4>2, <1>2
      <4>3. CASE ~inFrame
        BY <4>1, <4>3, <1>2
      <4> QED BY <4>2, <4>3
    <3>2. CASE IsContinued(s, i)
      <4>1. starts' = starts /\ dropped' = dropped /\ inFrame
        BY <3>2 DEF IsContinued
      <4> QED BY <4>1, <1>2
    <3> QED BY <3>1, <3>2, <1>5 DEF IsTaken
  <2>2. Len(records') = n + IF Stream(s)[i].marker THEN 1 ELSE 0
    <3>1. CASE Stream(s)[i].marker
      <4>1. Len(Append(records, [ts |-> Stream(s)[i].ts, scan |-> scan', tables |-> tables'])) = n + 1
        BY <1>1, <1>2, <1>5, <3>1, JpegTyped DEF JpegTypeOK, IsTaken
      <4> QED BY <4>1, <3>1, <1>5 DEF IsTaken
    <3>2. CASE ~Stream(s)[i].marker
      BY <3>2, <1>1, <1>5 DEF IsTaken
    <3> QED BY <3>1, <3>2
  <2>3. CASE Stream(s)[i].marker
    <3>1. ~inFrame' /\ Len(records') = n + 1
      BY <2>2, <2>3, <1>5 DEF IsTaken
    <3> QED BY <3>1, <2>1 DEF Jpeg!FramesAccountedFor
  <2>4. CASE ~Stream(s)[i].marker
    <3>1. inFrame' /\ Len(records') = n
      BY <2>2, <2>4, <1>1, <1>5 DEF IsTaken
    <3> QED BY <3>1, <2>1 DEF Jpeg!FramesAccountedFor
  <2> QED BY <2>3, <2>4
<1> QED BY <1>3, <1>4, <1>5, JpegDoes

-----------------------------------------------------------------------------
(* The tables of a frame *)

LEMMA TablesStep ==
    ASSUME NEW s \in DOMAIN Senders, s = sender, Sends("jpeg"), NetTypeOK(s), JpegTypeOK(s),
           ScanIsFrame(s), TablesAreLatest(s), NEW i \in Sent(s), Jpeg(s)!Receive(i)
    PROVE  TablesAreLatest(s)'
<1>0. Len(Stream(s)) \in Nat /\ None \notin Int /\ i \in Int
  BY JpegPackets DEF Sent
<1>1. H264(s)!Arrive(i) /\ tables' = IF Brings(s, i) THEN i ELSE tables
  BY JpegDoes
<1>2. PICK n \in Nat :
         /\ n = Len(arrived) /\ Len(arrived') = n + 1 /\ arrived'[n + 1] = i
         /\ \A k \in 1..n : arrived'[k] = arrived[k]
         /\ H264(s)!ArrivedSet' = H264(s)!ArrivedSet \cup {i}
  BY <1>0, <1>1, Arrival, NetTyped
<1>3. PICK row, quant : row = arrived' /\ quant = tables'
  OBVIOUS
<1>4. quant = None => \A j \in H264(s)!ArrivedSet' : ~Brings(s, j)
  BY <1>0, <1>1, <1>2, <1>3 DEF TablesAreLatest
<1>5. ASSUME quant # None
      PROVE  \E k \in 1..(n + 1) : /\ quant = row[k] /\ Brings(s, quant)
                                   /\ \A j \in (k + 1)..(n + 1) : ~Brings(s, row[j])
  <2>1. CASE Brings(s, i)
    <3>1. quant = row[n + 1] /\ Brings(s, quant) /\ n + 1 \in 1..(n + 1)
      BY <2>1, <1>1, <1>2, <1>3
    <3>2. \A j \in (n + 1 + 1)..(n + 1) : FALSE
      BY <1>2
    <3> QED BY <3>1, <3>2
  <2>2. CASE ~Brings(s, i)
    <3>1. PICK k \in 1..n : /\ tables = arrived[k] /\ Brings(s, tables)
                            /\ \A j \in (k + 1)..n : ~Brings(s, arrived[j])
      BY <2>2, <1>1, <1>2, <1>3, <1>5 DEF TablesAreLatest
    <3>2. \A j \in (k + 1)..(n + 1) : j \in (k + 1)..n \/ j = n + 1
      OBVIOUS
    <3>3. \A j \in (k + 1)..n : row[j] = arrived[j]
      BY <1>2, <1>3
    <3>4. \A j \in (k + 1)..(n + 1) : ~Brings(s, row[j])
      BY <3>1, <3>2, <3>3, <2>2, <1>2, <1>3
    <3>5. k \in 1..(n + 1) /\ quant = row[k] /\ quant = tables
      BY <3>1, <2>2, <1>1, <1>2, <1>3
    <3> QED BY <3>1, <3>4, <3>5
  <2> QED BY <2>1, <2>2
<1> QED BY <1>2, <1>3, <1>4, <1>5 DEF TablesAreLatest, Brings, Stream

LEMMA Nondecreasing ==
    ASSUME NEW n \in Nat, NEW row, \A k \in 1..n : row[k] \in Nat,
           \A k \in 2..n : row[k - 1] <= row[k], NEW j \in 1..n, NEW k \in 1..n, j <= k
    PROVE  row[j] <= row[k]
<1> DEFINE T == {m \in 0..(n - j) : row[j] <= row[j + m]}
<1>1. 0 \in T /\ n - j \in Nat
  OBVIOUS
<1>2. ASSUME NEW m \in 1..(n - j), m - 1 \in T PROVE m \in T
  <2>1. row[j] <= row[j + (m - 1)]
    BY <1>2
  <2>2. PICK c \in 2..n : c = j + m /\ c - 1 = j + (m - 1)
    OBVIOUS
  <2>3. row[c - 1] <= row[c] /\ row[c - 1] \in Nat /\ row[c] \in Nat /\ row[j] \in Nat
    BY <2>2
  <2> QED BY <2>1, <2>2, <2>3
<1>3. 0..(n - j) \subseteq T
  <2> HIDE DEF T
  <2> QED BY <1>1, <1>2, InductionUpTo
<1>4. k - j \in 0..(n - j) /\ j + (k - j) = k
  OBVIOUS
<1> QED BY <1>3, <1>4

LEMMA TablesOfIs ==
    ASSUME NEW s, NEW i \in Nat, \E j \in 1..i : Brings(s, j), NEW t, t = Jpeg(s)!TablesOf(i)
    PROVE  t \in 1..i /\ Brings(s, t) /\ \A k \in (t + 1)..i : ~Brings(s, k)
<1> DEFINE T == {j \in 1..i : Brings(s, j)}
<1>1. T \subseteq 1..i /\ T # {}
  OBVIOUS
<1>2. PICK m : m = Max(T)
  OBVIOUS
<1>3. m \in T /\ \A k \in T : k <= m
  <2> HIDE DEF T
  <2> QED BY <1>1, <1>2, GreatestElement
<1>4. \A k \in (m + 1)..i : ~Brings(s, k)
  <2> SUFFICES ASSUME NEW k \in (m + 1)..i, Brings(s, k) PROVE FALSE
    OBVIOUS
  <2>1. m \in Nat
    BY <1>3
  <2>2. k \in T /\ ~(k <= m)
    BY <2>1, <1>3
  <2> QED BY <2>2, <1>3
<1>5. m \in 1..i /\ Brings(s, m)
  BY <1>3
<1>6. t = CHOOSE j \in 1..i : Brings(s, j) /\ \A k \in (j + 1)..i : ~Brings(s, k)
  BY DEF Jpeg!TablesOf, Brings, Stream
<1> HIDE DEF T
<1> QED BY <1>4, <1>5, <1>6

\* All packets that arrived in order come no later than the latest.
LEMMA InOrderStays ==
    ASSUME NEW s \in DOMAIN Senders, Len(Stream(s)) \in Nat, NetTypeOK(s), NEW i \in Sent(s),
           H264(s)!Arrive(i), H264(s)!InOrder'
    PROVE  /\ H264(s)!InOrder
           /\ \A j, k \in 1..(Len(arrived) + 1) : j <= k => arrived'[j] <= arrived'[k]
           /\ \A j \in H264(s)!ArrivedSet : j <= i
<1>1. PICK n \in Nat :
         /\ n = Len(arrived) /\ Len(arrived') = n + 1 /\ arrived'[n + 1] = i
         /\ \A k \in 1..n : arrived'[k] = arrived[k] /\ arrived[k] \in Sent(s)
  BY Arrival, NetTyped
<1>2. PICK row : row = arrived'
  OBVIOUS
<1>3. /\ \A k \in 2..(n + 1) : row[k - 1] <= row[k]
      /\ \A k \in 1..(n + 1) : row[k] \in Nat
  <2>1. \A k \in 1..(n + 1) : k \in 1..n \/ k = n + 1
    OBVIOUS
  <2> QED BY <2>1, <1>1, <1>2 DEF H264!InOrder, Sent
<1>4. \A j, k \in 1..(n + 1) : j <= k => row[j] <= row[k]
  <2> TAKE j, k \in 1..(n + 1)
  <2>1. n + 1 \in Nat
    OBVIOUS
  <2> QED BY <2>1, <1>3, Nondecreasing
<1>5. H264(s)!InOrder
  <2>1. \A k \in 2..n : k \in 2..(n + 1) /\ k - 1 \in 1..n /\ k \in 1..n
    OBVIOUS
  <2> QED BY <2>1, <1>1, <1>2, <1>3 DEF H264!InOrder
<1>6. \A j \in H264(s)!ArrivedSet : j <= i
  <2> TAKE j \in H264(s)!ArrivedSet
  <2>1. PICK k \in 1..n : j = arrived[k]
    BY <1>1 DEF H264!ArrivedSet
  <2>2. k \in 1..(n + 1) /\ n + 1 \in 1..(n + 1) /\ k <= n + 1
    OBVIOUS
  <2> QED BY <2>1, <2>2, <1>1, <1>2, <1>4
<1> QED BY <1>1, <1>2, <1>4, <1>5, <1>6

\* A frame keeps its tables.
LEMMA TablesStay ==
    ASSUME NEW s \in DOMAIN Senders, Len(Stream(s)) \in Nat, NetTypeOK(s), NEW i \in Sent(s),
           H264(s)!Arrive(i), NEW a \in Sent(s), a \in H264(s)!ArrivedSet, NEW quant,
           HasTables(s, a, quant)
    PROVE  a \in H264(s)!ArrivedSet' /\ HasTables(s, a, quant)'
<1>1. H264(s)!ArrivedSet' = H264(s)!ArrivedSet \cup {i}
  BY Arrival
<1>2. PICK t : t = Jpeg(s)!TablesOf(a)
  OBVIOUS
<1>3. Jpeg(s)!TablesOf(a)' = t
  BY <1>2 DEF Jpeg!TablesOf
<1>4. ASSUME H264(s)!InOrder'
      PROVE  /\ \E j \in 1..a : Brings(s, j)
             /\ t \in H264(s)!ArrivedSet' => quant = t
  <2>1. H264(s)!InOrder /\ a <= i
    BY <1>4, InOrderStays
  <2>2. /\ \E j \in 1..a : Brings(s, j)
        /\ t \in H264(s)!ArrivedSet => quant = t
    BY <2>1, <1>2 DEF HasTables
  <2>3. t \in 1..a
    BY <2>2, <1>2, TablesOfIs DEF Sent
  <2>4. t = i => t = a
    BY <2>1, <2>3 DEF Sent
  <2> QED BY <2>2, <2>4, <1>1
<1> QED BY <1>1, <1>3, <1>4 DEF HasTables, Brings, Stream

\* The tables there are when packet i starts a frame are those of that frame.
LEMMA TablesAreThose ==
    ASSUME NEW s \in DOMAIN Senders, Len(Stream(s)) \in Nat, NetTypeOK(s), NEW i \in Sent(s),
           H264(s)!Arrive(i), TablesAreLatest(s)', NEW quant, quant = tables', quant # None
    PROVE  i \in H264(s)!ArrivedSet' /\ HasTables(s, i, quant)'
<1>1. PICK n \in Nat :
         /\ n = Len(arrived) + 1 /\ Len(arrived') = n /\ arrived'[n] = i
         /\ \A k \in 1..n : arrived'[k] \in Sent(s)
         /\ H264(s)!ArrivedSet' = H264(s)!ArrivedSet \cup {i}
  <2>1. PICK l \in Nat : l = Len(arrived)
    BY NetTyped
  <2>2. /\ Len(arrived') = l + 1 /\ arrived'[l + 1] = i
        /\ \A k \in 1..l : arrived'[k] = arrived[k] /\ arrived[k] \in Sent(s)
        /\ H264(s)!ArrivedSet' = H264(s)!ArrivedSet \cup {i}
    BY <2>1, Arrival, NetTyped
  <2>3. \A k \in 1..(l + 1) : k \in 1..l \/ k = l + 1
    OBVIOUS
  <2> QED BY <2>1, <2>2, <2>3
<1>2. PICK row : row = arrived'
  OBVIOUS
<1>3. PICK k \in 1..n : /\ quant = row[k] /\ Brings(s, quant)
                        /\ \A j \in (k + 1)..n : ~Brings(s, row[j])
  BY <1>1, <1>2 DEF TablesAreLatest, Brings, Stream
<1>4. PICK t : t = Jpeg(s)!TablesOf(i)
  OBVIOUS
<1>5. Jpeg(s)!TablesOf(i)' = t
  BY <1>4 DEF Jpeg!TablesOf
<1>6. ASSUME H264(s)!InOrder'
      PROVE  /\ \E j \in 1..i : Brings(s, j)
             /\ t \in H264(s)!ArrivedSet' => quant = t
  <2>1. \A j, m \in 1..n : j <= m => row[j] <= row[m]
    BY <1>1, <1>2, <1>6, InOrderStays
  <2>2. quant \in 1..i
    <3>1. n \in 1..n /\ k <= n /\ row[k] \in Sent(s)
      BY <1>1, <1>2
    <3> QED BY <3>1, <2>1, <1>1, <1>2, <1>3 DEF Sent
  <2>3. t \in 1..i /\ Brings(s, t) /\ \A j \in (t + 1)..i : ~Brings(s, j)
    BY <2>2, <1>3, <1>4, TablesOfIs DEF Sent
  <2>4. ASSUME t \in H264(s)!ArrivedSet' PROVE quant = t
    <3>1. PICK m \in 1..n : t = row[m]
      BY <2>4, <1>1, <1>2 DEF H264!ArrivedSet
    <3>2. ~(k < m)
      <4> SUFFICES ASSUME k < m PROVE FALSE
        OBVIOUS
      <4>1. m \in (k + 1)..n
        OBVIOUS
      <4> QED BY <4>1, <3>1, <2>3, <1>3
    <3>3. t <= quant
      BY <3>1, <3>2, <2>1, <1>3
    <3>4. ~(t < quant)
      <4> SUFFICES ASSUME t < quant PROVE FALSE
        OBVIOUS
      <4>1. quant \in (t + 1)..i
        BY <2>2, <2>3
      <4> QED BY <4>1, <2>3, <1>3
    <3> QED BY <3>3, <3>4, <2>2, <2>3
  <2> QED BY <2>2, <2>4, <1>3
<1> QED BY <1>1, <1>5, <1>6 DEF HasTables, Brings, Stream

LEMMA TablesFitStep ==
    ASSUME NEW s \in DOMAIN Senders, s = sender, Sends("jpeg"), NetTypeOK(s), JpegTypeOK(s),
           ScanIsFrame(s), JpegRecordsWhole(s), TablesAreLatest(s), TablesFit(s),
           NEW i \in Sent(s), Jpeg(s)!Receive(i)
    PROVE  TablesFit(s)'
<1>0. Len(Stream(s)) \in Nat /\ H264(s)!Arrive(i)
  BY JpegPackets, JpegDoes
<1>1. PICK p, quant : p = scan' /\ quant = tables'
  OBVIOUS
<1>2. SUFFICES ASSUME NEW a \in Sent(s), NEW q \in Sent(s) \cup {None}, HasStarted(a, q)'
               PROVE  a \in H264(s)!ArrivedSet' /\ HasTables(s, a, q)'
  BY DEF TablesFit, Sent, Stream
<1>3. HasStarted(a, q) => a \in H264(s)!ArrivedSet' /\ HasTables(s, a, q)'
  BY <1>0, TablesStay DEF TablesFit
<1>4. CASE IsTaken(s, i) /\ p[1] = a /\ quant = q
  <2>1. CASE IsStarted(s, i)
    <3>1. a = i /\ q # None
      BY <2>1, <1>1, <1>4 DEF IsStarted
    <3>2. TablesAreLatest(s)'
      BY TablesStep
    <3> QED BY <3>1, <3>2, <1>0, <1>1, <1>4, TablesAreThose
  <2>2. CASE IsContinued(s, i)
    <3>1. inFrame /\ p = Append(scan, i) /\ ~Brings(s, i)
      BY <2>2, <1>1, JpegPackets DEF IsContinued
    <3>2. p[1] = scan[1]
      <4>1. scan \in Seq(Sent(s)) /\ scan # <<>>
        BY <3>1 DEF JpegTypeOK, Nal, ScanIsFrame, FrameSoFar
      <4>2. 1 \in 1..Len(scan)
        BY <4>1
      <4> QED BY <3>1, <4>1, <4>2, AppendProperties
    <3>3. quant = tables
      BY <3>1, <1>1, JpegDoes
    <3> QED BY <3>1, <3>2, <3>3, <1>3, <1>4 DEF HasStarted
  <2> QED BY <2>1, <2>2, <1>4 DEF IsTaken
<1>5. CASE inFrame' /\ p[1] = a /\ quant = q
  <2>1. CASE IsIgnored(s, i)
    <3>1. /\ inFrame /\ p = scan /\ ~Brings(s, i)
      BY <2>1, <1>1, <1>5, JpegPackets DEF IsIgnored
    <3>2. quant = tables
      BY <3>1, <1>1, JpegDoes
    <3> QED BY <3>1, <3>2, <1>3, <1>5 DEF HasStarted
  <2>2. CASE IsGivenUp(s, i)
    BY <2>2, <1>5 DEF IsGivenUp
  <2>3. CASE IsTaken(s, i)
    BY <2>3, <1>4, <1>5
  <2> QED BY <2>1, <2>2, <2>3, JpegDoes
<1>6. PICK rs : rs = records'
  OBVIOUS
<1>7. ASSUME NEW k \in 1..Len(rs), rs[k].scan[1] = a, rs[k].tables = q
      PROVE  a \in H264(s)!ArrivedSet' /\ HasTables(s, a, q)'
  <2>1. CASE rs = records
    BY <2>1, <1>3, <1>7 DEF HasStarted
  <2>2. CASE /\ IsTaken(s, i)
             /\ Len(records) \in Nat /\ Len(rs) = Len(records) + 1
             /\ \A j \in 1..Len(records) : rs[j] = records[j]
             /\ rs[Len(records) + 1].scan = p
             /\ rs[Len(records) + 1].tables = quant
    <3>1. CASE k \in 1..Len(records)
      BY <3>1, <2>2, <1>3, <1>7 DEF HasStarted
    <3>2. CASE k = Len(records) + 1
      BY <3>2, <2>2, <1>4, <1>7
    <3> QED BY <3>1, <3>2, <2>2
  <2> QED BY <2>1, <2>2, <1>1, <1>6, JpegTyped
<1>8. \/ inFrame' /\ p[1] = a /\ quant = q
      \/ \E k \in 1..Len(rs) : rs[k].scan[1] = a /\ rs[k].tables = q
  BY <1>1, <1>2, <1>6 DEF HasStarted
<1> QED BY <1>5, <1>7, <1>8

-----------------------------------------------------------------------------
(* Frames that arrive in one piece *)

LEMMA NextIsTaken ==
    ASSUME NEW s \in DOMAIN Senders, s = sender, Sends("jpeg"), NetTypeOK(s), JpegTypeOK(s),
           ScanIsFrame(s), OpenedIsHeld(s), NEW m \in 1..Len(arrived), m < MaxScan, Opened(s, m),
           NEW i \in Sent(s), Jpeg(s)!Receive(i), i = Latest + 1,
           Stream(s)[i].ts = Stream(s)[Latest].ts, Stream(s)[i].shape # "odd"
    PROVE  /\ IsTaken(s, i) /\ scan' = Append(scan, i) /\ Len(scan) = m
           /\ \A n \in 1..m : scan[n] = arrived[Len(arrived) - m + n]
<1>0. /\ Len(Stream(s)) \in Nat /\ scan \in Seq(Sent(s)) /\ m \in Nat \ {0}
      /\ Stream(s)[i].off \in Nat /\ i \in Nat
  BY JpegPackets, NetTyped DEF JpegTypeOK, Nal, Sent
<1>1. /\ inFrame /\ Len(scan) = m /\ frameTs = Stream(s)[Latest].ts
      /\ \A n \in 1..m : scan[n] = arrived[Len(arrived) - m + n]
  BY DEF OpenedIsHeld
<1>2. PICK f \in Sent(s), l \in Sent(s) :
         /\ f = scan[1] /\ l = scan[m] /\ l = f + m - 1
         /\ Stream(s)[f].ts = frameTs /\ Stream(s)[f].off = 0
         /\ Stream(s)[l].ts = frameTs /\ Stream(s)[l].off = m - 1
  <2>1. 1 \in 1..m /\ m \in 1..m
    BY <1>0
  <2>2. scan[1] \in Sent(s) /\ scan[m] \in Sent(s)
    BY <2>1, <1>0, <1>1
  <2>3. \A n \in 1..m : /\ scan[n] = scan[1] + n - 1
                        /\ Stream(s)[scan[n]].ts = frameTs /\ Stream(s)[scan[n]].off = n - 1
    BY <1>1 DEF ScanIsFrame, FrameSoFar
  <2>4. Stream(s)[scan[1]].off = 0
    <3>1. Stream(s)[scan[1]].off = 1 - 1
      BY <2>1, <2>3
    <3> QED BY <3>1
  <2> QED BY <2>1, <2>2, <2>3, <2>4
<1>3. l = Latest
  <2>1. PICK n \in Nat : n = Len(arrived)
    BY <1>0, NetTyped
  <2>2. m \in 1..m /\ n - m + m = n
    BY <1>0, <2>1
  <2> QED BY <2>1, <2>2, <1>1, <1>2 DEF Latest
<1>4. i = l + 1 /\ Stream(s)[i].ts = frameTs
  BY <1>1, <1>3
<1>5. Stream(s)[i].off # 0
  <2>1. f # i
    BY <1>0, <1>2, <1>4 DEF Sent
  <2> SUFFICES ASSUME Stream(s)[i].off = 0 PROVE FALSE
    OBVIOUS
  <2>2. Stream(s)[f].ts = Stream(s)[i].ts /\ Stream(s)[f].off = Stream(s)[i].off
    BY <1>2, <1>4
  <2>3. f = i
    BY <2>2, JpegPackets
  <2> QED BY <2>1, <2>3
<1>6. Stream(s)[i].off = m
  <2>1. Stream(s)[i - 1].off = Stream(s)[i].off - 1
    BY <1>5, JpegPackets
  <2>2. i - 1 = l
    BY <1>4 DEF Sent
  <2>3. PICK o \in Nat : o = Stream(s)[i].off
    BY <1>0
  <2>4. m - 1 = o - 1
    BY <2>1, <2>2, <2>3, <1>2
  <2> QED BY <2>3, <2>4, <1>0
<1>7. Jpeg(s)!Fits(i)
  <2>1. Jpeg(s)!Gap(Jpeg(s)!SeqOf(i)) = 0
    <3>1. H264(s)!Arrive(i)
      BY JpegDoes
    <3>2. H264(s)!Gap(H264(s)!SeqOf(i)) = 0
      <4>1. Len(arrived) > 0
        BY <1>0, NetTyped
      <4> QED BY <3>1, <4>1, <1>0, NextHasNoGap
    <3> QED BY <3>2, SameNetwork
  <2> QED BY <2>1, <1>1, <1>4, <1>6 DEF Jpeg!Fits, Stream
<1>8. Jpeg(s)!Continue(i)
  <2>1. ~Jpeg(s)!Ignore(i)
    BY <1>1 DEF Jpeg!Ignore, Stream
  <2>2. ~Jpeg(s)!Start(i) /\ ~Jpeg(s)!StartWithoutTables(i)
    BY <1>5 DEF Jpeg!Start, Jpeg!StartWithoutTables, Stream
  <2>3. ~Jpeg(s)!Break(i)
    BY <1>7 DEF Jpeg!Break
  <2> QED BY <2>1, <2>2, <2>3 DEF Jpeg!Receive
<1>9. IsTaken(s, i) /\ scan' = Append(scan, i)
  BY <1>8 DEF Jpeg!Continue, Jpeg!Fits, Jpeg!Written, IsTaken, IsContinued, Stream
<1> QED BY <1>1, <1>9

LEMMA OpenedStep ==
    ASSUME NEW s \in DOMAIN Senders, s = sender, Sends("jpeg"), NetTypeOK(s), JpegTypeOK(s),
           ScanIsFrame(s), OpenedIsHeld(s), NEW i \in Sent(s), Jpeg(s)!Receive(i)
    PROVE  OpenedIsHeld(s)'
<1>0. Len(Stream(s)) \in Nat /\ i \in Nat /\ MaxScan \in Nat
  BY JpegPackets, SenderTyped DEF Sent
<1>1. PICK n \in Nat, e \in Nat :
         /\ n = Len(arrived) /\ e = n + 1 /\ Len(arrived') = e /\ arrived'[e] = i /\ Latest' = i
         /\ \A k \in 1..n : arrived'[k] = arrived[k] /\ arrived[k] \in Sent(s)
  <2>1. PICK n \in Nat : n = Len(arrived)
    BY <1>0, NetTyped
  <2>2. n + 1 \in Nat
    OBVIOUS
  <2> QED BY <2>1, <2>2, <1>0, Arrival, NetTyped, JpegDoes
<1>2. PICK row, pieces : row = arrived' /\ pieces = scan'
  OBVIOUS
<1>8. SUFFICES ASSUME NEW m \in 1..Len(arrived'), Opened(s, m)'
               PROVE  /\ inFrame' /\ Len(scan') = m /\ frameTs' = Stream(s)[Latest'].ts
                      /\ \A k \in 1..m : scan'[k] = arrived'[Len(arrived') - m + k]
  BY DEF OpenedIsHeld, Stream
<1>3. PICK f : /\ m \in 1..e /\ f = row[e - m + 1] /\ Brings(s, f) /\ m <= MaxScan
               /\ \A k \in 1..m : /\ row[e - m + k] = f + k - 1
                                  /\ Stream(s)[row[e - m + k]].ts = Stream(s)[f].ts
                                  /\ Stream(s)[row[e - m + k]].shape # "odd"
                                  /\ ~Stream(s)[row[e - m + k]].marker
  <2>1. PICK f : f = row[e - m + 1]
    OBVIOUS
  <2>2. \A k \in 1..m : /\ row[e - m + k] = f + k - 1
                        /\ Stream(s)[row[e - m + k]].ts = Stream(s)[f].ts
                        /\ Stream(s)[row[e - m + k]].shape # "odd"
                        /\ ~Stream(s)[row[e - m + k]].marker
    BY <2>1, <1>1, <1>2, <1>8 DEF Opened, Stream
  <2>3. Brings(s, f) /\ m <= MaxScan
    BY <2>1, <1>1, <1>2, <1>8 DEF Opened, Brings, Stream
  <2>4. m \in 1..e
    BY <1>1, <1>8
  <2> QED BY <2>1, <2>2, <2>3, <2>4
<1>4. /\ row[e] = i /\ m \in 1..m /\ e - m + m = e
      /\ i = f + m - 1 /\ Stream(s)[i].ts = Stream(s)[f].ts
      /\ Stream(s)[i].shape # "odd" /\ ~Stream(s)[i].marker
  <2>1. row[e] = i /\ m \in 1..m /\ e - m + m = e
    BY <1>1, <1>2
  <2> QED BY <2>1, <1>3
<1>5. CASE m = 1
  <2>1. f = i
    BY <1>3, <1>4, <1>5
  <2>2. IsTaken(s, i) /\ IsStarted(s, i)
    BY <2>1, <1>3, JpegDoes
  <2>3. pieces = <<i>> /\ inFrame' /\ frameTs' = Stream(s)[i].ts
    BY <2>2, <1>2, <1>4 DEF IsTaken, IsStarted
  <2>4. \A k \in 1..m : k = 1
    BY <1>5
  <2>5. Len(pieces) = m /\ \A k \in 1..m : pieces[k] = row[e - m + k]
    BY <2>1, <2>3, <2>4, <1>3, <1>5
  <2> QED BY <2>3, <2>5, <1>1, <1>2
<1>6. CASE m > 1
  <2>1. PICK l \in Nat \ {0} : l = m - 1 /\ l \in 1..n /\ l < MaxScan
    BY <1>0, <1>1, <1>3, <1>6
  <2>2. \A k \in 1..l : k \in 1..m /\ n - l + k = e - m + k /\ n - l + k \in 1..n
    BY <2>1, <1>1
  <2>3. \A k \in 1..l : arrived[n - l + k] = row[e - m + k]
    BY <2>2, <1>1, <1>2
  <2>4. 1 \in 1..l /\ l \in 1..l
    BY <2>1
  <2>5. f = arrived[n - l + 1]
    BY <2>3, <2>4, <1>3
  <2>6. Opened(s, l)
    <3>1. \A k \in 1..l : /\ arrived[n - l + k] = f + k - 1
                          /\ Stream(s)[arrived[n - l + k]].ts = Stream(s)[f].ts
                          /\ Stream(s)[arrived[n - l + k]].shape # "odd"
                          /\ ~Stream(s)[arrived[n - l + k]].marker
      BY <2>2, <2>3, <1>3
    <3>2. l <= MaxScan
      BY <2>1, <1>0
    <3> QED BY <3>1, <3>2, <2>5, <1>1, <1>3 DEF Opened
  <2>7. /\ f \in Nat /\ Latest = f + l - 1 /\ Stream(s)[Latest].ts = Stream(s)[f].ts
    <3>1. n - l + l = n /\ n - l + 1 \in 1..n
      BY <2>1, <1>1
    <3>2. Latest = row[e - m + l]
      BY <3>1, <2>3, <2>4, <1>1 DEF Latest
    <3>3. f \in Sent(s)
      BY <3>1, <2>5, <1>1
    <3>4. row[e - m + l] = f + l - 1 /\ Stream(s)[row[e - m + l]].ts = Stream(s)[f].ts
      BY <2>2, <2>4, <1>3
    <3> QED BY <3>2, <3>3, <3>4 DEF Sent
  <2>8. i = Latest + 1 /\ Stream(s)[i].ts = Stream(s)[Latest].ts
    BY <2>1, <2>7, <1>4
  <2>9. /\ IsTaken(s, i) /\ scan' = Append(scan, i) /\ Len(scan) = l
        /\ \A k \in 1..l : scan[k] = arrived[n - l + k]
    BY <2>1, <2>6, <2>8, <1>1, <1>4, NextIsTaken
  <2>10. scan \in Seq(Sent(s)) /\ l + 1 = m
    BY <2>1 DEF JpegTypeOK, Nal
  <2>11. Len(pieces) = m /\ pieces[m] = i /\ \A k \in 1..l : pieces[k] = scan[k]
    BY <2>9, <2>10, <1>2, AppendProperties
  <2>12. \A k \in 1..m : k \in 1..l \/ k = m
    BY <2>10
  <2>13. \A k \in 1..m : pieces[k] = row[e - m + k]
    BY <2>3, <2>9, <2>11, <2>12, <1>4
  <2>14. inFrame' /\ frameTs' = Stream(s)[i].ts
    BY <2>9, <1>4 DEF IsTaken
  <2> QED BY <2>11, <2>13, <2>14, <1>1, <1>2
<1>7. m = 1 \/ m > 1
  BY <1>1, <1>3
<1> QED BY <1>5, <1>6, <1>7

-----------------------------------------------------------------------------
(* Frames of the sender *)

IsFrame(s, f) ==
    /\ f \in Nal(s) /\ f # <<>>
    /\ Stream(s)[f[1]].off = 0 /\ Stream(s)[f[Len(f)]].marker
    /\ \A n \in 1..Len(f) : f[n] = f[1] + n - 1 /\ Stream(s)[f[n]].ts = Stream(s)[f[1]].ts
    /\ \A n \in 1..(Len(f) - 1) : ~Stream(s)[f[n]].marker

LEMMA FramesAre ==
    ASSUME NEW s, Len(Stream(s)) \in Nat
    PROVE  \A f : f \in Jpeg(s)!SenderFrames <=> IsFrame(s, f)
<1>1. Jpeg(s)!Sent = Sent(s)
  BY DEF Jpeg!Sent, Sent, Stream
<1>2. ASSUME NEW f, f \in Jpeg(s)!SenderFrames PROVE IsFrame(s, f)
  <2>1. PICK r \in Sent(s) \X Sent(s) :
             /\ r[1] <= r[2] /\ Stream(s)[r[1]].off = 0 /\ Stream(s)[r[2]].marker
             /\ \A j \in r[1]..r[2] : Stream(s)[j].ts = Stream(s)[r[1]].ts
             /\ \A j \in r[1]..(r[2] - 1) : ~Stream(s)[j].marker
             /\ f = [k \in 1..(r[2] - r[1] + 1) |-> r[1] + k - 1]
    BY <1>1, <1>2 DEF Jpeg!SenderFrames, Stream
  <2>2. PICK a \in Sent(s), b \in Sent(s), l \in Nat : a = r[1] /\ b = r[2] /\ l = b - a + 1 /\ l > 0
    BY <2>1 DEF Sent
  <2>3. a \in Nat /\ b \in Nat /\ b = a + l - 1 /\ \A k \in 1..l : a + k - 1 \in Sent(s)
    <3>1. a \in Nat /\ b \in Nat /\ 1 <= a /\ b <= Len(Stream(s))
      BY DEF Sent
    <3>2. b = a + l - 1
      BY <3>1, <2>2
    <3>3. \A k \in 1..l : a + k - 1 \in 1..Len(Stream(s))
      BY <3>1, <3>2
    <3> QED BY <3>1, <3>2, <3>3 DEF Sent
  <2>4. f \in [1..l -> Sent(s)] /\ \A k \in 1..l : f[k] = a + k - 1
    BY <2>1, <2>2, <2>3
  <2>5. f \in Seq(Sent(s)) /\ Len(f) = l
    BY <2>4, FunctionIsSeq
  <2>6. 1 \in 1..l /\ l \in 1..l /\ f # <<>>
    BY <2>2, <2>5
  <2>7. f[1] = a /\ f[l] = b
    <3>1. a + 1 - 1 = a
      BY <2>3
    <3> QED BY <3>1, <2>3, <2>4, <2>6
  <2>8. Stream(s)[f[1]].off = 0 /\ Stream(s)[f[l]].marker
    BY <2>1, <2>2, <2>7
  <2>9. \A n \in 1..l : Stream(s)[f[n]].ts = Stream(s)[f[1]].ts
    <3>1. \A n \in 1..l : a + n - 1 \in a..b
      BY <2>3
    <3>2. \A j \in a..b : Stream(s)[j].ts = Stream(s)[a].ts
      BY <2>1, <2>2
    <3> QED BY <3>1, <3>2, <2>4, <2>7
  <2>10. \A n \in 1..(l - 1) : ~Stream(s)[f[n]].marker
    <3>1. \A n \in 1..(l - 1) : n \in 1..l /\ a + n - 1 \in a..(b - 1)
      BY <2>3
    <3> QED BY <3>1, <2>1, <2>2, <2>4
  <2> QED BY <2>4, <2>5, <2>6, <2>7, <2>8, <2>9, <2>10 DEF IsFrame, Nal
<1>3. ASSUME NEW f, IsFrame(s, f) PROVE f \in Jpeg(s)!SenderFrames
  <2>1. PICK l \in Nat : l = Len(f) /\ l > 0
    BY <1>3 DEF IsFrame, Nal
  <2>2. 1 \in 1..l /\ l \in 1..l /\ f \in Seq(Sent(s))
    BY <2>1, <1>3 DEF IsFrame, Nal
  <2>3. PICK a \in Sent(s), b \in Sent(s) : a = f[1] /\ b = f[l]
    BY <2>1, <2>2
  <2>4. a \in Nat /\ b \in Nat
    BY DEF Sent
  <2>5. \A n \in 1..l : f[n] = a + n - 1
    BY <2>1, <2>3, <1>3 DEF IsFrame
  <2>6. b = a + l - 1 /\ b - a + 1 = l
    BY <2>1, <2>2, <2>3, <2>4, <2>5
  <2>7. Stream(s)[a].off = 0 /\ Stream(s)[b].marker
    BY <2>1, <2>3, <1>3 DEF IsFrame
  <2>8. \A j \in a..b : Stream(s)[j].ts = Stream(s)[a].ts
    <3> TAKE j \in a..b
    <3>1. PICK n \in 1..l : n = j - a + 1 /\ a + n - 1 = j
      BY <2>4, <2>6
    <3>2. f[n] = j
      BY <3>1, <2>5
    <3> QED BY <3>1, <3>2, <2>1, <2>3, <1>3 DEF IsFrame
  <2>9. \A j \in a..(b - 1) : ~Stream(s)[j].marker
    <3> TAKE j \in a..(b - 1)
    <3>1. PICK n \in 1..(l - 1) : n = j - a + 1 /\ a + n - 1 = j /\ n \in 1..l
      BY <2>4, <2>6
    <3>2. f[n] = j
      BY <3>1, <2>5
    <3> QED BY <3>1, <3>2, <2>1, <1>3 DEF IsFrame
  <2>10. f = [k \in 1..l |-> a + k - 1]
    <3>1. f = [k \in 1..l |-> f[k]]
      BY <2>1, <2>2
    <3> QED BY <3>1, <2>5
  <2>11. PICK r \in Sent(s) \X Sent(s) : r[1] = a /\ r[2] = b
    <3>1. <<a, b>> \in Sent(s) \X Sent(s) /\ <<a, b>>[1] = a /\ <<a, b>>[2] = b
      OBVIOUS
    <3> QED BY <3>1
  <2>12. /\ r[1] <= r[2] /\ Stream(s)[r[1]].off = 0 /\ Stream(s)[r[2]].marker
         /\ \A j \in r[1]..r[2] : Stream(s)[j].ts = Stream(s)[r[1]].ts
         /\ \A j \in r[1]..(r[2] - 1) : ~Stream(s)[j].marker
    <3>1. r[1] <= r[2]
      BY <2>1, <2>4, <2>6, <2>11
    <3> QED BY <3>1, <2>7, <2>8, <2>9, <2>11
  <2>13. f = [k \in 1..(r[2] - r[1] + 1) |-> r[1] + k - 1]
    BY <2>6, <2>10, <2>11
  <2>14. f \in {[k \in 1..(x[2] - x[1] + 1) |-> x[1] + k - 1] :
                   x \in {y \in Sent(s) \X Sent(s) :
                            /\ y[1] <= y[2] /\ Stream(s)[y[1]].off = 0 /\ Stream(s)[y[2]].marker
                            /\ \A j \in y[1]..y[2] : Stream(s)[j].ts = Stream(s)[y[1]].ts
                            /\ \A j \in y[1]..(y[2] - 1) : ~Stream(s)[j].marker}}
    BY <2>12, <2>13
  <2> QED BY <2>14, <1>1 DEF Jpeg!SenderFrames, Stream
<1> QED BY <1>2, <1>3

\* Once a frame that needs nothing but itself has arrived in one piece, it is written.
LEMMA FrameIsWritten ==
    ASSUME NEW s \in DOMAIN Senders, s = sender, Sends("jpeg"), NetTypeOK(s), JpegTypeOK(s),
           ScanIsFrame(s), OpenedIsHeld(s), NEW i \in Sent(s), Jpeg(s)!Receive(i),
           NEW f, IsFrame(s, f), EndsAt(f, arrived', Len(arrived) + 1), Brings(s, f[1]),
           \A n \in 1..Len(f) : Stream(s)[f[n]].shape # "odd", Len(f) <= MaxScan
    PROVE  IsTaken(s, i) /\ Stream(s)[i].marker /\ scan' = f
<1>0. H264(s)!Arrive(i) /\ Len(Stream(s)) \in Nat /\ MaxScan \in Nat
  BY JpegDoes, JpegPackets, SenderTyped
<1>1. PICK n \in Nat, e \in Nat :
         /\ n = Len(arrived) /\ e = n + 1 /\ arrived'[e] = i
         /\ \A k \in 1..n : arrived'[k] = arrived[k] /\ arrived[k] \in Sent(s)
  <2>1. PICK n \in Nat : n = Len(arrived)
    BY <1>0, NetTyped
  <2>2. n + 1 \in Nat
    OBVIOUS
  <2> QED BY <2>1, <2>2, <1>0, Arrival, NetTyped
<1>2. PICK l \in Nat : /\ l = Len(f) /\ l > 0 /\ l \in 1..l /\ 1 \in 1..l /\ l <= e /\ e - l + l = e
                       /\ f \in Seq(Sent(s))
  <2>1. PICK l \in Nat : l = Len(f) /\ l > 0 /\ f \in Seq(Sent(s))
    BY DEF IsFrame, Nal
  <2>2. l <= e
    BY <2>1, <1>1 DEF EndsAt
  <2> QED BY <2>1, <2>2, <1>1
<1>3. PICK row : row = arrived' /\ \A k \in 1..l : row[e - l + k] = f[k]
  BY <1>1, <1>2 DEF EndsAt
<1>4. /\ f[l] = i /\ Stream(s)[i].marker /\ Stream(s)[i].ts = Stream(s)[f[1]].ts
      /\ i = f[1] + l - 1 /\ Stream(s)[i].shape # "odd"
  <2>1. f[l] = i
    BY <1>1, <1>2, <1>3
  <2> QED BY <2>1, <1>2 DEF IsFrame
<1>5. CASE l = 1
  <2>1. f[1] = i
    BY <1>4, <1>5
  <2>2. IsTaken(s, i) /\ scan' = <<i>>
    BY <2>1, JpegDoes DEF IsStarted
  <2>3. f = <<i>>
    BY <2>1, <1>2, <1>5, OneElement
  <2> QED BY <2>2, <2>3, <1>4
<1>6. CASE l > 1
  <2>1. PICK m \in Nat \ {0} : m = l - 1 /\ m + 1 = l /\ m \in 1..n /\ m < MaxScan
    BY <1>0, <1>1, <1>2, <1>6
  <2>2. \A k \in 1..m : k \in 1..l /\ n - m + k = e - l + k /\ n - m + k \in 1..n
    BY <2>1, <1>1
  <2>3. \A k \in 1..m : arrived[n - m + k] = f[k]
    BY <2>2, <1>1, <1>3
  <2>4. 1 \in 1..m /\ m \in 1..m
    BY <2>1
  <2>5. \A k \in 1..m : /\ f[k] = f[1] + k - 1 /\ Stream(s)[f[k]].ts = Stream(s)[f[1]].ts
                        /\ Stream(s)[f[k]].shape # "odd" /\ ~Stream(s)[f[k]].marker
    BY <2>1, <2>2, <1>2 DEF IsFrame
  <2>6. Opened(s, m)
    <3>1. f[1] = arrived[n - m + 1]
      BY <2>3, <2>4
    <3>2. m <= MaxScan
      BY <2>1, <1>0
    <3> QED BY <3>1, <3>2, <2>3, <2>5, <1>1 DEF Opened
  <2>7. Latest = f[m]
    <3>1. n - m + m = n
      BY <2>1, <1>1
    <3> QED BY <3>1, <2>3, <2>4, <1>1 DEF Latest
  <2>8. i = Latest + 1 /\ Stream(s)[i].ts = Stream(s)[Latest].ts
    <3>1. f[m] = f[1] + m - 1 /\ Stream(s)[f[m]].ts = Stream(s)[f[1]].ts
      BY <2>4, <2>5
    <3>2. f[1] \in Nat
      BY <1>2 DEF Sent
    <3>3. i = f[m] + 1
      BY <3>1, <3>2, <2>1, <1>4
    <3> QED BY <3>1, <3>3, <2>7, <1>4
  <2>9. /\ IsTaken(s, i) /\ scan' = Append(scan, i) /\ Len(scan) = m
        /\ \A k \in 1..m : scan[k] = arrived[n - m + k]
    BY <2>1, <2>6, <2>8, <1>1, <1>4, NextIsTaken
  <2>10. scan \in Seq(Sent(s))
    BY DEF JpegTypeOK, Nal
  <2>11. PICK p \in Seq(Sent(s)) : p = scan' /\ Len(p) = l /\ p[l] = i /\ \A k \in 1..m : p[k] = f[k]
    <3>1. PICK p : p = Append(scan, i)
      OBVIOUS
    <3>2. p \in Seq(Sent(s)) /\ Len(p) = m + 1 /\ p[m + 1] = i /\ \A k \in 1..m : p[k] = scan[k]
      BY <3>1, <2>9, <2>10, AppendProperties
    <3>3. \A k \in 1..m : p[k] = f[k]
      BY <3>2, <2>3, <2>9
    <3> QED BY <3>1, <3>2, <3>3, <2>1, <2>9
  <2>12. \A k \in 1..l : p[k] = f[k]
    <3>1. \A k \in 1..l : k \in 1..m \/ k = l
      BY <2>1
    <3> QED BY <3>1, <2>11, <1>4
  <2>13. p = f
    BY <2>11, <2>12, <1>2, SeqEqual
  <2> QED BY <2>9, <2>11, <2>13, <1>4
<1>7. l = 1 \/ l > 1
  BY <1>2
<1> QED BY <1>5, <1>6, <1>7

LEMMA FramesShowStep ==
    ASSUME NEW s \in DOMAIN Senders, s = sender, Sends("jpeg"), NetTypeOK(s), JpegTypeOK(s),
           ScanIsFrame(s), OpenedIsHeld(s), Jpeg(s)!Resynchronises,
           NEW i \in Sent(s), Jpeg(s)!Receive(i)
    PROVE  Jpeg(s)!Resynchronises'
<1>0. H264(s)!Arrive(i) /\ Len(Stream(s)) \in Nat
  BY JpegDoes, JpegPackets
<1>1. Jpeg(s)!SenderFrames' = Jpeg(s)!SenderFrames
  BY DEF Jpeg!SenderFrames, Jpeg!Sent
<1>2. ASSUME NEW f \in Jpeg(s)!SenderFrames, Jpeg(s)!RunOf(f)', Brings(s, f[1]),
             \A n \in 1..Len(f) : Stream(s)[f[n]].shape # "odd", Len(f) <= MaxScan
      PROVE  \E k \in 1..Len(records') : records'[k].scan = f
  <2>1. IsFrame(s, f) /\ f \in Seq(Sent(s))
    <3>1. IsFrame(s, f)
      BY <1>0, <1>2, FramesAre
    <3> QED BY <3>1 DEF IsFrame, Nal
  <2>2. PICK n \in Nat : n = Len(records)
    BY DEF JpegTypeOK
  <2>3. \/ records' = records
        \/ Len(records') = n + 1 /\ \A k \in 1..n : records'[k] = records[k]
    BY <2>2, JpegTyped
  <2>4. CASE H264(s)!RunOf(f)
    <3>1. Jpeg(s)!RunOf(f)
      BY <2>4, SameNetwork
    <3>2. PICK k \in 1..n : records[k].scan = f
      <4>1. \A m \in DOMAIN f : Stream(s)[f[m]].shape # "odd"
        BY <2>1, <1>2
      <4> QED BY <4>1, <3>1, <2>2, <1>2 DEF Jpeg!Resynchronises, Brings, Stream
    <3>3. CASE records' = records
      BY <3>2, <3>3, <2>2
    <3>4. CASE Len(records') = n + 1 /\ \A m \in 1..n : records'[m] = records[m]
      <4>1. k \in 1..(n + 1) /\ records'[k] = records[k]
        BY <3>4
      <4> QED BY <4>1, <3>2, <3>4
    <3> QED BY <3>3, <3>4, <2>3
  <2>5. CASE EndsAt(f, arrived', Len(arrived) + 1)
    <3>1. IsTaken(s, i) /\ Stream(s)[i].marker /\ scan' = f
      BY <2>1, <2>5, <1>2, FrameIsWritten
    <3>2. records' = Append(records, [ts |-> Stream(s)[i].ts, scan |-> scan', tables |-> tables'])
      BY <3>1 DEF IsTaken
    <3>3. records' # records
      <4>1. \A r : \A t \in Nat, p \in Nal(s), quant \in Sent(s) \cup {None} :
                r = Append(records, [ts |-> t, scan |-> p, tables |-> quant]) => Len(r) = n + 1
        BY <2>2, JpegAdded DEF JpegTypeOK
      <4>2. scan' \in Nal(s) /\ tables' \in Sent(s) \cup {None} /\ Stream(s)[i].ts \in Nat
        BY JpegTyped, JpegPackets DEF JpegTypeOK
      <4>3. Len(records') = n + 1
        BY <3>2, <4>1, <4>2
      <4> QED BY <4>3, <2>2
    <3>4. Len(records') = n + 1 /\ records'[n + 1].scan = f
      BY <3>1, <3>3, <2>2, JpegTyped
    <3>5. n + 1 \in 1..(n + 1)
      OBVIOUS
    <3> QED BY <3>4, <3>5
  <2>6. H264(s)!RunOf(f)'
    BY <1>2, SameNetwork DEF Jpeg!RunOf, H264!RunOf
  <2> QED BY <2>1, <2>4, <2>5, <2>6, <1>0, RunsGrow
<1>3. ASSUME NEW f \in Jpeg(s)!SenderFrames, \A m \in DOMAIN f : Stream(s)[f[m]].shape # "odd"
      PROVE  \A n \in 1..Len(f) : Stream(s)[f[n]].shape # "odd"
  <2>1. f \in Seq(Sent(s))
    BY <1>0, FramesAre DEF IsFrame, Nal
  <2> QED BY <2>1, <1>3
<1> QED BY <1>1, <1>2, <1>3 DEF Jpeg!Resynchronises, Brings, Stream

LEMMA JpegStep ==
    ASSUME NEW s \in DOMAIN Senders, s = sender, Sends("jpeg"), NetTypeOK(s), JpegInv(s),
           NEW i \in Sent(s), Jpeg(s)!Receive(i)
    PROVE  JpegInv(s)'
<1>1. /\ JpegTypeOK(s) /\ ScanIsFrame(s) /\ JpegRecordsWhole(s)
      /\ TablesAreLatest(s) /\ TablesFit(s)
      /\ OpenedIsHeld(s) /\ Jpeg(s)!Resynchronises /\ Jpeg(s)!FramesAccountedFor
  BY DEF JpegInv
<1>2. JpegTypeOK(s)' /\ ScanIsFrame(s)' /\ JpegRecordsWhole(s)'
  BY <1>1, JpegTyped, FramesStep
<1>3. TablesAreLatest(s)' /\ TablesFit(s)'
  BY <1>1, TablesStep, TablesFitStep
<1>4. OpenedIsHeld(s)' /\ Jpeg(s)!Resynchronises' /\ Jpeg(s)!FramesAccountedFor'
  BY <1>1, OpenedStep, FramesShowStep, AccountedStep
<1> QED BY <1>2, <1>3, <1>4 DEF JpegInv

LEMMA JpegStart ==
    ASSUME NEW s \in DOMAIN Senders, s = sender, Sends("jpeg"), Jpeg(s)!Init
    PROVE  JpegInv(s)
<1>0. Len(Stream(s)) \in Nat
  BY JpegPackets
<1>1. /\ arrived = <<>> /\ scan = <<>> /\ inFrame = FALSE /\ frameTs = 0 /\ tables = None
      /\ dropped = 0 /\ starts = 0 /\ records = <<>>
  BY DEF Jpeg!Init, Jpeg!NetInit
<1>2. JpegTypeOK(s)
  <2>1. <<>> \in Nal(s) /\ <<>> \in Seq(JpegRecs(s)) /\ FALSE \in BOOLEAN /\ 0 \in Nat
    BY DEF Nal
  <2>2. /\ scan \in Nal(s) /\ inFrame \in BOOLEAN /\ frameTs \in Nat
        /\ tables \in Sent(s) \cup {None} /\ dropped \in Nat /\ starts \in Nat
        /\ records \in Seq(JpegRecs(s))
    BY <1>1, <2>1, Zenon
  <2> QED BY <2>2 DEF JpegTypeOK
<1>3. Len(arrived) = 0 /\ Len(records) = 0
  BY <1>1
<1>4. H264(s)!ArrivedSet = {}
  BY <1>3 DEF H264!ArrivedSet
<1>5. ScanIsFrame(s) /\ JpegRecordsWhole(s) /\ TablesAreLatest(s) /\ OpenedIsHeld(s)
  BY <1>1, <1>3, <1>4 DEF ScanIsFrame, JpegRecordsWhole, TablesAreLatest, OpenedIsHeld
<1>6. TablesFit(s)
  BY <1>1, <1>3 DEF TablesFit, HasStarted
<1>7. Jpeg(s)!Resynchronises
  <2> SUFFICES ASSUME NEW f \in Jpeg(s)!SenderFrames, Jpeg(s)!RunOf(f) PROVE FALSE
    BY DEF Jpeg!Resynchronises
  <2>1. PICK l \in Nat : l = Len(f) /\ l > 0
    BY <1>0, FramesAre DEF IsFrame, Nal
  <2> QED BY <2>1, <1>3 DEF Jpeg!RunOf
<1>8. Jpeg(s)!FramesAccountedFor
  BY <1>1, <1>3 DEF Jpeg!FramesAccountedFor
<1> QED BY <1>2, <1>5, <1>6, <1>7, <1>8 DEF JpegInv

\* What the invariant says of the JPEGs that came out.
LEMMA JpegShows ==
    ASSUME NEW s \in DOMAIN Senders, s = sender, Sends("jpeg"), JpegInv(s)
    PROVE  Jpeg(s)!JpegsAreWhole
<1>0. Len(Stream(s)) \in Nat /\ JpegTypeOK(s) /\ JpegRecordsWhole(s) /\ TablesFit(s)
  BY JpegPackets DEF JpegInv
<1> SUFFICES ASSUME NEW k \in 1..Len(records), NEW p, p = records[k].scan
             PROVE  /\ p \in Jpeg(s)!SenderFrames /\ records[k].ts = Stream(s)[p[1]].ts
                    /\ Jpeg(s)!InOrder /\ Jpeg(s)!TablesOf(p[1]) \in Jpeg(s)!ArrivedSet =>
                          records[k].tables = Jpeg(s)!TablesOf(p[1])
  BY DEF Jpeg!JpegsAreWhole, Stream
<1>1. records[k] \in JpegRecs(s)
  BY <1>0 DEF JpegTypeOK
<1>2. PICK ts \in Nat, quant \in Sent(s) \cup {None} : ts = records[k].ts /\ quant = records[k].tables
  BY <1>1 DEF JpegRecs
<1>3. p \in Nal(s) /\ FrameSoFar(s, p, ts) /\ Stream(s)[p[Len(p)]].marker
  BY <1>0, <1>1, <1>2 DEF JpegRecs, JpegRecordsWhole
<1>4. PICK l \in Nat : l = Len(p) /\ l > 0 /\ 1 \in 1..l /\ p[1] \in Sent(s)
  BY <1>3 DEF FrameSoFar, Nal
<1>5. IsFrame(s, p) /\ ts = Stream(s)[p[1]].ts
  <2>1. \A n \in 1..l : p[n] = p[1] + n - 1 /\ Stream(s)[p[n]].ts = ts /\ Stream(s)[p[n]].off = n - 1
    BY <1>3, <1>4 DEF FrameSoFar
  <2>2. Stream(s)[p[1]].ts = ts /\ Stream(s)[p[1]].off = 0
    BY <2>1, <1>4
  <2>3. \A n \in 1..(l - 1) : n \in 1..l /\ n < l
    BY <1>4
  <2>4. \A n \in 1..(l - 1) : ~Stream(s)[p[n]].marker
    BY <2>3, <1>3, <1>4 DEF FrameSoFar
  <2> QED BY <2>1, <2>2, <2>4, <1>3, <1>4 DEF IsFrame, FrameSoFar
<1>6. HasTables(s, p[1], quant)
  <2>1. HasStarted(p[1], quant)
    BY <1>2 DEF HasStarted
  <2> QED BY <2>1, <1>0, <1>4 DEF TablesFit
<1>7. p \in Jpeg(s)!SenderFrames
  BY <1>0, <1>5, FramesAre
<1> QED BY <1>2, <1>5, <1>6, <1>7, SameNetwork DEF HasTables

-----------------------------------------------------------------------------
(* Steps that leave the receiver alone *)

NetUnchanged == UNCHANGED <<left, arrived, lastSeq, lost>>

LEMMA NetStays ==
    ASSUME NEW s \in DOMAIN Senders, NetInv(s), NetUnchanged
    PROVE  NetInv(s)'
<1>1. left' = left /\ arrived' = arrived /\ lastSeq' = lastSeq /\ lost' = lost
  BY DEF NetUnchanged
<1>2. NetTypeOK(s)'
  BY <1>1 DEF NetInv, NetTypeOK, Sent, Stream, H264!SeqOf, Latest
<1>3. H264(s)!ArrivedSet' = H264(s)!ArrivedSet
  BY <1>1 DEF H264!ArrivedSet
<1>4. H264(s)!LostIsMissing <=> H264(s)!LostIsMissing'
  BY <1>1, <1>3 DEF H264!LostIsMissing, H264!Missing, H264!Sent
<1>5. InOrderSoFar(s) <=> InOrderSoFar(s)'
  BY <1>1 DEF InOrderSoFar, Sent, Stream
<1>6. BurstsSoFar(s) <=> BurstsSoFar(s)'
  BY <1>1, <1>3 DEF BurstsSoFar, Sent, Stream
<1>7. Orders(s)'
  BY <1>4, <1>5, <1>6 DEF NetInv, Orders, Orderly
<1> QED BY <1>2, <1>7 DEF NetInv

LEMMA H264Stays ==
    ASSUME NEW s \in DOMAIN Senders, H264Inv(s), NetUnchanged, UNCHANGED <<h264Vars, records>>,
           reader' = "eof" => reader = "eof", reader = "eof" => reader' = "eof"
    PROVE  H264Inv(s)' /\ (WholeInv(s) => WholeInv(s)')
<1>1. /\ arrived' = arrived /\ (reader' = "eof" <=> reader = "eof") /\ records' = records
      /\ au' = au /\ auTs' = auTs /\ haveAu' = haveAu /\ frag' = frag /\ fragOk' = fragOk
  BY DEF NetUnchanged, h264Vars
<1>2. H264TypeOK(s)'
  BY <1>1 DEF H264Inv, H264TypeOK, Recs, Nal, Sent, Stream
<1>3. BegunIsHeld(s)' /\ (FragmentIsWhole(s) => FragmentIsWhole(s)')
  BY <1>1 DEF H264Inv, BegunIsHeld, FragmentIsWhole, Begun, BegunAt, Stream
<1>4. \A ts : H264(s)!Completions(ts)' = H264(s)!Completions(ts)
  BY <1>1 DEF H264!Completions
<1>5. \A ts : Pending(s, ts)' = Pending(s, ts)
  BY <1>1 DEF Pending, H264!Emitted
<1>6. H264(s)!SenderNals' = H264(s)!SenderNals
  BY DEF H264!SenderNals, H264!Sent
<1>7. H264(s)!ArrivedSet' = H264(s)!ArrivedSet
  BY <1>1 DEF H264!ArrivedSet
<1>8. \A ts : H264(s)!ArrivedNals(ts)' = H264(s)!ArrivedNals(ts)
  BY <1>6, <1>7 DEF H264!ArrivedNals
<1>9. UnitCounted(s)'
  BY <1>1, <1>4 DEF H264Inv, UnitCounted
<1>10. UnitsComeOut(s)'
  <2>1. \A nal : H264(s)!RunOf(nal)' <=> H264(s)!RunOf(nal)
    BY <1>1 DEF H264!RunOf
  <2> QED BY <2>1, <1>4, <1>5, <1>6 DEF H264Inv, UnitsComeOut, Stream
<1>11. ASSUME WholeInv(s) PROVE WholeInv(s)'
  <2>1. \A nals, ts : WholeNals(s, nals, ts)' <=> WholeNals(s, nals, ts)
    BY <1>8 DEF WholeNals
  <2>2. UnitIsWhole(s)' /\ RecordsAreWhole(s)'
    BY <2>1, <1>1, <1>11 DEF WholeInv, UnitIsWhole, RecordsAreWhole, AllWhole
  <2>3. UnitIsLatest(s)' /\ (reader' # "eof" => RecordsAreOver(s)') /\ RecordsInOrder'
    BY <1>1, <1>7, <1>11
    DEF WholeInv, UnitIsLatest, RecordsAreOver, Ends, RecordsInOrder, AllInOrder, Latest, Stream
  <2>4. NoneIsLost(s)'
    BY <1>5, <1>8, <1>11 DEF WholeInv, NoneIsLost, Sent, Stream
  <2> QED BY <2>2, <2>3, <2>4, <1>3, <1>11 DEF WholeInv
<1> QED BY <1>2, <1>3, <1>9, <1>10, <1>11 DEF H264Inv

LEMMA JpegStays ==
    ASSUME NEW s \in DOMAIN Senders, JpegInv(s), NetUnchanged, UNCHANGED <<jpegVars, dropped, records>>
    PROVE  JpegInv(s)'
<1>1. /\ arrived' = arrived /\ records' = records /\ scan' = scan /\ inFrame' = inFrame
      /\ frameTs' = frameTs /\ tables' = tables /\ starts' = starts /\ dropped' = dropped
  BY DEF NetUnchanged, jpegVars
<1>2. JpegTypeOK(s)'
  BY <1>1 DEF JpegInv, JpegTypeOK, JpegRecs, Nal, Sent, Stream
<1>3. ScanIsFrame(s)' /\ JpegRecordsWhole(s)'
  BY <1>1 DEF JpegInv, ScanIsFrame, JpegRecordsWhole, FrameSoFar, Stream
<1>4. H264(s)!ArrivedSet' = H264(s)!ArrivedSet
  BY <1>1 DEF H264!ArrivedSet
<1>5. TablesAreLatest(s)'
  BY <1>1, <1>4 DEF JpegInv, TablesAreLatest, Brings, Stream
<1>6. TablesFit(s)'
  <2>1. \A i, quant : HasStarted(i, quant)' <=> HasStarted(i, quant)
    BY <1>1 DEF HasStarted
  <2>2. \A i : Jpeg(s)!TablesOf(i)' = Jpeg(s)!TablesOf(i)
    BY DEF Jpeg!TablesOf
  <2>3. H264(s)!InOrder' <=> H264(s)!InOrder
    BY <1>1 DEF H264!InOrder
  <2>4. \A i, quant : HasTables(s, i, quant)' <=> HasTables(s, i, quant)
    BY <1>4, <2>2, <2>3 DEF HasTables, Brings, Stream
  <2> QED BY <2>1, <2>4, <1>4 DEF JpegInv, TablesFit, Sent, Stream
<1>7. OpenedIsHeld(s)'
  BY <1>1 DEF JpegInv, OpenedIsHeld, Opened, Brings, Latest, Stream
<1>8. Jpeg(s)!Resynchronises'
  <2>1. Jpeg(s)!SenderFrames' = Jpeg(s)!SenderFrames
    BY DEF Jpeg!SenderFrames, Jpeg!Sent
  <2>2. \A f : Jpeg(s)!RunOf(f)' <=> Jpeg(s)!RunOf(f)
    BY <1>1 DEF Jpeg!RunOf
  <2> QED BY <2>1, <2>2, <1>1 DEF JpegInv, Jpeg!Resynchronises
<1>9. Jpeg(s)!FramesAccountedFor'
  BY <1>1 DEF JpegInv, Jpeg!FramesAccountedFor
<1> QED BY <1>2, <1>3, <1>5, <1>6, <1>7, <1>8, <1>9 DEF JpegInv

-----------------------------------------------------------------------------
(* The invariant is inductive. *)

LEMMA InputStarts ==
    ASSUME InputInit
    PROVE  InputInv
<1> SUFFICES ASSUME NEW s \in DOMAIN Senders, s = sender
             PROVE  /\ Sends("h264") => NetInv(s) /\ H264Inv(s) /\ (Orderly(s) => WholeInv(s))
                    /\ Sends("jpeg") => NetInv(s) /\ JpegInv(s)
                    /\ ~Sends("h264") /\ ~Sends("jpeg") => arrived = <<>> /\ lost = 0
  BY DEF InputInv
<1>1. H264(s)!Init /\ Jpeg(s)!Init /\ reader = "binding"
  BY DEF InputInit
<1>2. H264(s)!NetInit
  BY <1>1 DEF H264!Init
<1>3. ASSUME Sends("h264") \/ Sends("jpeg") PROVE NetInv(s)
  <2>1. Len(Stream(s)) \in Nat /\ Senders[s].copies \in Nat
    BY <1>3, SenderTyped, SenderAssumption
  <2> QED BY <2>1, <1>2, NetStart, OrdersStart DEF NetInv
<1>4. ASSUME Sends("h264") PROVE H264Inv(s) /\ (Orderly(s) => WholeInv(s))
  BY <1>1, <1>4, H264Start, WholeStart
<1>5. ASSUME Sends("jpeg") PROVE JpegInv(s)
  BY <1>1, <1>5, JpegStart
<1>6. arrived = <<>> /\ lost = 0
  BY <1>2 DEF H264!NetInit
<1> QED BY <1>3, <1>4, <1>5, <1>6

LEMMA NetStep ==
    ASSUME NEW s \in DOMAIN Senders, s = sender, Sends("h264") \/ Sends("jpeg"), NetInv(s),
           NEW i \in Sent(s), H264(s)!Arrive(i)
    PROVE  NetInv(s)'
<1>1. Len(Stream(s)) \in Nat /\ NetTypeOK(s) /\ Orders(s)
  BY SenderTyped DEF NetInv
<1>2. NetTypeOK(s)' /\ Orders(s)'
  BY <1>1, Arrival, OrdersStep
<1> QED BY <1>2 DEF NetInv

LEMMA ReceiveKeeps ==
    ASSUME InputInv, Receive
    PROVE  InputInv'
<1>0. reader \in {"binding", "open"} /\ reader' = "open" /\ sender' = sender
  BY DEF Receive
<1>s. PICK s \in DOMAIN Senders :
          /\ s = sender
          /\ \E i \in DOMAIN Stream(s) :
                \/ Sends("h264") /\ H264(s)!Receive(i)
                \/ Sends("jpeg") /\ Jpeg(s)!Receive(i)
  BY DEF Receive, Stream
<1>1. PICK i \in DOMAIN Stream(s) :
          /\ s = sender
          /\ \/ Sends("h264") /\ H264(s)!Receive(i)
             \/ Sends("jpeg") /\ Jpeg(s)!Receive(i)
  BY <1>s
<1>2. (Sends("h264") \/ Sends("jpeg")) /\ ~(Sends("h264") /\ Sends("jpeg"))
  BY <1>1 DEF Sends
<1>3. i \in Sent(s)
  <2>1. Stream(s) \in Seq(PacketShapes(Senders[s].payload))
    BY <1>1, <1>2, SenderTyped
  <2> QED BY <2>1 DEF Sent
<1>4. NetInv(s) /\ NetTypeOK(s) /\ Orders(s)
  BY <1>1, <1>2 DEF InputInv, NetInv
<1>5. CASE Sends("h264") /\ H264(s)!Receive(i)
  <2>1. H264Inv(s) /\ (Orderly(s) => WholeInv(s))
    BY <1>1, <1>5 DEF InputInv
  <2>2. H264(s)!Arrive(i)
    BY <1>5 DEF H264!Receive
  <2>3. NetInv(s)'
    BY <2>2, <1>1, <1>2, <1>3, <1>4, NetStep
  <2>4. H264Inv(s)'
    BY <2>1, <1>0, <1>1, <1>3, <1>4, <1>5, H264Step
  <2>5. ASSUME Orderly(s) PROVE WholeInv(s)'
    BY <2>1, <2>5, <1>0, <1>1, <1>3, <1>4, <1>5, WholeStep
  <2>6. Sends("h264")' /\ ~Sends("jpeg")' /\ (Orderly(s)' <=> Orderly(s))
    BY <1>0, <1>2, <1>5 DEF Sends, Orderly
  <2> QED BY <2>3, <2>4, <2>5, <2>6, <1>0, <1>1 DEF InputInv
<1>6. CASE Sends("jpeg") /\ Jpeg(s)!Receive(i)
  <2>1. JpegInv(s)
    BY <1>1, <1>6 DEF InputInv
  <2>2. H264(s)!Arrive(i)
    BY <2>1, <1>1, <1>3, <1>6, JpegDoes DEF JpegInv
  <2>3. NetInv(s)'
    BY <2>2, <1>1, <1>2, <1>3, <1>4, NetStep
  <2>4. JpegInv(s)'
    BY <2>1, <1>1, <1>3, <1>4, <1>6, JpegStep
  <2>5. Sends("jpeg")' /\ ~Sends("h264")'
    BY <1>0, <1>2, <1>6 DEF Sends
  <2> QED BY <2>3, <2>4, <2>5, <1>0, <1>1 DEF InputInv
<1> QED BY <1>1, <1>5, <1>6

LEMMA SilenceKeeps ==
    ASSUME InputInv, Silence
    PROVE  InputInv'
<1>0. reader = "open" /\ reader' = "eof" /\ sender' = sender /\ UNCHANGED jpegVars
  BY DEF Silence
<1>1. PICK s \in DOMAIN Senders :
          /\ s = sender
          /\ \/ Sends("h264") /\ H264(s)!Finish
             \/ Sends("jpeg") /\ NetUnchanged /\ UNCHANGED <<dropped, records>>
  BY DEF Silence, NetUnchanged
<1>2. ~(Sends("h264") /\ Sends("jpeg"))
  BY DEF Sends
<1>3. CASE Sends("h264") /\ H264(s)!Finish
  <2>1. NetInv(s) /\ H264Inv(s) /\ (Orderly(s) => WholeInv(s)) /\ NetTypeOK(s) /\ Orders(s)
    BY <1>1, <1>3 DEF InputInv, NetInv
  <2>2. NetUnchanged
    BY <1>3 DEF H264!Finish, H264!netVars, NetUnchanged
  <2>3. NetInv(s)' /\ H264Inv(s)'
    BY <2>1, <2>2, <1>0, <1>1, <1>3, NetStays, H264Ends
  <2>4. ASSUME Orderly(s) PROVE WholeInv(s)'
    BY <2>1, <2>3, <2>4, <1>0, <1>1, <1>3, WholeEnds
  <2>5. Sends("h264")' /\ ~Sends("jpeg")' /\ (Orderly(s)' <=> Orderly(s))
    BY <1>0, <1>2, <1>3 DEF Sends, Orderly
  <2> QED BY <2>3, <2>4, <2>5, <1>0, <1>1 DEF InputInv
<1>4. CASE Sends("jpeg") /\ NetUnchanged /\ UNCHANGED <<dropped, records>>
  <2>1. NetInv(s) /\ JpegInv(s)
    BY <1>1, <1>4 DEF InputInv
  <2>2. NetInv(s)' /\ JpegInv(s)'
    BY <2>1, <1>0, <1>4, NetStays, JpegStays
  <2>3. Sends("jpeg")' /\ ~Sends("h264")'
    BY <1>0, <1>2, <1>4 DEF Sends
  <2> QED BY <2>2, <2>3, <1>0, <1>1 DEF InputInv
<1> QED BY <1>1, <1>3, <1>4

\* The demuxer's reads, and refusing the stream, leave the receiver alone.
LEMMA OthersKeep ==
    ASSUME InputInv, NetUnchanged, UNCHANGED <<sender, h264Vars, jpegVars, dropped, records>>,
           reader' = reader \/ (reader = "binding" /\ reader' = "refused")
    PROVE  InputInv'
<1> SUFFICES ASSUME NEW s \in DOMAIN Senders, s = sender
             PROVE  /\ Sends("h264") => NetInv(s)' /\ H264Inv(s)' /\ (Orderly(s) => WholeInv(s)')
                    /\ Sends("jpeg") => NetInv(s)' /\ JpegInv(s)'
                    /\ ~Sends("h264") /\ ~Sends("jpeg") => arrived' = <<>> /\ lost' = 0
  BY DEF InputInv, Sends, Orderly
<1>1. ASSUME Sends("h264") PROVE NetInv(s)' /\ H264Inv(s)' /\ (Orderly(s) => WholeInv(s)')
  <2>1. NetInv(s) /\ H264Inv(s) /\ (Orderly(s) => WholeInv(s))
    BY <1>1 DEF InputInv
  <2> QED BY <2>1, NetStays, H264Stays
<1>2. ASSUME Sends("jpeg") PROVE NetInv(s)' /\ JpegInv(s)'
  BY <1>2, NetStays, JpegStays DEF InputInv
<1>3. ASSUME ~Sends("h264") /\ ~Sends("jpeg") PROVE arrived' = <<>> /\ lost' = 0
  BY <1>3 DEF InputInv, NetUnchanged
<1> QED BY <1>1, <1>2, <1>3

LEMMA InputKeeps ==
    ASSUME InputInv, [InputNext]_inputVars
    PROVE  InputInv'
<1>1. CASE Receive
  BY <1>1, ReceiveKeeps
<1>2. CASE Silence
  BY <1>2, SilenceKeeps
<1>3. CASE Refuse
  BY <1>3, OthersKeep DEF Refuse, NetUnchanged
<1>4. CASE UNCHANGED <<sender, readerVars>>
  BY <1>4, OthersKeep DEF readerVars, NetUnchanged
<1>5. Receive \/ Silence \/ Refuse \/ UNCHANGED <<sender, readerVars>>
  BY DEF InputNext, inputVars, ReadPacket, ReadDumped
<1> QED BY <1>1, <1>2, <1>3, <1>4, <1>5

LEMMA LossShows ==
    ASSUME InputInv
    PROVE  LossIsReported
<1> SUFFICES ASSUME NEW s \in DOMAIN Senders, s = sender
             PROVE  /\ Orderly(s) => H264(s)!LostIsMissing
                    /\ Sends("jpeg") => Jpeg(s)!FramesAccountedFor
  BY DEF LossIsReported
<1>1. ASSUME Sends("jpeg") PROVE Jpeg(s)!FramesAccountedFor
  BY <1>1 DEF InputInv, JpegInv
<1>2. ASSUME Orderly(s), Sends("h264") \/ Sends("jpeg") PROVE H264(s)!LostIsMissing
  BY <1>2 DEF InputInv, NetInv, Orders
<1>3. ASSUME ~Sends("h264"), ~Sends("jpeg") PROVE H264(s)!LostIsMissing
  <2>1. arrived = <<>> /\ lost = 0 /\ Len(arrived) = 0
    BY <1>3 DEF InputInv
  <2>2. H264(s)!Missing = {}
    BY <2>1 DEF H264!Missing, H264!ArrivedSet
  <2>3. H264(s)!Cardinality(H264(s)!Missing) = 0
    BY <2>2, SameCardinality, FS_EmptySet
  <2> QED BY <2>1, <2>3 DEF H264!LostIsMissing
<1> QED BY <1>1, <1>2, <1>3

\* The invariant says more than any of the properties of what comes out.
LEMMA InputShows ==
    ASSUME InputInv
    PROVE  NalsAreWhole /\ NothingElseIsLost /\ JpegsAreWhole /\ Resynchronises
<1>1. NalsAreWhole /\ NothingElseIsLost
  <2> SUFFICES ASSUME NEW s \in DOMAIN Senders, s = sender, Sends("h264"), Orderly(s)
               PROVE  H264(s)!NalsAreWhole /\ (reader = "eof" => H264(s)!NothingElseIsLost)
    BY DEF NalsAreWhole, NothingElseIsLost
  <2>1. H264Inv(s) /\ WholeInv(s)
    BY DEF InputInv
  <2> QED BY <2>1, WholeShows
<1>2. JpegsAreWhole
  BY JpegShows DEF JpegsAreWhole, InputInv
<1>3. Resynchronises
  <2> SUFFICES ASSUME NEW s \in DOMAIN Senders, s = sender
               PROVE  /\ Sends("h264") /\ reader = "eof" => H264(s)!Resynchronises
                      /\ Sends("jpeg") => Jpeg(s)!Resynchronises
    BY DEF Resynchronises
  <2>1. ASSUME Sends("h264"), reader = "eof" PROVE H264(s)!Resynchronises
    BY <2>1, UnitsShow DEF InputInv
  <2>2. ASSUME Sends("jpeg") PROVE Jpeg(s)!Resynchronises
    BY <2>2 DEF InputInv, JpegInv
  <2> QED BY <2>1, <2>2
<1> QED BY <1>1, <1>2, <1>3

-----------------------------------------------------------------------------
(* The theorems on the receiver *)

LEMMA InputInvHolds == InputSpec => []InputInv
<1>1. InputInit => InputInv
  BY InputStarts
<1>2. InputInv /\ [InputNext]_inputVars => InputInv'
  BY InputKeeps
<1> QED BY <1>1, <1>2, PTL DEF InputSpec

\* On a network that neither repeats nor shuffles, whatever it loses, each NAL
\* unit of a record of the H.264 depayloader is one the sender sent, whole, under
\* its timestamp, in any stream of any sender (H264Depayloader.push).
THEOREM NalUnitsAreWhole == InputSpec => []NalsAreWhole
<1>1. InputInv => NalsAreWhole
  BY InputShows
<1> QED BY <1>1, InputInvHolds, PTL

\* When such a stream has ended, the NAL units that arrived are out, each once and
\* in order, except in frames over MAX_AU (H264Depayloader.push and flush).
THEOREM OnlyLossLoses == InputSpec => []NothingElseIsLost
<1>1. InputInv => NothingElseIsLost
  BY InputShows
<1> QED BY <1>1, InputInvHolds, PTL

\* On any network, with any repeats and reordering, a JPEG that is written is one
\* frame of the sender from its start to its marker; if the network keeps the
\* order, with the tables it was coded with (JpegDepayloader.push).
THEOREM FramesAreWhole == InputSpec => []JpegsAreWhole
<1>1. InputInv => JpegsAreWhole
  BY InputShows
<1> QED BY <1>1, InputInvHolds, PTL

\* Whatever came before, a NAL unit or a JPEG frame that arrives in one piece comes
\* out: the depayloaders never stay out of step.
THEOREM StepIsRegained == InputSpec => []Resynchronises
<1>1. InputInv => Resynchronises
  BY InputShows
<1> QED BY <1>1, InputInvHolds, PTL

\* The packets counted as lost are those missing, through any number of wraps of
\* the sequence numbers, and no JPEG frame begun is unaccounted for (RtpStats).
THEOREM LossCounts == InputSpec => []LossIsReported
<1>1. InputInv => LossIsReported
  BY LossShows
<1> QED BY <1>1, InputInvHolds, PTL

-----------------------------------------------------------------------------
(* The clock: quotients and remainders *)

\* Quotient and remainder give the number back.
LEMMA DivMod ==
    ASSUME NEW r \in Nat \ {0}, NEW c \in Nat
    PROVE  /\ c % r \in 0..(r - 1)
           /\ c \div r \in Nat
           /\ c = (c \div r) * r + (c % r)
<1>1. c % r \in 0..(r - 1)
  BY SMT
<1>2. c \div r \in Nat
  BY SMT
<1>3. c = (c \div r) * r + (c % r)
  BY SMT
<1> QED
  BY <1>1, <1>2, <1>3

\* Quotient and remainder of a number below the divisor.
LEMMA DivModSmall ==
    ASSUME NEW r \in Nat \ {0}, NEW c \in 0..(r - 1)
    PROVE  c % r = c /\ c \div r = 0
BY SMT

\* Two numbers whose quotients are at least two apart are more than r apart.
LEMMA QuotientsApart ==
    ASSUME NEW r \in Nat \ {0}, NEW a \in Nat, NEW b \in Nat, b + 1 < a
    PROVE  a * r >= b * r + 2 * r
<1>1. PICK k \in Nat : a = b + 2 + k
  <2>1. a - b - 2 \in Nat /\ a = b + 2 + (a - b - 2)
    BY SMT
  <2> QED
    BY <2>1
<1>2. (b + 2 + k) * r = b * r + 2 * r + k * r
  BY SMT
<1>3. k * r \in Nat
  BY SMT
<1> QED
  BY <1>1, <1>2, <1>3, SMT

\* Two clock readings less than half a range apart: their remainders tell how
\* their quotients differ, by the comparisons of WrapsAfter.
LEMMA Unwrapped ==
    ASSUME NEW r \in Nat \ {0}, NEW h \in Nat, r = 2 * h,
           NEW w \in Nat, NEW l \in 0..(r - 1),
           NEW q \in Nat, NEW s \in 0..(r - 1),
           q * r + s < w * r + l + h,
           w * r + l < q * r + s + h
    PROVE  q = IF s < l /\ l - s >= h THEN w + 1
               ELSE IF s > l /\ s - l >= h /\ w > 0 THEN w - 1
               ELSE w
<1>1. w * r \in Nat /\ q * r \in Nat
  BY SMT
<1>2. ~(w + 1 < q)
  <2>1. w + 1 < q => q * r >= w * r + 2 * r
    BY QuotientsApart
  <2> QED
    BY <1>1, <2>1, SMT
<1>3. ~(q + 1 < w)
  <2>1. q + 1 < w => w * r >= q * r + 2 * r
    BY QuotientsApart
  <2> QED
    BY <1>1, <2>1, SMT
<1>4. CASE q = w
  BY <1>1, <1>4, SMT
<1>5. CASE q = w + 1
  <2>1. q * r = w * r + r
    BY <1>5, SMT
  <2> QED
    BY <1>1, <1>5, <2>1, SMT
<1>6. CASE w = q + 1
  <2>1. w * r = q * r + r
    BY <1>6, SMT
  <2> QED
    BY <1>1, <1>6, <2>1, SMT
<1> QED
  BY <1>2, <1>3, <1>4, <1>5, <1>6, SMT

-----------------------------------------------------------------------------
(* The inductive invariant of the clock *)

\* Before the first frame nothing was counted and the sender's clock is still in
\* its first range; from then on wraps and last_ts are the quotient and the
\* remainder of the sender's clock.
Synchronised ==
    /\ clock \in Nat
    /\ firstTs = None => clock \in 0..(ClockRange - 1) /\ wraps = 0 /\ pts = None
    /\ firstTs # None => clock = wraps * ClockRange + lastTs /\ pts = clock - firstTs

ClockInv == TypeOK /\ Synchronised

LEMMA ClockStarts == Init => ClockInv
BY RangeAssumption DEF Init, ClockInv, TypeOK, Synchronised

\* The first frame: pts_of compares its timestamp with itself.
LEMMA FirstFrameKeeps ==
    ASSUME ClockInv, FirstFrame
    PROVE  ClockInv'
<1>1. clock \in 0..(ClockRange - 1) /\ wraps = 0 /\ firstTs = None
  BY DEF ClockInv, Synchronised, FirstFrame
<1>2. ClockRange \in Nat \ {0} /\ None \notin Int
  BY RangeAssumption
<1>3. clock % ClockRange = clock
  BY <1>1, <1>2, DivModSmall
<1>4. firstTs' = clock /\ lastTs' = clock /\ wraps' = 0 /\ clock' = clock
  BY <1>1, <1>2, <1>3, SMT DEF FirstFrame, PtsOf, WrapsAfter, Reference
<1>5. pts' = clock + wraps' * ClockRange - clock
  BY <1>1, <1>3 DEF FirstFrame, PtsOf
<1>6. pts' = 0
  BY <1>1, <1>2, <1>4, <1>5, SMT
<1> QED
  BY <1>1, <1>2, <1>4, <1>6, SMT DEF ClockInv, TypeOK, Synchronised

\* A later frame: by Unwrapped, pts_of counts exactly the wraps of the clock.
LEMMA LaterFrameKeeps ==
    ASSUME ~ReturnsToFirst, MaxLead = 0, ClockInv,
           NEW t \in (0 - MaxLead)..MaxClock, LaterFrame(t)
    PROVE  ClockInv'
<1> DEFINE ts == t % ClockRange
           q == t \div ClockRange
<1>1. ClockRange \in Nat \ {0} /\ None \notin Int /\ MaxClock \in Nat
  BY RangeAssumption
<1>2. Half \in Nat /\ ClockRange = 2 * Half
  BY RangeAssumption, SMT DEF Half
<1>3. /\ firstTs # None /\ firstTs \in 0..(ClockRange - 1)
      /\ lastTs \in 0..(ClockRange - 1) /\ wraps \in Nat /\ clock \in Nat
      /\ clock = wraps * ClockRange + lastTs
  BY DEF ClockInv, TypeOK, Synchronised, LaterFrame
<1>4. t \in Nat /\ ts \in 0..(ClockRange - 1) /\ q \in Nat /\ t = q * ClockRange + ts
  <2>1. t \in Nat
    BY <1>1, SMT
  <2> QED
    BY <1>1, <2>1, DivMod
<1>5. ts # firstTs
  BY DEF LaterFrame
<1>6. Reference(firstTs, ts) = lastTs
  BY <1>5 DEF Reference
<1>7. wraps' = WrapsAfter(lastTs, ts) /\ lastTs' = ts /\ clock' = t
      /\ firstTs' = firstTs /\ pts' = ts + wraps' * ClockRange - firstTs
  BY <1>3, <1>6 DEF LaterFrame, PtsOf
<1>8. t < clock + Half /\ clock < t + Half
  BY DEF LaterFrame
<1> HIDE DEF ts, q
<1>9. q = WrapsAfter(lastTs, ts)
  <2>1. /\ q * ClockRange + ts < wraps * ClockRange + lastTs + Half
        /\ wraps * ClockRange + lastTs < q * ClockRange + ts + Half
    BY <1>3, <1>4, <1>8
  <2>2. q = IF ts < lastTs /\ lastTs - ts >= Half THEN wraps + 1
            ELSE IF ts > lastTs /\ ts - lastTs >= Half /\ wraps > 0 THEN wraps - 1
            ELSE wraps
    BY <1>1, <1>2, <1>3, <1>4, <2>1, Unwrapped
  <2> QED
    BY <2>2 DEF WrapsAfter
<1>10. wraps' = q /\ pts' = ts + q * ClockRange - firstTs
  BY <1>7, <1>9
<1>11. q * ClockRange \in Nat
  BY <1>1, <1>4, SMT
<1>12. pts' = t - firstTs /\ pts' \in Int
  BY <1>1, <1>3, <1>4, <1>10, <1>11, SMT
<1> QED
  BY <1>1, <1>3, <1>4, <1>7, <1>10, <1>12 DEF ClockInv, TypeOK, Synchronised

LEMMA ClockKeeps ==
    ASSUME ~ReturnsToFirst, MaxLead = 0
    PROVE  ClockInv /\ [Next]_vars => ClockInv'
<1> SUFFICES ASSUME ClockInv, [Next]_vars PROVE ClockInv'
  OBVIOUS
<1>1. CASE FirstFrame
  BY <1>1, FirstFrameKeeps
<1>2. ASSUME NEW t \in (0 - MaxLead)..MaxClock, LaterFrame(t) PROVE ClockInv'
  BY <1>2, LaterFrameKeeps
<1>3. CASE UNCHANGED vars
  BY <1>3 DEF vars, ClockInv, TypeOK, Synchronised
<1> QED
  BY <1>1, <1>2, <1>3 DEF Next

-----------------------------------------------------------------------------
(* The theorems on the clock *)

\* In every reachable state of the RTP demuxer's clock (pts_of) the inductive
\* invariant holds.
THEOREM ClockInvariance ==
    ASSUME ~ReturnsToFirst, MaxLead = 0
    PROVE  Spec => []ClockInv
BY ClockStarts, ClockKeeps, PTL DEF Spec

\* For every range, every jump below half of it and any number of wraps, the pts
\* that pts_of returns is the time since the first frame.
THEOREM PtsIsTheElapsedTime ==
    ASSUME ~ReturnsToFirst, MaxLead = 0
    PROVE  Spec => []PtsIsElapsed
<1>1. ClockInv => PtsIsElapsed
  BY DEF ClockInv, Synchronised, PtsIsElapsed
<1> QED
  BY <1>1, ClockInvariance, PTL

===============================================================================
