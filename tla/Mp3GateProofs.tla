----------------------------- MODULE Mp3GateProofs -----------------------------
(***************************************************************************)
(* For every channel capacity, every stream and every way to cut it into   *)
(* packets: the two threads of decode_pipelined, however they interleave,  *)
(* take together the steps of the serial decoder (Mp3Serial), and so does  *)
(* the push decoder; and the same of both in GateSpec.                     *)
(***************************************************************************)
EXTENDS Mp3Gate, SequenceFacts

-----------------------------------------------------------------------------
(* The inductive invariant of the pipeline *)

\* What the entropy thread waits to send is the work of the good frame at pos,
\* which is in its reservoir already.
SendingInv ==
    sending # <<>> =>
        /\ Frames(bytes, pos, StreamLen) /\ bytes[pos].good
        /\ sending = reservoir /\ reservoir[Len(reservoir)] = pos

\* The threads end in this order: the one that scans, at the end of the stream
\* with nothing to send; then the one that receives, with nothing in between.
EndInv ==
    /\ closed => sending = <<>> /\ Stops(bytes, pos, StreamLen)
    /\ done => closed /\ channel = <<>>

\* The state of the calling thread is what its last output was made of.
StateInv == tstate = IF pcm = <<>> THEN <<>> ELSE pcm[Len(pcm)]

IInv == TypeOK /\ SendingInv /\ EndInv /\ StateInv

-----------------------------------------------------------------------------
(* What is in the channel, decoded in turn *)

\* The first i + 1 elements of c follow t as its head does, and then the first i
\* of the others.
LEMMA HeadFirst ==
    ASSUME NEW V, NEW t \in Seq(V), NEW c \in Seq(V), c # <<>>, NEW i \in 0..Len(Tail(c))
    PROVE  Append(t, Head(c)) \o SubSeq(Tail(c), 1, i) = t \o SubSeq(c, 1, i + 1)
<1>1. /\ Len(c) \in Nat \ {0} /\ Head(c) = c[1] /\ c[1] \in V /\ Tail(c) \in Seq(V)
      /\ Len(Tail(c)) = Len(c) - 1 /\ \A j \in 1..Len(Tail(c)) : Tail(c)[j] = c[j + 1]
  BY HeadTailProperties
<1>2. i \in Nat /\ i + 1 \in 1..Len(c)
  BY <1>1
<1> DEFINE s == SubSeq(Tail(c), 1, i)
           u == SubSeq(c, 1, i + 1)
<1>3. s \in Seq(V) /\ Len(s) = i /\ \A j \in 1..i : s[j] = Tail(c)[j]
  BY <1>1, <1>2
<1>4. u \in Seq(V) /\ Len(u) = i + 1 /\ \A j \in 1..(i + 1) : u[j] = c[j]
  BY <1>1, <1>2
<1> HIDE DEF s, u
<1>5. /\ <<c[1]>> \o s \in Seq(V) /\ Len(<<c[1]>> \o s) = i + 1
      /\ (<<c[1]>> \o s)[1] = c[1]
      /\ \A j \in 1..i : (<<c[1]>> \o s)[j + 1] = s[j]
  BY <1>1, <1>3, ConsParts
<1>6. ASSUME NEW j \in 1..(i + 1) PROVE (<<c[1]>> \o s)[j] = u[j]
  <2>1. CASE j = 1
    BY <1>4, <1>5, <2>1
  <2>2. CASE j # 1
    <3>1. j - 1 \in 1..i /\ j - 1 \in 1..Len(Tail(c)) /\ (j - 1) + 1 = j
      BY <1>1, <1>2, <2>2
    <3>2. (<<c[1]>> \o s)[j] = s[j - 1]
      BY <1>5, <3>1
    <3>3. s[j - 1] = c[j]
      BY <1>1, <1>3, <3>1
    <3> QED
      BY <1>4, <3>2, <3>3
  <2> QED
    BY <2>1, <2>2
<1>7. <<c[1]>> \o s = u
  BY <1>4, <1>5, <1>6, SeqEqual
<1>8. Append(t, c[1]) \o s = t \o (<<c[1]>> \o s)
  <2> DEFINE h == c[1]
  <2>1. h \in V /\ s \in Seq(V)
    BY <1>1, <1>3
  <2> HIDE DEF h
  <2>2. Append(t, h) \o s = t \o (<<h>> \o s)
    BY <2>1, AppendConcat
  <2> QED
    BY <2>2 DEF h
<1> QED
  BY <1>1, <1>7, <1>8 DEF s, u

\* The elements of Ahead(t, c).
LEMMA AheadTyped ==
    ASSUME NEW V, NEW t \in Seq(V), NEW c \in Seq(V)
    PROVE  /\ Ahead(t, c) \in Seq(Seq(V)) /\ Len(Ahead(t, c)) = Len(c)
           /\ \A i \in 1..Len(c) : Ahead(t, c)[i] = t \o SubSeq(c, 1, i)
<1>1. ASSUME NEW i \in 1..Len(c) PROVE t \o SubSeq(c, 1, i) \in Seq(V)
  <2>1. SubSeq(c, 1, i) \in Seq(V)
    OBVIOUS
  <2> QED
    BY <2>1
<1> QED
  BY <1>1 DEF Ahead

\* One more element in the channel is one more output to come.
LEMMA AheadAppend ==
    ASSUME NEW V, NEW t \in Seq(V), NEW c \in Seq(V), NEW w \in V,
           NEW d, d = Append(c, w)
    PROVE  Ahead(t, d) = Append(Ahead(t, c), t \o d)
<1> DEFINE n == Len(c)
<1>1. d \in Seq(V) /\ Len(d) = n + 1 /\ n \in Nat
  OBVIOUS
<1>2. \A i \in 1..n : SubSeq(d, 1, i) = SubSeq(c, 1, i)
  OBVIOUS
<1>3. SubSeq(d, 1, n + 1) = d
  BY <1>1, SubSeqFull
<1>4. /\ Ahead(t, d) \in Seq(Seq(V)) /\ Len(Ahead(t, d)) = n + 1
      /\ \A i \in 1..(n + 1) : Ahead(t, d)[i] = t \o SubSeq(d, 1, i)
  BY <1>1, AheadTyped
<1>5. /\ Ahead(t, c) \in Seq(Seq(V)) /\ Len(Ahead(t, c)) = n
      /\ \A i \in 1..n : Ahead(t, c)[i] = t \o SubSeq(c, 1, i)
  BY AheadTyped
<1>6. t \o d \in Seq(V)
  BY <1>1
<1> DEFINE X == Seq(V)
           e == Append(Ahead(t, c), t \o d)
<1> HIDE DEF X
<1>7. e \in Seq(X) /\ Len(e) = n + 1 /\ e[n + 1] = t \o d
      /\ \A i \in 1..n : e[i] = Ahead(t, c)[i]
  BY <1>1, <1>5, <1>6 DEF X
<1> HIDE DEF e, n
<1>8. \A i \in 1..(n + 1) : Ahead(t, d)[i] = e[i]
  <2> SUFFICES ASSUME NEW i \in 1..(n + 1) PROVE Ahead(t, d)[i] = e[i]
    OBVIOUS
  <2>1. CASE i \in 1..n
    BY <1>2, <1>4, <1>5, <1>7, <2>1
  <2>2. CASE i = n + 1
    BY <1>3, <1>4, <1>7, <2>2
  <2> QED
    BY <1>1, <2>1, <2>2
<1>9. Ahead(t, d) = e
  BY <1>1, <1>4, <1>7, <1>8, SeqEqual DEF X
<1> QED
  BY <1>9 DEF e

\* Transforming the head of the channel changes no output to come.
LEMMA AheadHead ==
    ASSUME NEW V, NEW t \in Seq(V), NEW c \in Seq(V), c # <<>>, NEW o \in Seq(Seq(V))
    PROVE  Append(o, Append(t, Head(c))) \o Ahead(Append(t, Head(c)), Tail(c))
               = o \o Ahead(t, c)
<1> DEFINE X == Seq(V)
           a == Append(t, Head(c))
           r == Ahead(a, Tail(c))
           f == Ahead(t, c)
           n == Len(c)
<1>1. /\ Head(c) \in V /\ Tail(c) \in Seq(V) /\ Len(Tail(c)) = n - 1 /\ n \in Nat \ {0}
      /\ a \in X
  BY HeadTailProperties
<1>2. /\ r \in Seq(X) /\ Len(r) = n - 1
      /\ \A i \in 1..(n - 1) : r[i] = a \o SubSeq(Tail(c), 1, i)
  BY <1>1, AheadTyped
<1>3. /\ f \in Seq(X) /\ Len(f) = n
      /\ \A i \in 1..n : f[i] = t \o SubSeq(c, 1, i)
  BY AheadTyped
<1>4. ASSUME NEW i \in 1..(n - 1) PROVE r[i] = f[i + 1]
  <2>1. i + 1 \in 1..n /\ i \in 0..Len(Tail(c))
    BY <1>1
  <2>2. a \o SubSeq(Tail(c), 1, i) = t \o SubSeq(c, 1, i + 1)
    BY <2>1, HeadFirst
  <2> QED
    BY <1>2, <1>3, <2>1, <2>2
<1>5. a = f[1]
  <2>1. 0 \in 0..Len(Tail(c)) /\ 1 \in 1..n
    BY <1>1
  <2>2. a \o SubSeq(Tail(c), 1, 0) = t \o SubSeq(c, 1, 0 + 1)
    BY <2>1, HeadFirst
  <2>3. SubSeq(Tail(c), 1, 0) = <<>>
    BY <1>1
  <2>4. a \o <<>> = a
    BY <1>1
  <2> QED
    BY <1>3, <2>1, <2>2, <2>3, <2>4
<1>6. o \in Seq(X) /\ Len(o) \in Nat
  OBVIOUS
<1> HIDE DEF X, a, r, f, n
<1>7. /\ <<a>> \o r \in Seq(X) /\ Len(<<a>> \o r) = n
      /\ (<<a>> \o r)[1] = a
      /\ \A i \in 1..(n - 1) : (<<a>> \o r)[i + 1] = r[i]
  BY <1>1, <1>2, ConsParts
<1>8. ASSUME NEW i \in 1..n PROVE (<<a>> \o r)[i] = f[i]
  <2>1. CASE i = 1
    BY <1>5, <1>7, <2>1
  <2>2. CASE i # 1
    <3>1. i - 1 \in 1..(n - 1) /\ (i - 1) + 1 = i
      BY <1>1, <2>2
    <3> QED
      BY <1>4, <1>7, <3>1
  <2> QED
    BY <2>1, <2>2
<1>9. <<a>> \o r = f
  BY <1>3, <1>7, <1>8, SeqEqual
<1>10. Append(o, a) \o r = o \o (<<a>> \o r)
  <2>1. a \in X /\ r \in Seq(X) /\ o \in Seq(X)
    BY <1>1, <1>2, <1>6
  <2> QED
    BY <2>1, AppendConcat
<1> QED
  BY <1>9, <1>10 DEF r, f, a

-----------------------------------------------------------------------------
(* The invariant is inductive *)

\* A frame that was found lies within the stream.
LEMMA FrameFits ==
    ASSUME TypeOK, Frames(bytes, pos, StreamLen)
    PROVE  /\ pos \in 0..(StreamLen - 1) /\ bytes[pos] \in Headers
           /\ pos + bytes[pos].size \in 0..StreamLen
<1>1. HeaderLen \in Nat \ {0} /\ StreamLen \in Nat /\ pos \in 0..StreamLen
  BY HeaderAssumption DEF TypeOK
<1>2. pos \in 0..(StreamLen - 1)
  BY <1>1 DEF Frames, Visible
<1>3. bytes[pos] \in Headers
  BY <1>2 DEF TypeOK, Streams, Frames
<1>4. bytes[pos].size \in Nat
  BY <1>3, HeaderAssumption
<1> QED
  BY <1>1, <1>2, <1>3, <1>4 DEF Frames, Whole

\* Where the scan moves on by one byte, there is a byte.
LEMMA ResyncFits ==
    ASSUME TypeOK, Resyncs(bytes, pos, StreamLen)
    PROVE  pos + 1 \in 0..StreamLen
<1>1. HeaderLen \in Nat \ {0} /\ StreamLen \in Nat /\ pos \in 0..StreamLen
  BY HeaderAssumption DEF TypeOK
<1> QED
  BY <1>1 DEF Resyncs, Visible

\* The invariant holds at the start.
LEMMA InitOK == PipelineInit => IInv
<1> SUFFICES ASSUME PipelineInit PROVE IInv
  OBVIOUS
<1>1. 0 \in 0..StreamLen /\ Depth \in Nat
  BY HeaderAssumption, DepthAssumption
<1>2. <<>> \in Reservoir
  BY DEF Reservoir
<1>3. <<>> \in Seq(Reservoir) /\ <<>> \in Seq(Seq(Reservoir))
  OBVIOUS
<1>4. Len(<<>>) <= Depth
  BY <1>1
<1>5. /\ bytes \in Streams /\ pos \in 0..StreamLen /\ closed \in BOOLEAN /\ done \in BOOLEAN
      /\ reservoir \in Reservoir /\ sending \in Reservoir
  BY <1>1, <1>2 DEF PipelineInit
<1>6. /\ channel \in Seq(Reservoir) /\ Len(channel) <= Depth
      /\ tstate \in Seq(Reservoir) /\ pcm \in Seq(Seq(Reservoir))
  BY <1>3, <1>4 DEF PipelineInit
<1>7. TypeOK
  BY <1>5, <1>6 DEF TypeOK
<1> QED
  BY <1>7 DEF PipelineInit, IInv, SendingInv, EndInv, StateInv

\* Every step keeps the types.
LEMMA TypeStep ==
    ASSUME IInv, [PipelineNext]_pipelineVars
    PROVE  TypeOK'
<1> USE DEF IInv
<1>1. <<>> \in Reservoir
  BY DEF Reservoir
<1>2. CASE Resync
  BY <1>2, ResyncFits DEF Resync, TypeOK, transformVars
<1>3. CASE BadFrame
  BY <1>3, FrameFits DEF BadFrame, TypeOK, transformVars
<1>4. CASE GoodFrame
  <2>1. Append(reservoir, pos) \in Reservoir
    BY <1>4, FrameFits DEF GoodFrame, TypeOK, Reservoir
  <2> QED
    BY <1>4, <2>1 DEF GoodFrame, Work, TypeOK, transformVars
<1>5. CASE Send
  <2>1. pos + bytes[pos].size \in 0..StreamLen
    BY <1>5, FrameFits DEF Send, SendingInv
  <2>2. Append(channel, sending) \in Seq(Reservoir) /\ Len(Append(channel, sending)) <= Depth
    BY <1>5, DepthAssumption DEF Send, Room, TypeOK
  <2> QED
    BY <1>1, <1>5, <2>1, <2>2 DEF Send, Sent, TypeOK, transformVars
<1>6. CASE Close
  BY <1>6 DEF Close, TypeOK, transformVars
<1>7. CASE Transform
  <2>1. /\ Head(channel) \in Reservoir /\ Tail(channel) \in Seq(Reservoir)
        /\ Len(Tail(channel)) <= Depth
    BY <1>7, DepthAssumption DEF Transform, TypeOK
  <2>2. Append(tstate, Head(channel)) \in Seq(Reservoir)
    BY <2>1 DEF TypeOK
  <2> QED
    BY <1>7, <2>1, <2>2 DEF Transform, TypeOK, entropyVars
<1>8. CASE Finish
  BY <1>8 DEF Finish, TypeOK, entropyVars
<1>9. CASE UNCHANGED pipelineVars
  BY <1>9 DEF pipelineVars, entropyVars, transformVars, TypeOK
<1> QED
  BY <1>2, <1>3, <1>4, <1>5, <1>6, <1>7, <1>8, <1>9 DEF PipelineNext, Entropy, Calling

\* Every step keeps the invariant.
LEMMA Inductive == IInv /\ [PipelineNext]_pipelineVars => IInv'
<1> SUFFICES ASSUME IInv, [PipelineNext]_pipelineVars PROVE IInv'
  OBVIOUS
<1>1. TypeOK'
  BY TypeStep
<1>2. SendingInv'
  <2>1. CASE GoodFrame
    <3>1. reservoir \in Seq(0..(StreamLen - 1)) /\ pos \in 0..(StreamLen - 1)
      BY <2>1, FrameFits DEF GoodFrame, IInv, TypeOK, Reservoir
    <3>2. /\ Append(reservoir, pos)[Len(Append(reservoir, pos))] = pos
      BY <3>1
    <3> QED
      BY <2>1, <3>2 DEF GoodFrame, Work, SendingInv
  <2>2. CASE Send
    BY <2>2 DEF Send, SendingInv
  <2>3. CASE ~GoodFrame /\ ~Send
    BY <2>3 DEF PipelineNext, Entropy, Calling, Resync, BadFrame, Close, Transform, Finish,
                pipelineVars, entropyVars, transformVars, IInv, SendingInv
  <2> QED
    BY <2>1, <2>2, <2>3
<1>3. EndInv'
  BY DEF PipelineNext, Entropy, Calling, Resync, BadFrame, GoodFrame, Send, Close, HangsUp, Transform,
         Finish, pipelineVars, entropyVars, transformVars, IInv, EndInv, SendingInv, Stops
<1>4. StateInv'
  <2>1. CASE Transform
    <3> DEFINE X == Seq(Reservoir)
    <3>1. tstate' \in X /\ pcm \in Seq(X) /\ pcm' = Append(pcm, tstate')
      BY <1>1, <2>1 DEF TypeOK, IInv, Transform
    <3> HIDE DEF X
    <3>2. pcm' # <<>> /\ pcm'[Len(pcm')] = tstate'
      BY <3>1
    <3> QED
      BY <3>2 DEF StateInv
  <2>2. CASE ~Transform
    BY <2>2 DEF PipelineNext, Entropy, Calling, Resync, BadFrame, GoodFrame, Send, Close, Finish,
                pipelineVars, entropyVars, transformVars, IInv, StateInv
  <2> QED
    BY <2>1, <2>2
<1> QED
  BY <1>1, <1>2, <1>3, <1>4 DEF IInv

\* The invariant holds throughout.
LEMMA Invariance == PipelineSpec => []IInv
<1>1. PipelineInit => IInv
  BY InitOK
<1>2. IInv /\ [PipelineNext]_pipelineVars => IInv'
  BY Inductive
<1> QED
  BY <1>1, <1>2, PTL DEF PipelineSpec

\* Every variable keeps its type; the channel never holds more than its capacity.
THEOREM TypeCorrect == PipelineSpec => []TypeOK
<1>1. IInv => TypeOK
  BY DEF IInv
<1> QED
  BY <1>1, Invariance, PTL

-----------------------------------------------------------------------------
(* The pipeline takes the steps of the serial decoder *)

\* What has come out, and what is to come of the work in the channel.
Coming == pcm \o Ahead(tstate, channel)

\* What is to come is PCM, frame by frame.
LEMMA ComingTyped ==
    ASSUME TypeOK
    PROVE  /\ Ahead(tstate, channel) \in Seq(Seq(Reservoir))
           /\ Coming \in Seq(Seq(Reservoir))
<1>1. Ahead(tstate, channel) \in Seq(Seq(Reservoir))
  BY AheadTyped DEF TypeOK
<1> DEFINE X == Seq(Reservoir)
<1>2. pcm \in Seq(X) /\ Ahead(tstate, channel) \in Seq(X)
  BY <1>1 DEF TypeOK
<1> HIDE DEF X
<1>3. Coming \in Seq(X)
  BY <1>2 DEF Coming
<1> QED
  BY <1>1, <1>3 DEF X

\* The last output to come is made of all the work that was sent.
LEMMA LastComing ==
    ASSUME IInv
    PROVE  (IF Coming = <<>> THEN <<>> ELSE Coming[Len(Coming)]) = tstate \o channel
<1> DEFINE X == Seq(Reservoir)
           a == Ahead(tstate, channel)
           n == Len(channel)
<1>1. channel \in X /\ tstate \in X /\ pcm \in Seq(X) /\ n \in Nat
  BY DEF IInv, TypeOK
<1>2. a \in Seq(X) /\ Len(a) = n
      /\ \A i \in 1..n : a[i] = tstate \o SubSeq(channel, 1, i)
  BY AheadTyped DEF IInv, TypeOK
<1>3. CASE channel = <<>>
  <2>1. tstate \o channel = tstate
    BY <1>1, <1>3
  <2> HIDE DEF X
  <2>2. a = <<>>
    BY <1>2, <1>3
  <2>3. Coming = pcm
    BY <1>1, <2>2 DEF Coming
  <2> QED
    BY <2>1, <2>3 DEF IInv, StateInv
<1>4. CASE channel # <<>>
  <2>1. n \in 1..n /\ SubSeq(channel, 1, n) = channel
    BY <1>1, <1>4
  <2>2. a[n] = tstate \o channel
    BY <1>2, <2>1
  <2> HIDE DEF X, a
  <2>3. pcm \o a \in Seq(X) /\ Len(pcm \o a) = Len(pcm) + Len(a)
        /\ \A i \in (Len(pcm) + 1)..(Len(pcm) + Len(a)) : (pcm \o a)[i] = a[i - Len(pcm)]
    BY <1>1, <1>2, ConcatParts
  <2> HIDE DEF n
  <2>4. Len(pcm) \in Nat
    BY <1>1
  <2>5. (pcm \o a)[Len(pcm) + n] = a[n] /\ Len(pcm \o a) = Len(pcm) + n /\ n > 0
    BY <1>1, <1>2, <2>1, <2>3, <2>4
  <2>6. pcm \o a # <<>>
    BY <2>4, <2>5, <1>1
  <2> QED
    BY <2>2, <2>5, <2>6 DEF Coming, a
<1> QED
  BY <1>3, <1>4

\* Sending is the serial decoder's step over a good frame.
LEMMA SendDecodes ==
    ASSUME IInv, Send
    PROVE  /\ SentReservoir' = Append(SentReservoir, pos)
           /\ Coming' = Append(Coming,
                  Append(IF Coming = <<>> THEN <<>> ELSE Coming[Len(Coming)],
                         Append(SentReservoir, pos)))
<1>1. /\ sending # <<>> /\ sending = reservoir /\ reservoir[Len(reservoir)] = pos
      /\ sending' = <<>> /\ reservoir' = reservoir
      /\ channel' = Append(channel, sending) /\ tstate' = tstate /\ pcm' = pcm
  BY DEF Send, Sent, IInv, SendingInv, transformVars
<1>2. Append(SentReservoir, pos) = reservoir
  <2>1. reservoir \in Seq(0..(StreamLen - 1)) /\ reservoir # <<>>
    BY <1>1 DEF IInv, TypeOK, Reservoir
  <2>2. Append(SubSeq(reservoir, 1, Len(reservoir) - 1), reservoir[Len(reservoir)]) = reservoir
    BY <2>1
  <2> QED
    BY <1>1, <2>2 DEF SentReservoir
<1>3. SentReservoir' = reservoir
  BY <1>1 DEF SentReservoir
<1>4. tstate \in Seq(Reservoir) /\ channel \in Seq(Reservoir) /\ sending \in Reservoir
  BY DEF IInv, TypeOK
<1> DEFINE X == Seq(Reservoir)
           a == Ahead(tstate, channel)
           w == sending
           d == tstate \o Append(channel, w)
<1>5. Ahead(tstate, Append(channel, w)) = Append(a, d)
  <2> DEFINE R == Reservoir
  <2>1. tstate \in Seq(R) /\ channel \in Seq(R) /\ w \in R
    BY <1>4
  <2> HIDE DEF R, w
  <2> QED
    BY <2>1, AheadAppend
<1>6. d = Append(tstate \o channel, w)
  BY <1>4
<1>7. d \in X /\ a \in Seq(X) /\ pcm \in Seq(X)
  <2>1. d \in X
    BY <1>4
  <2> QED
    BY <2>1, ComingTyped DEF IInv, TypeOK
<1> HIDE DEF X, a, d, w
<1>8. pcm \o Append(a, d) = Append(pcm \o a, d)
  BY <1>7
<1>9. Coming' = Append(Coming, d)
  <2>1. Coming' = pcm \o Ahead(tstate, Append(channel, w))
    BY <1>1 DEF Coming, w
  <2> QED
    BY <1>5, <1>8, <2>1 DEF Coming, a, d, w
<1> QED
  BY <1>1, <1>2, <1>3, <1>6, <1>9, LastComing DEF w

\* Both scan alike.
LEMMA SameScan ==
    \A b, p, n : /\ Serial!Resyncs(b, p, n) <=> Resyncs(b, p, n)
                 /\ Serial!Frames(b, p, n) <=> Frames(b, p, n)
                 /\ Serial!Stops(b, p, n) <=> Stops(b, p, n)
  BY DEF Serial!Resyncs, Resyncs, Serial!Frames, Frames, Serial!Stops, Stops,
         Serial!Visible, Visible, Serial!Whole, Whole, Serial!Junk, Junk

\* A step of either thread is a step of the serial decoder, or none.
LEMMA StepSimulates ==
    ASSUME IInv, [PipelineNext]_pipelineVars
    PROVE  [Serial!Next]_(Serial!vars)
<1>1. CASE Resync
  <2>1. ~done /\ UNCHANGED <<bytes, SentReservoir, Coming, done>>
    BY <1>1 DEF Resync, transformVars, SentReservoir, Coming, IInv, EndInv
  <2>2. Serial!Resync
    BY <1>1, <2>1, SameScan DEF Resync, Serial!Resync, Coming
  <2> QED
    BY <2>2 DEF Serial!Next
<1>2. CASE BadFrame
  <2>1. ~done /\ UNCHANGED <<bytes, SentReservoir, Coming, done>>
    BY <1>2 DEF BadFrame, transformVars, SentReservoir, Coming, IInv, EndInv
  <2>2. Serial!BadFrame
    BY <1>2, <2>1, SameScan DEF BadFrame, Serial!BadFrame, Coming
  <2> QED
    BY <2>2 DEF Serial!Next
<1>3. CASE GoodFrame
  <2>1. SentReservoir' = SentReservoir
    <3>1. reservoir \in Seq(0..(StreamLen - 1)) /\ pos \in 0..(StreamLen - 1)
      BY <1>3, FrameFits DEF GoodFrame, IInv, TypeOK, Reservoir
    <3>2. Len(Append(reservoir, pos)) - 1 = Len(reservoir)
      BY <3>1
    <3>3. SubSeq(Append(reservoir, pos), 1, Len(reservoir)) = reservoir
      BY <3>1
    <3>4. Append(reservoir, pos) # <<>>
      BY <3>1
    <3> QED
      BY <1>3, <3>2, <3>3, <3>4 DEF GoodFrame, Work, SentReservoir
  <2>2. UNCHANGED <<bytes, pos, Coming, done>>
    BY <1>3 DEF GoodFrame, transformVars, Coming
  <2> QED
    BY <2>1, <2>2 DEF Serial!vars, Coming
<1>4. CASE Send
  <2>1. /\ ~done /\ Frames(bytes, pos, StreamLen) /\ bytes[pos].good
        /\ pos' = pos + bytes[pos].size /\ UNCHANGED <<bytes, done>>
    BY <1>4 DEF Send, transformVars, IInv, EndInv, SendingInv
  <2>2. Serial!GoodFrame
    BY <1>4, <2>1, SendDecodes, SameScan
       DEF Serial!GoodFrame, Serial!Decoded, Serial!Work, Coming
  <2> QED
    BY <2>2 DEF Serial!Next
<1>5. CASE Close
  BY <1>5 DEF Close, transformVars, Serial!vars, SentReservoir
<1>6. CASE Transform
  <2>1. Coming' = Coming
    BY <1>6, AheadHead DEF Transform, Coming, IInv, TypeOK
  <2>2. UNCHANGED <<bytes, pos, SentReservoir, done>>
    BY <1>6 DEF Transform, entropyVars, SentReservoir
  <2> QED
    BY <2>1, <2>2 DEF Serial!vars, Coming
<1>7. CASE Finish
  <2>1. /\ ~done /\ done' = TRUE /\ Stops(bytes, pos, StreamLen)
        /\ UNCHANGED <<bytes, pos, SentReservoir, Coming>>
    BY <1>7 DEF Finish, entropyVars, SentReservoir, Coming, IInv, EndInv
  <2>2. Serial!Finish
    BY <2>1, SameScan DEF Serial!Finish, Coming
  <2> QED
    BY <2>2 DEF Serial!Next
<1>8. CASE UNCHANGED pipelineVars
  BY <1>8 DEF pipelineVars, entropyVars, transformVars, Serial!vars, SentReservoir
<1> QED
  BY <1>1, <1>2, <1>3, <1>4, <1>5, <1>6, <1>7, <1>8 DEF PipelineNext, Entropy, Calling

\* Both start alike.
LEMMA SerialInit == PipelineInit => Serial!Init
<1> SUFFICES ASSUME PipelineInit PROVE Serial!Init
  OBVIOUS
<1>1. Ahead(<<>>, <<>>) = <<>> /\ <<>> \o <<>> = <<>>
  BY DEF Ahead
<1> QED
  BY <1>1 DEF PipelineInit, Serial!Init, Serial!Streams, Streams, Serial!Junk, Junk, SentReservoir

\* The output of the pipeline is that of the serial path (decode_pipelined:
\* "Output is identical to the serial path"), for every capacity of the channel
\* and every interleaving of the two threads.
THEOREM PipelineIsSerial == PipelineSpec => SerialSpec
<1>1. PipelineInit => Serial!Init
  BY SerialInit
<1>2. IInv /\ [PipelineNext]_pipelineVars => [Serial!Next]_(Serial!vars)
  BY StepSimulates
<1> QED
  BY <1>1, <1>2, Invariance, PTL DEF PipelineSpec, SerialSpec, Serial!Spec

-----------------------------------------------------------------------------
(* The push decoder *)

\* All the frames queued, those the caller has received before the others.
Queued == returned \o queue

\* The scan stands still, and nothing waits, whenever the caller has the turn;
\* the input has ended before the decoder is flushed; and the decoder's state is
\* what its last frame was made of.
PushInv ==
    /\ Push!TypeOK
    /\ pc # "parse" => Push!Stops(bytes, dpos, sent)
    /\ pc \in {"demux", "done"} => queue = <<>>
    /\ pushEof => sent = StreamLen /\ pc \in {"pull", "done"}
    /\ pc = "done" => pushEof
    /\ dstate = IF Queued = <<>> THEN <<>> ELSE Queued[Len(Queued)]

\* A frame that was found in what was pushed lies within it.
LEMMA PushedFrameFits ==
    ASSUME PushInv, Push!Frames(bytes, dpos, sent)
    PROVE  /\ dpos \in 0..(StreamLen - 1)
           /\ dpos + bytes[dpos].size \in 0..sent
           /\ Push!Serial!Frames(bytes, dpos, StreamLen)
<1>1. /\ HeaderLen \in Nat \ {0} /\ StreamLen \in Nat
      /\ sent \in 0..StreamLen /\ dpos \in 0..sent
  BY HeaderAssumption DEF PushInv, Push!TypeOK
<1>2. dpos \in 0..(StreamLen - 1) /\ dpos + HeaderLen <= StreamLen
  BY <1>1 DEF Push!Frames, Push!Visible
<1>3. bytes[dpos] \in Headers /\ bytes[dpos] # Push!Junk /\ bytes[dpos].fits
  BY <1>2 DEF PushInv, Push!TypeOK, Push!Streams, Push!Frames
<1>4. bytes[dpos].size \in Nat
  BY <1>3, HeaderAssumption
<1>5. dpos + bytes[dpos].size <= sent
  BY DEF Push!Frames, Push!Whole
<1>6. dpos + bytes[dpos].size <= StreamLen
  BY <1>1, <1>4, <1>5
<1> QED
  BY <1>1, <1>2, <1>3, <1>4, <1>5, <1>6
     DEF Push!Serial!Frames, Push!Serial!Visible, Push!Serial!Whole, Push!Serial!Junk, Push!Junk

\* Where the scan of what was pushed moves on by one byte, that of the whole
\* stream does.
LEMMA PushedResyncFits ==
    ASSUME PushInv, Push!Resyncs(bytes, dpos, sent)
    PROVE  /\ dpos + 1 \in 0..sent
           /\ Push!Serial!Resyncs(bytes, dpos, StreamLen)
<1>1. /\ HeaderLen \in Nat \ {0} /\ StreamLen \in Nat
      /\ sent \in 0..StreamLen /\ dpos \in 0..sent
  BY HeaderAssumption DEF PushInv, Push!TypeOK
<1>2. dpos \in 0..(StreamLen - 1) /\ dpos + HeaderLen <= sent
  BY <1>1 DEF Push!Resyncs, Push!Visible
<1>3. ASSUME bytes[dpos] # Push!Junk
      PROVE  dpos + bytes[dpos].size <= StreamLen /\ ~bytes[dpos].fits
  <2>1. bytes[dpos] \in Headers
    BY <1>2, <1>3 DEF PushInv, Push!TypeOK, Push!Streams
  <2>2. bytes[dpos].size \in Nat
    BY <2>1, HeaderAssumption
  <2> QED
    BY <1>1, <1>3, <2>2 DEF Push!Resyncs, Push!Whole
<1> QED
  BY <1>1, <1>2, <1>3
     DEF Push!Serial!Resyncs, Push!Serial!Visible, Push!Serial!Whole, Push!Serial!Junk, Push!Junk

\* A good frame is queued with the state that the frames before it left.
LEMMA PushDecodes ==
    ASSUME PushInv, Push!GoodFrame
    PROVE  /\ Push!TypeOK'
           /\ Queued' = Append(Queued, dstate') /\ Queued' # <<>>
           /\ Queued'[Len(Queued')] = dstate'
<1> DEFINE X == Seq(Push!Reservoir)
<1>1. dpos \in 0..(StreamLen - 1) /\ dpos + bytes[dpos].size \in 0..sent
  BY PushedFrameFits DEF Push!GoodFrame
<1>2. Append(dreservoir, dpos) \in Push!Reservoir
  BY <1>1 DEF PushInv, Push!TypeOK, Push!Reservoir
<1>3. dstate' \in X
  BY <1>2 DEF PushInv, Push!TypeOK, Push!GoodFrame, Push!Work
<1>4. returned \in Seq(X) /\ queue \in Seq(X)
  BY DEF PushInv, Push!TypeOK
<1>5. returned' = returned /\ queue' = Append(queue, dstate')
  BY DEF Push!GoodFrame
<1> HIDE DEF X
<1>6. queue' \in Seq(X)
  BY <1>3, <1>4, <1>5
<1>7. Push!TypeOK'
  BY <1>1, <1>2, <1>3, <1>6 DEF PushInv, Push!TypeOK, Push!GoodFrame, X
<1>8. Queued \in Seq(X) /\ Queued' = Append(Queued, dstate')
  <2>1. returned \o queue \in Seq(X)
    BY <1>4
  <2>2. returned \o Append(queue, dstate') = Append(returned \o queue, dstate')
    BY <1>3, <1>4, ConcatAppend
  <2> QED
    BY <1>5, <2>1, <2>2 DEF Queued
<1>9. Append(Queued, dstate') # <<>>
      /\ Append(Queued, dstate')[Len(Append(Queued, dstate'))] = dstate'
  BY <1>3, <1>8
<1> QED
  BY <1>7, <1>8, <1>9

\* Delivering a frame moves it from the queue to the caller.
LEMMA PushDelivers ==
    ASSUME PushInv, Push!Deliver
    PROVE  Push!TypeOK' /\ Queued' = Queued
<1> DEFINE X == Seq(Push!Reservoir)
<1>1. returned \in Seq(X) /\ queue \in Seq(X) /\ queue # <<>>
  BY DEF PushInv, Push!TypeOK, Push!Deliver
<1>2. returned' = Append(returned, Head(queue)) /\ queue' = Tail(queue)
  BY DEF Push!Deliver
<1> HIDE DEF X
<1>3. Head(queue) \in X /\ Tail(queue) \in Seq(X)
  BY <1>1, HeadTailProperties
<1>4. returned' \in Seq(X) /\ queue' \in Seq(X)
  BY <1>1, <1>2, <1>3
<1>5. Push!TypeOK'
  BY <1>4 DEF PushInv, Push!TypeOK, Push!Deliver, Push!AfterFrame, X
<1> QED
  BY <1>1, <1>2, <1>5, HeadMoves DEF Queued

\* The push decoder's invariant holds at the start.
LEMMA PushInitOK == GateInit => PushInv
<1> SUFFICES ASSUME GateInit PROVE PushInv
  OBVIOUS
<1>1. HeaderLen \in Nat \ {0} /\ StreamLen \in Nat /\ 0 \in 0..StreamLen /\ 0 \in 0..0
  BY HeaderAssumption
<1>2. /\ bytes \in Push!Streams /\ sent = 0 /\ dpos = 0 /\ pc = "demux" /\ pushEof = FALSE
      /\ dreservoir = <<>> /\ dstate = <<>> /\ queue = <<>> /\ returned = <<>>
  BY DEF GateInit, Push!Init
<1>3. /\ <<>> \in Push!Reservoir /\ <<>> \in Seq(Push!Reservoir)
      /\ <<>> \in Seq(Seq(Push!Reservoir))
  BY DEF Push!Reservoir
<1>4. Push!TypeOK
  BY <1>1, <1>2, <1>3 DEF Push!TypeOK
<1>5. Push!Stops(bytes, dpos, sent)
  BY <1>1, <1>2 DEF Push!Stops, Push!Resyncs, Push!Frames, Push!Visible
<1>6. Queued = <<>>
  BY <1>2 DEF Queued
<1> QED
  BY <1>2, <1>4, <1>5, <1>6 DEF PushInv

\* The pipeline runs when the push decoder is done, over the same stream.
LEMMA PipelinedLeavesPush ==
    ASSUME Pipelined
    PROVE  UNCHANGED Push!vars
<1>1. PipelineNext => UNCHANGED bytes
  BY DEF PipelineNext, Entropy, Calling, Resync, BadFrame, GoodFrame, Send, Close, Transform, Finish
<1> QED
  BY <1>1 DEF Pipelined, pushVars, Push!vars

\* A step of the push decoder keeps its invariant.
LEMMA PushStep ==
    ASSUME PushInv, Push!Next
    PROVE  PushInv'
<1>1. /\ HeaderLen \in Nat \ {0} /\ StreamLen \in Nat
      /\ sent \in 0..StreamLen /\ dpos \in 0..sent
  BY HeaderAssumption DEF PushInv, Push!TypeOK
<1>2. CASE \E n \in 1..StreamLen : Push!Push(n)
  <2>1. PICK n \in 1..StreamLen : Push!Push(n)
    BY <1>2
  <2>2. sent + n \in 0..StreamLen /\ dpos \in 0..(sent + n)
    BY <1>1, <2>1 DEF Push!Push
  <2>3. Queued' = Queued
    BY <2>1 DEF Push!Push, Queued
  <2> QED
    BY <2>1, <2>2, <2>3 DEF PushInv, Push!TypeOK, Push!Push
<1>3. CASE Push!Resync
  <2>1. dpos + 1 \in 0..sent
    BY <1>3, PushedResyncFits DEF Push!Resync
  <2>2. Queued' = Queued
    BY <1>3 DEF Push!Resync, Queued
  <2> QED
    BY <1>3, <2>1, <2>2 DEF PushInv, Push!TypeOK, Push!Resync
<1>4. CASE Push!BadFrame
  <2>1. dpos + bytes[dpos].size \in 0..sent
    BY <1>4, PushedFrameFits DEF Push!BadFrame
  <2>2. Queued' = Queued
    BY <1>4 DEF Push!BadFrame, Queued
  <2> QED
    BY <1>4, <2>1, <2>2 DEF PushInv, Push!TypeOK, Push!BadFrame
<1>5. CASE Push!GoodFrame
  <2>1. /\ Push!TypeOK' /\ Queued' # <<>> /\ Queued'[Len(Queued')] = dstate'
    BY <1>5, PushDecodes
  <2> QED
    BY <1>5, <2>1 DEF PushInv, Push!GoodFrame
<1>6. CASE Push!ParseEnds
  <2>1. Queued' = Queued
    BY <1>6 DEF Push!ParseEnds, Queued
  <2> QED
    BY <1>6, <2>1 DEF PushInv, Push!TypeOK, Push!ParseEnds, Push!Drained, Push!Stops,
                      Push!Resyncs, Push!Frames, Push!Whole, Push!Visible
<1>7. CASE Push!Deliver
  <2>1. Push!TypeOK' /\ Queued' = Queued
    BY <1>7, PushDelivers
  <2>2. pc' = "pull" /\ UNCHANGED <<bytes, sent, dpos, dstate, pushEof>> /\ pc = "pull"
    BY <1>7 DEF Push!Deliver, Push!AfterFrame
  <2> QED
    BY <2>1, <2>2 DEF PushInv, Push!Stops, Push!Resyncs, Push!Frames, Push!Whole
<1>8. CASE Push!Hungry
  <2>1. Queued' = Queued
    BY <1>8 DEF Push!Hungry, Queued
  <2> QED
    BY <1>8, <2>1 DEF PushInv, Push!TypeOK, Push!Hungry, Push!AfterDrain, Push!Stops,
                      Push!Resyncs, Push!Frames, Push!Whole
<1>9. CASE Push!Flush
  <2>1. Queued' = Queued
    BY <1>9 DEF Push!Flush, Queued
  <2> QED
    BY <1>9, <2>1 DEF PushInv, Push!TypeOK, Push!Flush, Push!Stops,
                      Push!Resyncs, Push!Frames, Push!Whole
<1> QED
  BY <1>2, <1>3, <1>4, <1>5, <1>6, <1>7, <1>8, <1>9 DEF Push!Next

\* A step of the push decoder is a step of the serial decoder, or none.
LEMMA PushStepSimulates ==
    ASSUME PushInv, Push!Next
    PROVE  [Push!Serial!Next]_(Push!Serial!vars)
<1>1. CASE \E n \in 1..StreamLen : Push!Push(n)
  BY <1>1 DEF Push!Push, Push!Serial!vars
<1>2. CASE Push!Resync
  <2>1. Push!Serial!Resync
    BY <1>2, PushedResyncFits DEF Push!Resync, Push!Serial!Resync
  <2> QED
    BY <2>1 DEF Push!Serial!Next
<1>3. CASE Push!BadFrame
  <2>1. Push!Serial!BadFrame
    BY <1>3, PushedFrameFits DEF Push!BadFrame, Push!Serial!BadFrame
  <2> QED
    BY <2>1 DEF Push!Serial!Next
<1>4. CASE Push!GoodFrame
  <2>1. Queued' = Append(Queued, dstate')
    BY <1>4, PushDecodes
  <2>2. dstate' = Append(IF Queued = <<>> THEN <<>> ELSE Queued[Len(Queued)],
                         Append(dreservoir, dpos))
    BY <1>4 DEF PushInv, Push!GoodFrame, Push!Work
  <2>3. Push!Serial!GoodFrame
    BY <1>4, <2>1, <2>2, PushedFrameFits
       DEF Push!GoodFrame, Push!Serial!GoodFrame, Push!Serial!Decoded, Push!Serial!Work, Queued
  <2> QED
    BY <2>3 DEF Push!Serial!Next
<1>5. CASE Push!ParseEnds
  BY <1>5 DEF Push!ParseEnds, Push!Drained, Push!Serial!vars
<1>6. CASE Push!Deliver
  <2>1. Queued' = Queued /\ pc' = "pull" /\ pc = "pull"
    BY <1>6, PushDelivers DEF Push!Deliver, Push!AfterFrame
  <2> QED
    BY <1>6, <2>1 DEF Push!Deliver, Push!Serial!vars, Queued
<1>7. CASE Push!Hungry
  <2>1. CASE pushEof
    <3>1. Push!Serial!Stops(bytes, dpos, StreamLen)
      BY <1>7, <2>1 DEF PushInv, Push!Hungry, Push!Stops, Push!Resyncs, Push!Frames, Push!Whole,
            Push!Visible, Push!Junk, Push!Serial!Stops, Push!Serial!Resyncs,
            Push!Serial!Frames, Push!Serial!Whole, Push!Serial!Visible, Push!Serial!Junk
    <3>2. Push!Serial!Finish
      BY <1>7, <2>1, <3>1 DEF Push!Hungry, Push!AfterDrain, Push!Serial!Finish
    <3> QED
      BY <3>2 DEF Push!Serial!Next
  <2>2. CASE ~pushEof
    BY <1>7, <2>2 DEF PushInv, Push!Hungry, Push!AfterDrain, Push!Serial!vars
  <2> QED
    BY <2>1, <2>2
<1>8. CASE Push!Flush
  BY <1>8 DEF Push!Flush, Push!Serial!vars
<1> QED
  BY <1>1, <1>2, <1>3, <1>4, <1>5, <1>6, <1>7, <1>8 DEF Push!Next

-----------------------------------------------------------------------------
(* Both, one after the other *)

\* A step of the gate is a step of the one decoder or of the other.
LEMMA GateSteps ==
    ASSUME [GateNext]_GateVars
    PROVE  \/ Push!Next /\ UNCHANGED <<entropyVars, channel, transformVars>>
           \/ UNCHANGED Push!vars /\ [PipelineNext]_pipelineVars
<1>1. CASE Serially
  BY <1>1 DEF Serially
<1>2. CASE Pipelined
  BY <1>2, PipelinedLeavesPush DEF Pipelined
<1>3. CASE UNCHANGED GateVars
  BY <1>3 DEF GateVars, pipelineVars, pushVars, Push!vars
<1> QED
  BY <1>1, <1>2, <1>3 DEF GateNext

\* The push decoder never touches the stream, nor what is the pipeline's.
LEMMA PushLeavesPipeline ==
    ASSUME Push!Next, UNCHANGED <<entropyVars, channel, transformVars>>
    PROVE  UNCHANGED pipelineVars
  BY DEF Push!Next, Push!Push, Push!Resync, Push!BadFrame, Push!GoodFrame, Push!ParseEnds,
         Push!Deliver, Push!Hungry, Push!Flush, pipelineVars

\* Both invariants hold of the gate.
LEMMA GateInvariance == GateSpec => [](IInv /\ PushInv)
<1>1. GateInit => IInv /\ PushInv
  BY InitOK, PushInitOK DEF GateInit
<1>2. IInv /\ PushInv /\ [GateNext]_GateVars => (IInv /\ PushInv)'
  <2> SUFFICES ASSUME IInv, PushInv, [GateNext]_GateVars PROVE IInv' /\ PushInv'
    OBVIOUS
  <2>1. CASE Push!Next /\ UNCHANGED <<entropyVars, channel, transformVars>>
    <3>1. PushInv'
      BY <2>1, PushStep
    <3>2. UNCHANGED pipelineVars
      BY <2>1, PushLeavesPipeline
    <3> QED
      BY <3>1, <3>2, Inductive
  <2>2. CASE UNCHANGED Push!vars /\ [PipelineNext]_pipelineVars
    <3>1. IInv'
      BY <2>2, Inductive
    <3>2. PushInv'
      BY <2>2 DEF PushInv, Push!vars, Push!TypeOK, Push!Stops, Push!Resyncs, Push!Frames,
                  Push!Whole, Queued
    <3> QED
      BY <3>1, <3>2
  <2> QED
    BY <2>1, <2>2, GateSteps
<1> QED
  BY <1>1, <1>2, PTL DEF GateSpec

\* While the demuxer is asked for more, no complete frame is left in the decoder's
\* buffer or queue (Mp3Decoder::push), for every stream and every cut.
THEOREM NothingCompleteWaits == GateSpec => []PushNothingWaits
<1>1. PushInv => PushNothingWaits
  BY DEF PushInv, PushNothingWaits, Push!NothingWaits
<1> QED
  BY <1>1, GateInvariance, PTL

\* "packets may split/join frames" (Mp3Decoder): wherever they are cut, the push
\* decoder takes the steps of the serial scan of the whole stream.
THEOREM PushIsSerial == GateSpec => PushSerialSpec
<1>1. GateInit => Push!Serial!Init
  <2> SUFFICES ASSUME GateInit PROVE Push!Serial!Init
    OBVIOUS
  <2>1. <<>> \o <<>> = <<>>
    OBVIOUS
  <2> QED
    BY <2>1 DEF GateInit, Push!Init, Push!Streams, Push!Junk, Push!Serial!Init,
                Push!Serial!Streams, Push!Serial!Junk
<1>2. PushInv /\ [GateNext]_GateVars => [Push!Serial!Next]_(Push!Serial!vars)
  <2> SUFFICES ASSUME PushInv, [GateNext]_GateVars
               PROVE  [Push!Serial!Next]_(Push!Serial!vars)
    OBVIOUS
  <2>1. CASE Push!Next
    BY <2>1, PushStepSimulates
  <2>2. CASE UNCHANGED Push!vars
    BY <2>2 DEF Push!vars, Push!Serial!vars
  <2> QED
    BY <2>1, <2>2, GateSteps
<1> QED
  BY <1>1, <1>2, GateInvariance, PTL DEF GateSpec, PushSerialSpec, Push!SerialSpec, Push!Serial!Spec

\* In the gate as on its own, the pipeline's output is that of the serial path.
THEOREM GateIsSerial == GateSpec => SerialSpec
<1>1. GateInit => PipelineInit
  BY DEF GateInit
<1>2. [GateNext]_GateVars => [PipelineNext]_pipelineVars
  BY GateSteps, PushLeavesPipeline
<1>3. GateSpec => PipelineInit /\ [][PipelineNext]_pipelineVars
  BY <1>1, <1>2, PTL DEF GateSpec
<1>4. PipelineInit => Serial!Init
  BY SerialInit
<1>5. IInv /\ [PipelineNext]_pipelineVars => [Serial!Next]_(Serial!vars)
  BY StepSimulates
<1> QED
  BY <1>3, <1>4, <1>5, GateInvariance, PTL DEF SerialSpec, Serial!Spec

=============================================================================
