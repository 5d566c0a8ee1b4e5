----------------------------- MODULE SequenceFacts -----------------------------
(***************************************************************************)
(* Facts that the proofs need and the libraries do not state: induction    *)
(* and recursion up to a number, what FlattenSeq returns, how sequences    *)
(* are concatenated, and what InOrder and AtPlaces (Ordering) return.      *)
(***************************************************************************)
EXTENDS Ordering, SequencesExt, SequenceTheorems,
        FiniteSetTheorems, WellFoundedInduction, TLAPS

-----------------------------------------------------------------------------
(* Induction, as the existence of a least counterexample *)

\* A non-empty set of natural numbers has a least element.
LEMMA LeastElement ==
    ASSUME NEW T, T \subseteq Nat, T # {}
    PROVE  \E n \in T : \A m \in T : n <= m
<1>1. PICK n \in T : \A m \in T : ~ (<<m, n>> \in OpToRel(<, Nat))
  BY NatLessThanWellFounded, WFMin
<1>2. \A m \in T : ~ (m < n)
  BY <1>1 DEF OpToRel
<1> QED
  BY <1>2

\* A non-empty set of natural numbers up to N has a greatest element.
LEMMA GreatestElement ==
    ASSUME NEW N \in Nat, NEW T, T \subseteq 1..N, T # {}
    PROVE  Max(T) \in T /\ \A m \in T : m <= Max(T)
<1> DEFINE U == {N - n : n \in T}
<1>1. U \subseteq Nat /\ U # {}
  <2>1. \A n \in T : N - n \in Nat
    OBVIOUS
  <2> QED
    BY <2>1
<1> HIDE DEF U
<1>2. PICK u \in U : \A m \in U : u <= m
  BY <1>1, LeastElement
<1>3. PICK n \in T : u = N - n
  BY <1>2 DEF U
<1>4. \A m \in T : N - m \in U
  BY DEF U
<1>5. \A m \in T : n >= m
  BY <1>2, <1>3, <1>4
<1>6. Max(T) \in T /\ \A m \in T : Max(T) >= m
  BY <1>5 DEF Max
<1> QED
  BY <1>6

\* A set of natural numbers up to N that has 0, and with each number below N
\* the next one, has them all.
LEMMA InductionUpTo ==
    ASSUME NEW N \in Nat, NEW T, 0 \in T, \A n \in 1..N : n - 1 \in T => n \in T
    PROVE  0..N \subseteq T
<1> DEFINE F == (0..N) \ T
<1>1. SUFFICES ASSUME F # {} PROVE FALSE
  OBVIOUS
<1>2. F \subseteq Nat
  OBVIOUS
<1>3. PICK n \in F : \A m \in F : n <= m
  <2> HIDE DEF F
  <2> QED
    BY <1>1, <1>2, LeastElement
<1>4. n \in 1..N /\ n - 1 \notin F
  BY <1>3
<1> QED
  BY <1>4

\* What is computed from a, step by step.
Computes(f, a, H, n) ==
    /\ f[0] = a
    /\ \A i \in 1..n : f[i] = H[i][f[i - 1]]

\* A function may be defined by recursion.
LEMMA RecursionExists ==
    ASSUME NEW V, NEW a \in V, NEW N \in Nat, NEW H \in [1..N -> [V -> V]]
    PROVE  \E f \in [0..N -> V] : Computes(f, a, H, N)
<1> DEFINE Upto(n) == \E f \in [0..n -> V] : Computes(f, a, H, n)
           T == {n \in 0..N : Upto(n)}
<1>1. Upto(0)
  <2> DEFINE f == [i \in 0..0 |-> a]
  <2>1. f \in [0..0 -> V] /\ f[0] = a
    OBVIOUS
  <2> HIDE DEF f
  <2>2. Computes(f, a, H, 0)
    BY <2>1 DEF Computes
  <2> QED
    BY <2>1, <2>2
<1>2. ASSUME NEW n \in 1..N, Upto(n - 1)
      PROVE  Upto(n)
  <2>1. PICK f \in [0..(n - 1) -> V] : Computes(f, a, H, n - 1)
    BY <1>2
  <2>2. H[n][f[n - 1]] \in V
    OBVIOUS
  <2>3. PICK e \in V : e = H[n][f[n - 1]]
    BY <2>2
  <2> DEFINE g == [i \in 0..n |-> IF i = n THEN e ELSE f[i]]
  <2>4. g \in [0..n -> V] /\ g[n] = e /\ \A i \in 0..(n - 1) : g[i] = f[i]
    OBVIOUS
  <2> HIDE DEF g
  <2>5. ASSUME NEW i \in 1..n PROVE g[i] = H[i][g[i - 1]]
    <3>1. g[i - 1] = f[i - 1]
      BY <2>4
    <3>2. CASE i = n
      BY <3>1, <3>2, <2>3, <2>4
    <3>3. CASE i < n
      <4>1. i \in 1..(n - 1) /\ g[i] = f[i]
        BY <3>3, <2>4
      <4> QED
        BY <3>1, <4>1, <2>1 DEF Computes
    <3> QED
      BY <3>2, <3>3
  <2>6. g[0] = a
    BY <2>1, <2>4 DEF Computes
  <2> QED
    BY <2>4, <2>5, <2>6 DEF Computes
<1> HIDE DEF Upto
<1>3. 0 \in T /\ \A n \in 1..N : n - 1 \in T => n \in T
  BY <1>1, <1>2
<1>4. 0..N \subseteq T
  <2> HIDE DEF T
  <2> QED
    BY <1>3, InductionUpTo
<1>5. Upto(N)
  BY <1>4
<1> QED
  BY <1>5 DEF Upto

\* It is determined by its recursion.
LEMMA RecursionUnique ==
    ASSUME NEW a, NEW N \in Nat, NEW H, NEW f, NEW g,
           Computes(f, a, H, N), Computes(g, a, H, N)
    PROVE  \A i \in 0..N : f[i] = g[i]
<1> DEFINE T == {n \in 0..N : f[n] = g[n]}
<1>1. 0 \in T /\ \A n \in 1..N : n - 1 \in T => n \in T
  BY DEF Computes
<1>2. 0..N \subseteq T
  <2> HIDE DEF T
  <2> QED
    BY <1>1, InductionUpTo
<1> QED
  BY <1>2

-----------------------------------------------------------------------------
(* FlattenSeq *)

\* A set of values that may be concatenated, such as Seq(S); the lemmas up to
\* FlattenType say of V all that they use of sequences.
Concatenable(V) ==
    /\ <<>> \in V
    /\ \A u, v \in V : u \o v \in V
    /\ \A v \in V : <<>> \o v = v

\* Sequences may be concatenated.
LEMMA SeqConcatenable == \A S : Concatenable(Seq(S))
  BY DEF Concatenable

\* The i-th sequence is appended to what is concatenated.
Concats(V, ss) == [i \in 1..Len(ss) |-> [v \in V |-> v \o ss[i]]]

\* What the sequences in ss make can be computed one by one.
LEMMA FlatteningExists ==
    ASSUME NEW V, Concatenable(V), NEW ss \in Seq(V)
    PROVE  \E f \in [0..Len(ss) -> V] : Computes(f, <<>>, Concats(V, ss), Len(ss))
<1>1. Concats(V, ss) \in [1..Len(ss) -> [V -> V]]
  BY DEF Concats, Concatenable
<1>2. <<>> \in V /\ Len(ss) \in Nat
  BY DEF Concatenable
<1> QED
  BY <1>1, <1>2, RecursionExists

\* One step of it appends one sequence.
LEMMA FlatteningSteps ==
    ASSUME NEW V, NEW ss \in Seq(V), NEW n \in 0..Len(ss), NEW f \in [0..n -> V]
    PROVE  Computes(f, <<>>, Concats(V, ss), n) <=>
               f[0] = <<>> /\ \A i \in 1..n : f[i] = f[i - 1] \o ss[i]
<1>1. ASSUME NEW i \in 1..n
      PROVE  Concats(V, ss)[i][f[i - 1]] = f[i - 1] \o ss[i]
  <2>1. f[i - 1] \in V /\ i \in 1..Len(ss)
    OBVIOUS
  <2> QED
    BY <2>1 DEF Concats
<1> QED
  BY <1>1 DEF Computes

\* Whatever is computed so, FlattenSeq returns where it ends.
LEMMA FlatteningEnds ==
    ASSUME NEW V, Concatenable(V), NEW ss \in Seq(V),
           NEW f \in [0..Len(ss) -> V],
           f[0] = <<>>, \A i \in 1..Len(ss) : f[i] = f[i - 1] \o ss[i]
    PROVE  FlattenSeq(ss) = f[Len(ss)]
<1>1. CASE Len(ss) = 0
  BY <1>1 DEF FlattenSeq
<1>2. CASE Len(ss) # 0
  <2>0. PICK N \in Nat : N = Len(ss) /\ N > 0
    BY <1>2
  <2> DEFINE Body(g) == [i \in 1..N |-> IF i = 1 THEN ss[i] ELSE g[i - 1] \o ss[i]]
             flatten == CHOOSE g : g = Body(g)
             h == [i \in 1..N |-> f[i]]
  <2>1. f[1] = ss[1]
    <3>1. f[1] = f[0] \o ss[1] /\ ss[1] \in V
      BY <2>0
    <3> QED
      BY <3>1 DEF Concatenable
  <2>2. h = Body(h)
    <3>1. ASSUME NEW i \in 1..N
          PROVE  h[i] = IF i = 1 THEN ss[i] ELSE h[i - 1] \o ss[i]
      <4>1. CASE i = 1
        BY <2>1, <4>1
      <4>2. CASE i # 1
        <5>1. h[i] = f[i] /\ h[i - 1] = f[i - 1]
          BY <4>2
        <5>2. f[i] = f[i - 1] \o ss[i]
          BY <2>0
        <5> QED
          BY <4>2, <5>1, <5>2
      <4> QED
        BY <4>1, <4>2
    <3> QED
      BY <3>1
  <2>3. flatten = Body(flatten)
    BY <2>2
  <2> HIDE DEF flatten
  <2>4. \A i \in 1..N : flatten[i] = IF i = 1 THEN ss[i] ELSE flatten[i - 1] \o ss[i]
    BY <2>3
  <2> DEFINE T == {n \in 0..N : n = 0 \/ flatten[n] = f[n]}
  <2>5. 0 \in T
    OBVIOUS
  <2>6. ASSUME NEW n \in 1..N, n - 1 \in T PROVE n \in T
    <3>1. CASE n = 1
      BY <3>1, <2>1, <2>4
    <3>2. CASE n # 1
      <4>1. flatten[n] = flatten[n - 1] \o ss[n] /\ flatten[n - 1] = f[n - 1]
        BY <2>4, <2>6, <3>2
      <4>2. f[n] = f[n - 1] \o ss[n]
        BY <2>0
      <4>3. flatten[n] = f[n]
        BY <4>1, <4>2
      <4> QED
        BY <4>3
    <3> QED
      BY <3>1, <3>2
  <2>7. 0..N \subseteq T
    <3> HIDE DEF T
    <3> QED
      BY <2>5, <2>6, InductionUpTo
  <2>8. flatten[N] = f[N]
    BY <2>0, <2>7
  <2>9. FlattenSeq(ss) = flatten[N]
    BY <2>0 DEF FlattenSeq, flatten
  <2> QED
    BY <2>0, <2>8, <2>9
<1> QED
  BY <1>1, <1>2

\* No sequences make an empty one.
LEMMA FlattenEmpty == FlattenSeq(<<>>) = <<>>
  BY DEF FlattenSeq

\* One more sequence comes last.
LEMMA FlattenConcatenable ==
    ASSUME NEW V, Concatenable(V), NEW ss \in Seq(V), NEW s \in V
    PROVE  /\ FlattenSeq(ss) \in V
           /\ FlattenSeq(Append(ss, s)) = FlattenSeq(ss) \o s
<1> DEFINE tt == Append(ss, s)
           n == Len(ss)
<1>1. PICK f \in [0..n -> V] : Computes(f, <<>>, Concats(V, ss), n)
  BY FlatteningExists
<1>2. tt \in Seq(V) /\ Len(tt) = n + 1 /\ tt[n + 1] = s /\ \A i \in 1..n : tt[i] = ss[i]
  OBVIOUS
<1> HIDE DEF tt
<1>3. PICK g \in [0..(n + 1) -> V] : Computes(g, <<>>, Concats(V, tt), n + 1)
  BY <1>2, FlatteningExists
<1>4. f[0] = <<>> /\ \A i \in 1..n : f[i] = f[i - 1] \o ss[i]
  BY <1>1, FlatteningSteps
<1>5. g[0] = <<>> /\ \A i \in 1..(n + 1) : g[i] = g[i - 1] \o tt[i]
  BY <1>2, <1>3, FlatteningSteps
<1>6. FlattenSeq(ss) = f[n]
  BY <1>4, FlatteningEnds
<1>7. FlattenSeq(tt) = g[n + 1]
  <2>1. g \in [0..Len(tt) -> V] /\ \A i \in 1..Len(tt) : g[i] = g[i - 1] \o tt[i]
    BY <1>2, <1>5
  <2>2. FlattenSeq(tt) = g[Len(tt)]
    BY <1>2, <1>5, <2>1, FlatteningEnds
  <2> QED
    BY <1>2, <2>2
<1> DEFINE T == {i \in 0..n : f[i] = g[i]}
<1>8. ASSUME NEW i \in 1..n, f[i - 1] = g[i - 1]
      PROVE  f[i] = g[i]
  <2>1. f[i] = f[i - 1] \o ss[i]
    BY <1>4
  <2>2. i \in 1..(n + 1)
    OBVIOUS
  <2>3. g[i] = g[i - 1] \o tt[i]
    BY <2>2, <1>5
  <2>4. tt[i] = ss[i]
    BY <1>2
  <2> QED
    BY <1>8, <2>1, <2>3, <2>4
<1>9. 0..n \subseteq T
  <2>1. 0 \in T
    BY <1>4, <1>5
  <2>2. ASSUME NEW i \in 1..n, i - 1 \in T PROVE i \in T
    BY <1>8, <2>2
  <2>3. n \in Nat
    OBVIOUS
  <2> HIDE DEF T
  <2> QED
    BY <2>1, <2>2, <2>3, InductionUpTo
<1>10. f[n] = g[n]
  <2>1. n \in 0..n
    OBVIOUS
  <2> QED
    BY <1>9, <2>1
<1>11. g[n + 1] = g[n] \o s
  <2>1. n + 1 \in 1..(n + 1) /\ (n + 1) - 1 = n
    OBVIOUS
  <2> QED
    BY <1>2, <1>5, <2>1
<1> QED
  BY <1>1, <1>6, <1>7, <1>10, <1>11 DEF tt

\* Sequences over S make a sequence over S.
LEMMA FlattenType ==
    ASSUME NEW S, NEW ss \in Seq(Seq(S))
    PROVE  FlattenSeq(ss) \in Seq(S)
<1>1. <<>> \in Seq(S)
  OBVIOUS
<1> QED
  BY <1>1, SeqConcatenable, FlattenConcatenable

\* One more sequence over S comes last.
LEMMA FlattenAppend ==
    ASSUME NEW S, NEW ss \in Seq(Seq(S)), NEW s \in Seq(S)
    PROVE  FlattenSeq(Append(ss, s)) = FlattenSeq(ss) \o s
  BY SeqConcatenable, FlattenConcatenable

\* A sequence is a sequence over any set that has its elements.
LEMMA SeqOverElements ==
    ASSUME NEW S, NEW s \in Seq(S), NEW E, \A i \in 1..Len(s) : s[i] \in E
    PROVE  s \in Seq(E)
  BY SeqDef

\* Every element of the flattened sequence is an element of one of them.
LEMMA FlattenElements ==
    ASSUME NEW S, NEW ss \in Seq(Seq(S)), NEW k \in 1..Len(FlattenSeq(ss))
    PROVE  \E i \in 1..Len(ss) : \E j \in 1..Len(ss[i]) : FlattenSeq(ss)[k] = ss[i][j]
<1> DEFINE E == {x \in S : \E i \in 1..Len(ss) : \E j \in 1..Len(ss[i]) : x = ss[i][j]}
<1>1. \A i \in 1..Len(ss) : ss[i] \in Seq(E)
  <2> TAKE i \in 1..Len(ss)
  <2>1. \A j \in 1..Len(ss[i]) : ss[i][j] \in E
    OBVIOUS
  <2> HIDE DEF E
  <2> QED
    BY <2>1, SeqOverElements
<1>2. FlattenSeq(ss) \in Seq(E)
  <2> HIDE DEF E
  <2> QED
    BY <1>1, SeqOverElements, FlattenType
<1>3. FlattenSeq(ss)[k] \in E
  <2> HIDE DEF E
  <2> QED
    BY <1>2
<1> QED
  BY <1>3

\* What two sequences make when one follows the other.
LEMMA ConcatParts ==
    ASSUME NEW S, NEW s \in Seq(S), NEW t \in Seq(S)
    PROVE  /\ s \o t \in Seq(S) /\ Len(s \o t) = Len(s) + Len(t)
           /\ \A i \in 1..Len(s) : (s \o t)[i] = s[i]
           /\ \A i \in (Len(s) + 1)..(Len(s) + Len(t)) : (s \o t)[i] = t[i - Len(s)]
  BY ConcatProperties

\* w is s, of m elements, and then t, of n.
IsJoined(w, s, t, m, n) ==
    /\ m \in Nat /\ DOMAIN s = 1..m /\ n \in Nat /\ DOMAIN t = 1..n
    /\ Len(w) = m + n /\ DOMAIN w = 1..(m + n)
    /\ \A i \in 1..m : i \in 1..(m + n) /\ w[i] = s[i]
    /\ \A i \in 1..n : m + i \in 1..(m + n) /\ w[m + i] = t[i]
    /\ \A i \in (m + 1)..(m + n) : i - m \in 1..n /\ w[i] = t[i - m]

LEMMA ConcatJoins ==
    ASSUME NEW S, NEW s \in Seq(S), NEW t \in Seq(S)
    PROVE  s \o t \in Seq(S) /\ IsJoined(s \o t, s, t, Len(s), Len(t))
<1>1. PICK m \in Nat, n \in Nat : m = Len(s) /\ n = Len(t) /\ DOMAIN s = 1..m /\ DOMAIN t = 1..n
  OBVIOUS
<1>2. PICK w : /\ w = s \o t /\ w \in Seq(S) /\ Len(w) = m + n /\ \A i \in 1..m : w[i] = s[i]
               /\ \A i \in (m + 1)..(m + n) : w[i] = t[i - m]
  <2>1. /\ s \o t \in Seq(S) /\ Len(s \o t) = Len(s) + Len(t)
        /\ \A i \in 1..Len(s) : (s \o t)[i] = s[i]
        /\ \A i \in (Len(s) + 1)..(Len(s) + Len(t)) : (s \o t)[i] = t[i - Len(s)]
    BY ConcatParts
  <2> QED BY <1>1, <2>1, Zenon
<1>3. DOMAIN w = 1..(m + n)
  BY <1>2, LenProperties
<1>4. \A i \in 1..n : /\ m + i \in (m + 1)..(m + n) /\ m + i \in 1..(m + n) /\ (m + i) - m = i
  OBVIOUS
<1>5. \A i \in (m + 1)..(m + n) : i - m \in 1..n
  OBVIOUS
<1>6. \A i \in 1..m : i \in 1..(m + n)
  OBVIOUS
<1> QED BY <1>1, <1>2, <1>3, <1>4, <1>5, <1>6 DEF IsJoined

\* A sequence with an element before it.
LEMMA ConsParts ==
    ASSUME NEW S, NEW e \in S, NEW t \in Seq(S)
    PROVE  /\ <<e>> \o t \in Seq(S) /\ Len(<<e>> \o t) = Len(t) + 1
           /\ (<<e>> \o t)[1] = e
           /\ \A i \in 1..Len(t) : (<<e>> \o t)[i + 1] = t[i]
<1> DEFINE s == <<e>>
<1>1. s \in Seq(S)
  OBVIOUS
<1>2. Len(s) = 1 /\ s[1] = e
  OBVIOUS
<1> HIDE DEF s
<1>3. s \o t \in Seq(S) /\ Len(s \o t) = Len(s) + Len(t)
      /\ \A i \in 1..(Len(s) + Len(t)) :
            (s \o t)[i] = IF i <= Len(s) THEN s[i] ELSE t[i - Len(s)]
  BY <1>1, ConcatProperties
<1>4. Len(t) \in Nat
  OBVIOUS
<1>5. (s \o t)[1] = e
  BY <1>2, <1>3, <1>4
<1>6. ASSUME NEW i \in 1..Len(t) PROVE (s \o t)[i + 1] = t[i]
  <2>1. i + 1 \in 1..(Len(s) + Len(t)) /\ ~ (i + 1 <= Len(s)) /\ (i + 1) - Len(s) = i
    BY <1>2, <1>4
  <2>2. (s \o t)[i + 1] = t[(i + 1) - Len(s)]
    BY <1>3, <2>1
  <2> QED
    BY <2>1, <2>2
<1> QED
  BY <1>2, <1>3, <1>4, <1>5, <1>6 DEF s

\* What is appended to one sequence may as well begin the next.
LEMMA AppendConcat ==
    ASSUME NEW S, NEW s \in Seq(S), NEW e \in S, NEW t \in Seq(S)
    PROVE  Append(s, e) \o t = s \o (<<e>> \o t)
<1>1. Append(s, e) = s \o <<e>> /\ <<e>> \in Seq(S)
  BY AppendIsConcat
<1> QED
  BY <1>1, ConcatAssociative

\* The first element and what follows it.
LEMMA HeadAndTail ==
    ASSUME NEW S, NEW s \in Seq(S), s # <<>>
    PROVE  /\ Head(s) \in S /\ Head(s) = s[1] /\ Len(s) > 0 /\ Len(s) \in Nat
           /\ Tail(s) \in Seq(S) /\ Len(Tail(s)) = Len(s) - 1
OBVIOUS

\* The head of the second sequence may as well end the first.
LEMMA HeadMoves ==
    ASSUME NEW S, NEW s \in Seq(S), NEW t \in Seq(S), t # <<>>
    PROVE  Append(s, Head(t)) \o Tail(t) = s \o t
<1> DEFINE u == Tail(t)
<1>1. /\ Head(t) \in S /\ Head(t) = t[1] /\ u \in Seq(S) /\ Len(t) \in Nat \ {0}
      /\ Len(u) = Len(t) - 1 /\ \A i \in 1..Len(u) : u[i] = t[i + 1]
  BY HeadTailProperties
<1> HIDE DEF u
<1>2. /\ <<Head(t)>> \o u \in Seq(S) /\ Len(<<Head(t)>> \o u) = Len(u) + 1
      /\ (<<Head(t)>> \o u)[1] = Head(t)
      /\ \A i \in 1..Len(u) : (<<Head(t)>> \o u)[i + 1] = u[i]
  BY <1>1, ConsParts
<1>3. ASSUME NEW i \in 1..Len(t) PROVE (<<Head(t)>> \o u)[i] = t[i]
  <2>1. CASE i = 1
    BY <1>1, <1>2, <2>1
  <2>2. CASE i # 1
    <3>1. i - 1 \in 1..Len(u) /\ (i - 1) + 1 = i
      BY <1>1, <2>2
    <3> QED
      BY <1>1, <1>2, <3>1
  <2> QED
    BY <2>1, <2>2
<1>4. Len(<<Head(t)>> \o u) = Len(t)
  BY <1>1, <1>2
<1>5. <<Head(t)>> \o u = t
  BY <1>2, <1>3, <1>4, SeqEqual
<1>6. Append(s, Head(t)) \o u = s \o (<<Head(t)>> \o u)
  BY <1>1, AppendConcat
<1> QED
  BY <1>5, <1>6 DEF u

\* What is appended to the second of two sequences comes last.
LEMMA ConcatAppend ==
    ASSUME NEW S, NEW s \in Seq(S), NEW t \in Seq(S), NEW e \in S
    PROVE  s \o Append(t, e) = Append(s \o t, e)
  OBVIOUS

\* Concatenation is associative.
LEMMA ConcatThrice ==
    \A S : \A s, t, u \in Seq(S) : (s \o t) \o u = s \o (t \o u)
  BY ConcatAssociative, SMT

\* A function on 1..n is a sequence.
LEMMA FunctionIsSeq ==
    ASSUME NEW S, NEW n \in Nat, NEW f \in [1..n -> S]
    PROVE  f \in Seq(S) /\ Len(f) = n /\ DOMAIN f = 1..n
  BY SeqDef

\* A sequence of one sequence.
LEMMA FlattenOne ==
    ASSUME NEW S, NEW s \in Seq(S)
    PROVE  FlattenSeq(<<s>>) = s
<1>1. <<>> \in Seq(Seq(S)) /\ Append(<<>>, s) = <<s>>
  OBVIOUS
<1>3. FlattenSeq(Append(<<>>, s)) = FlattenSeq(<<>>) \o s
  BY <1>1, FlattenAppend
<1>2. <<>> \o s = s
  BY ConcatEmptySeq
<1> QED BY <1>1, <1>2, <1>3, FlattenEmpty

\* One more sequence after two lists of sequences.
LEMMA FlattenConcatStep ==
    ASSUME NEW S, NEW ss \in Seq(Seq(S)), NEW tt \in Seq(Seq(S)), NEW c \in Seq(S),
           FlattenSeq(ss \o tt) = FlattenSeq(ss) \o FlattenSeq(tt)
    PROVE  FlattenSeq(ss \o Append(tt, c)) = FlattenSeq(ss) \o FlattenSeq(Append(tt, c))
<1>1. PICK a \in Seq(S) : a = FlattenSeq(ss)
  BY FlattenType
<1>2. PICK b \in Seq(S) : b = FlattenSeq(tt)
  BY FlattenType
<1>3. (a \o b) \o c = a \o (b \o c)
  BY ConcatThrice
<1>4. ss \o Append(tt, c) = Append(ss \o tt, c) /\ ss \o tt \in Seq(Seq(S))
  BY ConcatAppend, ConcatProperties
<1>5. FlattenSeq(Append(ss \o tt, c)) = FlattenSeq(ss \o tt) \o c
  BY <1>4, FlattenAppend
<1>6. FlattenSeq(Append(tt, c)) = FlattenSeq(tt) \o c
  BY FlattenAppend
<1> QED BY <1>1, <1>2, <1>3, <1>4, <1>5, <1>6

\* Sequences one after the other make what the first make, and then the others.
LEMMA FlattenConcat ==
    ASSUME NEW S, NEW ss \in Seq(Seq(S)), NEW tt \in Seq(Seq(S))
    PROVE  FlattenSeq(ss \o tt) = FlattenSeq(ss) \o FlattenSeq(tt)
<1> DEFINE N == Len(tt)
           Upto(n) == SubSeq(tt, 1, n)
           Adds(n) == FlattenSeq(ss \o Upto(n)) = FlattenSeq(ss) \o FlattenSeq(Upto(n))
           T == {n \in 0..N : Adds(n)}
<1>0. N \in Nat /\ FlattenSeq(ss) \in Seq(S)
  BY FlattenType
<1>1. \A n \in 0..N : Upto(n) \in Seq(Seq(S))
  BY SubSeqProperties
<1>2. 0 \in T
  <2>1. Upto(0) = <<>>
    BY SubSeqEmpty
  <2>2. ss \o <<>> = ss /\ FlattenSeq(ss) \o <<>> = FlattenSeq(ss)
    BY <1>0, ConcatEmptySeq
  <2>3. Adds(0)
    <3> HIDE DEF Upto, N
    <3> QED BY <2>1, <2>2, FlattenEmpty
  <2> HIDE DEF Adds
  <2> QED BY <1>0, <2>3
<1>3. ASSUME NEW n \in 1..N, n - 1 \in T PROVE n \in T
  <2>1. /\ n - 1 \in 0..N /\ n \in 0..N /\ tt[n] \in Seq(S)
        /\ Upto(n - 1) \in Seq(Seq(S)) /\ Adds(n - 1)
    BY <1>0, <1>1, <1>3
  <2>2. Upto(n) = Append(Upto(n - 1), tt[n])
    <3>1. Upto(n) = Upto(n - 1) \o <<tt[n]>>
      BY <1>0, SubSeqRecursiveSecond
    <3> HIDE DEF Upto, N
    <3> QED BY <2>1, <3>1, AppendIsConcat
  <2> HIDE DEF Upto, N
  <2>9. Adds(n)
    BY <2>1, <2>2, FlattenConcatStep
  <2> HIDE DEF Adds
  <2> QED BY <2>1, <2>9
<1>4. N \in T
  <2> HIDE DEF T, N
  <2>1. N \in Nat /\ 0 \in T /\ \A n \in 1..N : n - 1 \in T => n \in T
    BY <1>0, <1>2, <1>3
  <2>2. 0..N \subseteq T
    BY <2>1, InductionUpTo
  <2> QED BY <2>1, <2>2
<1>5. Upto(N) = tt
  BY SubSeqFull
<1> QED BY <1>4, <1>5

\* The sequences up to k, and those after it.
LEMMA FlattenSplit ==
    ASSUME NEW S, NEW ss \in Seq(Seq(S)), NEW k \in 0..Len(ss)
    PROVE  /\ FlattenSeq(ss) = FlattenSeq(SubSeq(ss, 1, k)) \o FlattenSeq(SubSeq(ss, k + 1, Len(ss)))
           /\ SubSeq(ss, 1, k) \in Seq(Seq(S)) /\ SubSeq(ss, k + 1, Len(ss)) \in Seq(Seq(S))
<1> DEFINE a == SubSeq(ss, 1, k)
           b == SubSeq(ss, k + 1, Len(ss))
<1>1. Len(ss) \in Nat
  OBVIOUS
<1>2. a \in Seq(Seq(S)) /\ b \in Seq(Seq(S))
  <2>1. /\ \A i \in 1..k : ss[i] \in Seq(S)
        /\ \A i \in (k + 1)..Len(ss) : ss[i] \in Seq(S)
    BY <1>1
  <2> QED BY <1>1, <2>1, SubSeqProperties
<1>3. a \o b = ss
  <2>1. SubSeq(ss, 1, k) \o SubSeq(ss, k + 1, Len(ss)) = SubSeq(ss, 1, Len(ss))
    <3>1. 1 \in 1..(Len(ss) + 1) /\ k \in (1 - 1)..Len(ss) /\ Len(ss) \in k..Len(ss)
      BY <1>1
    <3> QED BY <3>1, ConcatAdjacentSubSeq, Zenon
  <2> QED BY <2>1, SubSeqFull
<1> HIDE DEF a, b
<1> QED BY <1>2, <1>3, FlattenConcat DEF a, b

\* The sequences after k - 1 begin with the k-th.
LEMMA FlattenNext ==
    ASSUME NEW S, NEW ss \in Seq(Seq(S)), NEW k \in 1..Len(ss)
    PROVE  FlattenSeq(SubSeq(ss, k, Len(ss)))
               = ss[k] \o FlattenSeq(SubSeq(ss, k + 1, Len(ss)))
<1> DEFINE b == SubSeq(ss, k + 1, Len(ss))
<1>1. Len(ss) \in Nat /\ k \in Nat /\ ss[k] \in Seq(S)
  OBVIOUS
<1>2. b \in Seq(Seq(S)) /\ <<ss[k]>> \in Seq(Seq(S))
  BY <1>1, SubSeqProperties
<1>3. SubSeq(ss, k, Len(ss)) = <<ss[k]>> \o b
  BY <1>1, SubSeqRecursiveFirst
<1>4. FlattenSeq(<<ss[k]>>) = ss[k]
  BY <1>1, FlattenOne
<1> HIDE DEF b
<1> QED BY <1>2, <1>3, <1>4, FlattenConcat DEF b

\* The last sequence grows by an element.
LEMMA FlattenGrows ==
    ASSUME NEW S, NEW ss \in Seq(Seq(S)), ss # <<>>, NEW e \in S
    PROVE  FlattenSeq([ss EXCEPT ![Len(ss)] = Append(@, e)]) = Append(FlattenSeq(ss), e)
<1> DEFINE n == Len(ss)
           front == [i \in 1..(n - 1) |-> ss[i]]
           l == ss[n]
           grown == Append(l, e)
<1>1. n \in Nat \ {0} /\ l \in Seq(S)
  BY EmptySeq, LenProperties, ElementOfSeq
<1>2. grown \in Seq(S) /\ grown = l \o <<e>>
  BY <1>1, AppendProperties, AppendIsConcat
<1>3. front \in Seq(Seq(S)) /\ Len(front) = n - 1 /\ \A i \in 1..(n - 1) : front[i] = ss[i]
  <2>1. n - 1 \in Nat /\ \A i \in 1..(n - 1) : ss[i] \in Seq(S)
    BY <1>1, ElementOfSeq
  <2>2. front \in [1..(n - 1) -> Seq(S)]
    BY <2>1
  <2> QED BY <2>1, <2>2
<1> HIDE DEF l, front, grown
<1>4. ss = Append(front, l)
  <2>1. Len(Append(front, l)) = n /\ Append(front, l) \in Seq(Seq(S))
    BY <1>1, <1>3, AppendProperties
  <2>2. \A i \in 1..n : Append(front, l)[i] = ss[i]
    BY <1>1, <1>3, AppendProperties DEF l
  <2> QED BY <2>1, <2>2, SeqEqual
<1>5. [ss EXCEPT ![n] = grown] = Append(front, grown)
  <2> DEFINE tt == [ss EXCEPT ![n] = grown]
  <2>1. tt \in Seq(Seq(S)) /\ Len(tt) = n
    BY <1>1, <1>2, ExceptSeq
  <2>2. Len(Append(front, grown)) = n /\ Append(front, grown) \in Seq(Seq(S))
    BY <1>1, <1>2, <1>3, AppendProperties
  <2>3. ASSUME NEW i \in 1..n PROVE tt[i] = Append(front, grown)[i]
    <3>1. CASE i = n
      <4>1. tt[i] = grown
        BY <3>1, ExceptSeq
      <4> QED BY <1>1, <1>2, <1>3, <3>1, <4>1, AppendProperties
    <3>2. CASE i # n
      <4>1. i \in 1..(n - 1) /\ tt[i] = ss[i]
        BY <1>1, <3>2
      <4> QED BY <1>2, <1>3, <4>1, AppendProperties
    <3> QED BY <3>1, <3>2
  <2> HIDE DEF tt
  <2>4. tt = Append(front, grown)
    BY <2>1, <2>2, <2>3, SeqEqual
  <2> QED BY <2>4 DEF tt
<1>6. FlattenSeq(ss) = FlattenSeq(front) \o l
  BY <1>1, <1>3, <1>4, FlattenAppend
<1>7. FlattenSeq([ss EXCEPT ![n] = grown]) = FlattenSeq(front) \o grown
  BY <1>2, <1>3, <1>5, FlattenAppend
<1>8. FlattenSeq(front) \o grown = Append(FlattenSeq(front) \o l, e)
  <2>1. FlattenSeq(front) \in Seq(S)
    BY <1>3, FlattenType
  <2>2. PICK flat \in Seq(S) : flat = FlattenSeq(front)
    BY <2>1
  <2>3. flat \o Append(l, e) = Append(flat \o l, e)
    BY <1>1, ConcatAppend
  <2> QED BY <2>2, <2>3 DEF grown
<1>9. [ss EXCEPT ![Len(ss)] = Append(@, e)] = [ss EXCEPT ![n] = grown]
  BY DEF grown, l
<1> QED BY <1>6, <1>7, <1>8, <1>9

-----------------------------------------------------------------------------
(* InOrder *)

StrictOrder(S, R) ==
    /\ \A x \in S : <<x, x>> \notin R
    /\ \A x, y \in S : x # y => <<x, y>> \in R \/ <<y, x>> \in R
    /\ \A x, y, z \in S : <<x, y>> \in R /\ <<y, z>> \in R => <<x, z>> \in R

\* The places of a finite set's elements are 1..Cardinality(S), one for each,
\* and go up with the order.
LEMMA Places ==
    ASSUME NEW S, IsFiniteSet(S), NEW R, StrictOrder(S, R)
    PROVE  /\ \A x \in S : Place(x, S, R) \in 1..Cardinality(S)
           /\ \A x, y \in S : <<x, y>> \in R => Place(x, S, R) < Place(y, S, R)
           /\ \A k \in 1..Cardinality(S) : \E x \in S : Place(x, S, R) = k
<1> DEFINE Before(x) == {y \in S : <<y, x>> \in R}
<1>1. PICK n \in Nat : n = Cardinality(S)
  BY FS_CardinalityType
<1>2. ASSUME NEW T \in SUBSET S, NEW U \in SUBSET T, U # T
      PROVE  Cardinality(U) < Cardinality(T) /\ Cardinality(U) \in Nat /\ Cardinality(T) \in Nat
  <2>1. IsFiniteSet(T)
    BY FS_Subset
  <2>2. IsFiniteSet(U) /\ Cardinality(U) <= Cardinality(T)
        /\ (Cardinality(T) = Cardinality(U) => T = U)
    BY <2>1, FS_Subset
  <2>3. Cardinality(U) \in Nat /\ Cardinality(T) \in Nat
    BY <2>1, <2>2, FS_CardinalityType
  <2> QED
    BY <1>2, <2>2, <2>3
<1>3. ASSUME NEW x \in S PROVE Place(x, S, R) \in 1..n
  <2>1. Before(x) \in SUBSET S /\ Before(x) # S
    BY DEF StrictOrder
  <2>2. Cardinality(Before(x)) \in Nat /\ Cardinality(Before(x)) < n
    <3> HIDE DEF Before
    <3> QED
      BY <1>1, <1>2, <2>1
  <2> QED
    BY <2>2, <1>1 DEF Place
<1>4. ASSUME NEW x \in S, NEW y \in S, <<x, y>> \in R
      PROVE  Place(x, S, R) < Place(y, S, R)
  <2>1. Before(y) \in SUBSET S
    OBVIOUS
  <2>2. Before(x) \in SUBSET Before(y)
    BY <1>4 DEF StrictOrder
  <2>3. Before(x) # Before(y)
    BY <1>4 DEF StrictOrder
  <2>4. /\ Cardinality(Before(x)) < Cardinality(Before(y))
        /\ Cardinality(Before(x)) \in Nat /\ Cardinality(Before(y)) \in Nat
    <3> HIDE DEF Before
    <3> QED
      BY <1>2, <2>1, <2>2, <2>3
  <2> QED
    BY <2>4 DEF Place
<1> DEFINE place == [x \in S |-> Place(x, S, R)]
<1>5. place \in [S -> 1..n]
  BY <1>3
<1>6. \A x, y \in S : place[x] = place[y] => x = y
  <2> SUFFICES ASSUME NEW x \in S, NEW y \in S, x # y PROVE place[x] # place[y]
    OBVIOUS
  <2>1. <<x, y>> \in R \/ <<y, x>> \in R
    BY DEF StrictOrder
  <2> QED
    BY <2>1, <1>3, <1>4
<1>7. place \in Injection(S, 1..n)
  BY <1>5, <1>6 DEF Injection, IsInjective
<1>8. IsFiniteSet(1..n) /\ Cardinality(1..n) = n
  BY FS_Interval
<1>9. place \in Surjection(S, 1..n)
  <2> HIDE DEF place
  <2> QED
    BY <1>1, <1>7, <1>8, FS_Injection
<1>10. \A k \in 1..n : \E x \in S : place[x] = k
  BY <1>9 DEF Surjection
<1> QED
  BY <1>1, <1>3, <1>4, <1>10

\* InOrder(S, R) is a sequence of the elements of S, each once, in the order R.
LEMMA InOrderSorts ==
    ASSUME NEW S, IsFiniteSet(S), NEW R, StrictOrder(S, R)
    PROVE  /\ InOrder(S, R) \in Seq(S)
           /\ Len(InOrder(S, R)) = Cardinality(S)
           /\ \A i, j \in 1..Cardinality(S) :
                 /\ i < j <=> <<InOrder(S, R)[i], InOrder(S, R)[j]>> \in R
                 /\ InOrder(S, R)[i] = InOrder(S, R)[j] => i = j
           /\ \A x \in S : \E i \in 1..Cardinality(S) : InOrder(S, R)[i] = x
<1>1. PICK n \in Nat : n = Cardinality(S)
  BY FS_CardinalityType
<1> DEFINE r == InOrder(S, R)
<1>2. ASSUME NEW k \in 1..n
      PROVE  r[k] \in S /\ Place(r[k], S, R) = k
  <2>1. \E x \in S : Place(x, S, R) = k
    BY <1>1, Places
  <2>2. r[k] = CHOOSE x \in S : Place(x, S, R) = k
    BY <1>1 DEF InOrder
  <2> QED
    BY <2>1, <2>2
<1>3. r \in [1..n -> S]
  <2>1. r = [k \in 1..n |-> r[k]]
    BY <1>1 DEF InOrder
  <2> HIDE DEF r
  <2> QED
    BY <1>2, <2>1
<1>4. r \in Seq(S) /\ Len(r) = n
  <2> HIDE DEF r
  <2> QED
    BY <1>3
<1>5. ASSUME NEW i \in 1..n, NEW j \in 1..n
      PROVE  /\ i < j <=> <<r[i], r[j]>> \in R
             /\ r[i] = r[j] => i = j
  <2>1. r[i] \in S /\ r[j] \in S /\ Place(r[i], S, R) = i /\ Place(r[j], S, R) = j
    BY <1>2
  <2>2. /\ <<r[i], r[j]>> \in R => i < j
        /\ <<r[j], r[i]>> \in R => j < i
    <3> HIDE DEF r
    <3> QED
      BY <2>1, Places
  <2>3. r[i] # r[j] => <<r[i], r[j]>> \in R \/ <<r[j], r[i]>> \in R
    <3> HIDE DEF r
    <3> QED
      BY <2>1 DEF StrictOrder
  <2> HIDE DEF r
  <2> QED
    BY <2>1, <2>2, <2>3
<1>6. ASSUME NEW x \in S PROVE \E i \in 1..n : r[i] = x
  <2>1. Place(x, S, R) \in 1..n
    BY <1>1, Places
  <2> DEFINE i == Place(x, S, R)
  <2>2. r[i] \in S /\ Place(r[i], S, R) = i
    BY <1>2, <2>1
  <2>3. r[i] = x
    <3>1. CASE r[i] # x
      <4>1. <<r[i], x>> \in R \/ <<x, r[i]>> \in R
        BY <2>2, <3>1 DEF StrictOrder
      <4>2. Place(r[i], S, R) < Place(x, S, R) \/ Place(x, S, R) < Place(r[i], S, R)
        BY <2>2, <4>1, Places
      <4> QED
        BY <2>1, <2>2, <4>2
    <3> QED
      BY <3>1
  <2> QED
    BY <2>1, <2>3
<1> HIDE DEF r
<1>7. /\ r \in Seq(S)
      /\ Len(r) = Cardinality(S)
      /\ \A i, j \in 1..Cardinality(S) :
            /\ i < j <=> <<r[i], r[j]>> \in R
            /\ r[i] = r[j] => i = j
      /\ \A x \in S : \E i \in 1..Cardinality(S) : r[i] = x
  BY <1>1, <1>4, <1>5, <1>6
<1> QED
  BY <1>7 DEF r

\* Of two elements in order, the first is before the second.
LEMMA InOrderRises ==
    ASSUME NEW S, IsFiniteSet(S), NEW R, StrictOrder(S, R), NEW r, r = InOrder(S, R),
           NEW i \in 1..Len(r), NEW j \in 1..Len(r), i < j
    PROVE  <<r[i], r[j]>> \in R
<1>1. /\ Len(InOrder(S, R)) = Cardinality(S)
      /\ \A k, l \in 1..Cardinality(S) :
                 /\ k < l <=> <<InOrder(S, R)[k], InOrder(S, R)[l]>> \in R
                 /\ InOrder(S, R)[k] = InOrder(S, R)[l] => k = l
  BY InOrderSorts
<1> QED
  BY <1>1

\* Numbers are ordered by their size.
LEMMA Ascends ==
    ASSUME NEW S, S \subseteq Int
    PROVE  StrictOrder(S, {pair \in S \X S : pair[1] < pair[2]})
BY DEF StrictOrder

\* A number greater than those of S comes last.
LEMMA AscendingAppend ==
    ASSUME NEW N \in Nat, NEW S, S \subseteq 1..N, NEW n \in Int, n > N
    PROVE  Ascending(S \cup {n}) = Append(Ascending(S), n)
<1> DEFINE T == S \cup {n}
           R == {pair \in S \X S : pair[1] < pair[2]}
           Q == {pair \in T \X T : pair[1] < pair[2]}
           c == Cardinality(S)
<1>0. /\ \A x, y \in S : <<x, y>> \in R <=> x < y
      /\ \A x, y \in T : <<x, y>> \in Q <=> x < y
      /\ StrictOrder(S, R) /\ Ascending(S) = InOrder(S, R) /\ Ascending(T) = InOrder(T, Q)
  <2>1. StrictOrder(S, R)
    <3>1. S \subseteq Int
      OBVIOUS
    <3> QED BY <3>1, Ascends
  <2>2. Ascending(S) = InOrder(S, R) /\ Ascending(T) = InOrder(T, Q)
    BY DEF Ascending
  <2> QED BY <2>1, <2>2
<1> HIDE DEF R, Q
<1>1. /\ IsFiniteSet(S) /\ IsFiniteSet(T) /\ n \notin S
      /\ Cardinality(S) \in Nat /\ Cardinality(T) = Cardinality(S) + 1
  <2>1. IsFiniteSet(S)
    <3>1. IsFiniteSet(1..N)
      BY FS_Interval
    <3> QED BY <3>1, FS_Subset
  <2>2. n \notin S
    OBVIOUS
  <2> QED BY <2>1, <2>2, FS_AddElement, FS_CardinalityType
<1>3. /\ \A x \in S : Place(x, S, R) \in 1..Cardinality(S)
      /\ \A x, y \in S : <<x, y>> \in R => Place(x, S, R) < Place(y, S, R)
      /\ \A k \in 1..Cardinality(S) : \E x \in S : Place(x, S, R) = k
  <2>1. IsFiniteSet(S) /\ StrictOrder(S, R)
    BY <1>0, <1>1
  <2> QED BY <2>1, Places, ZenonT(30)
<1>4. \A x \in S : Place(x, T, Q) = Place(x, S, R)
  <2> SUFFICES ASSUME NEW x \in S PROVE Place(x, T, Q) = Place(x, S, R)
    OBVIOUS
  <2>1. \A y \in T : <<y, x>> \in Q <=> y \in S /\ <<y, x>> \in R
    BY <1>0
  <2>2. {y \in T : <<y, x>> \in Q} = {y \in S : <<y, x>> \in R}
    BY <2>1
  <2> QED BY <2>2 DEF Place
<1>5. Place(n, T, Q) = Cardinality(S) + 1
  <2>1. \A y \in T : <<y, n>> \in Q <=> y \in S
    BY <1>0
  <2>2. {y \in T : <<y, n>> \in Q} = S
    BY <2>1
  <2> QED BY <2>2 DEF Place
<1>6. \A x, y \in S : x # y => <<x, y>> \in R \/ <<y, x>> \in R
  BY <1>0
<1> DEFINE s == [k \in 1..Cardinality(S) |-> CHOOSE x \in S : Place(x, S, R) = k]
           t == [k \in 1..Cardinality(T) |-> CHOOSE x \in T : Place(x, T, Q) = k]
<1>7. Ascending(S) = s /\ Ascending(T) = t
  BY <1>0 DEF InOrder
<1>8. c \in Nat /\ Cardinality(T) = c + 1 /\ Cardinality(S) = c
  BY <1>1
<1>9. \A k \in 1..c : s[k] \in S /\ Place(s[k], S, R) = k
  BY <1>3, <1>8
<1>10. \A k \in 1..(c + 1) : \E x \in T : Place(x, T, Q) = k
  BY <1>3, <1>4, <1>5, <1>8
<1>11. \A k \in 1..(c + 1) : t[k] \in T /\ Place(t[k], T, Q) = k
  BY <1>8, <1>10
<1>12. s \in [1..c -> Int] /\ t \in [1..(c + 1) -> Int]
  <2>1. S \subseteq Int /\ T \subseteq Int
    OBVIOUS
  <2>2. \A k \in 1..c : (CHOOSE x \in S : Place(x, S, R) = k) \in Int
    BY <1>3, <2>1
  <2>3. \A k \in 1..(c + 1) : (CHOOSE x \in T : Place(x, T, Q) = k) \in Int
    BY <1>10, <2>1
  <2> QED BY <1>8, <2>2, <2>3
<1> HIDE DEF s, t, c
<1>13. ASSUME NEW k \in 1..c PROVE t[k] = s[k]
  <2>1. k \in 1..(c + 1) /\ k # c + 1
    BY <1>8
  <2>2. t[k] \in T /\ Place(t[k], T, Q) = k
    BY <1>11, <2>1
  <2>3. t[k] \in S
    BY <2>1, <2>2, <1>5, <1>8
  <2>4. Place(t[k], S, R) = k /\ s[k] \in S /\ Place(s[k], S, R) = k
    BY <1>4, <1>9, <2>2, <2>3
  <2> DEFINE a == t[k]
             b == s[k]
  <2> HIDE DEF a, b
  <2>5. \A x, y \in S : <<x, y>> \in R => Place(x, S, R) # Place(y, S, R)
    <3>1. \A x \in S : Place(x, S, R) \in Int
      BY <1>3
    <3> QED BY <3>1, <1>3
  <2>6. a \in S /\ b \in S /\ Place(a, S, R) = Place(b, S, R)
    BY <2>3, <2>4 DEF a, b
  <2>7. a = b
    BY <1>6, <2>5, <2>6
  <2> QED BY <2>7 DEF a, b
<1>14. t[c + 1] = n
  <2>1. c + 1 \in 1..(c + 1)
    BY <1>8
  <2>2. t[c + 1] \in T /\ Place(t[c + 1], T, Q) = c + 1
    BY <1>11, <2>1
  <2>3. t[c + 1] \notin S
    <3>1. \A x \in S : Place(x, T, Q) # c + 1
      BY <1>3, <1>4, <1>8
    <3> QED BY <3>1, <2>2
  <2> QED BY <2>2, <2>3
<1>15. t = Append(s, n)
  <2>0. s \in Seq(Int) /\ Len(s) = c /\ t \in Seq(Int) /\ Len(t) = c + 1
    BY <1>8, <1>12
  <2>1. /\ Append(s, n) \in Seq(Int) /\ Len(Append(s, n)) = c + 1
        /\ \A k \in 1..c : Append(s, n)[k] = s[k]
        /\ Append(s, n)[c + 1] = n
    BY <2>0, AppendProperties
  <2>2. \A k \in 1..(c + 1) : t[k] = Append(s, n)[k]
    BY <1>8, <1>13, <1>14, <2>1
  <2> QED BY <2>0, <2>1, <2>2, SeqEqual
<1> QED BY <1>7, <1>15

\* Ascending lists the numbers of S and no others.
LEMMA AscendingLists ==
    ASSUME NEW N \in Nat, NEW S, S \subseteq 1..N
    PROVE  /\ Ascending(S) \in Seq(1..N)
           /\ \A k \in 1..Len(Ascending(S)) : Ascending(S)[k] \in S
           /\ \A n \in S : \E k \in 1..Len(Ascending(S)) : Ascending(S)[k] = n
           /\ S = {} => Ascending(S) = <<>>
<1> DEFINE R == {pair \in S \X S : pair[1] < pair[2]}
<1>1. IsFiniteSet(S) /\ StrictOrder(S, R)
  <2>1. S \subseteq Int /\ IsFiniteSet(1..N)
    BY FS_Interval
  <2> QED BY <2>1, Ascends, FS_Subset
<1>2. Ascending(S) = InOrder(S, R)
  BY DEF Ascending
<1> HIDE DEF R
<1>3. /\ InOrder(S, R) \in Seq(S) /\ Len(InOrder(S, R)) = Cardinality(S)
      /\ \A n \in S : \E k \in 1..Cardinality(S) : InOrder(S, R)[k] = n
  BY <1>1, InOrderSorts
<1>4. InOrder(S, R) \in Seq(1..N)
  <2>1. \A k \in 1..Len(InOrder(S, R)) : InOrder(S, R)[k] \in S
    BY <1>3, ElementOfSeq
  <2>2. \A k \in 1..Len(InOrder(S, R)) : InOrder(S, R)[k] \in 1..N
    BY <2>1
  <2> QED BY <1>3, <2>2, SeqOverElements
<1>5. S = {} => InOrder(S, R) = <<>>
  BY <1>3, FS_EmptySet
<1> QED BY <1>2, <1>3, <1>4, <1>5

\* A sequence in two portions.
LEMMA TwoPortions ==
    ASSUME NEW S, NEW s \in Seq(S), NEW n \in 0..Len(s)
    PROVE  /\ SubSeq(s, 1, n) \o SubSeq(s, n + 1, Len(s)) = s
           /\ SubSeq(s, 1, n) \in Seq(S) /\ SubSeq(s, n + 1, Len(s)) \in Seq(S)
           /\ Len(SubSeq(s, 1, n)) = n /\ Len(SubSeq(s, n + 1, Len(s))) = Len(s) - n
           /\ \A i \in 1..n : SubSeq(s, 1, n)[i] = s[i]
           /\ \A i \in 1..(Len(s) - n) : SubSeq(s, n + 1, Len(s))[i] = s[n + i]
<1>1. PICK N \in Nat : N = Len(s) /\ DOMAIN s = 1..N
  OBVIOUS
<1>2. SubSeq(s, 1, n) \in Seq(S) /\ Len(SubSeq(s, 1, n)) = n
      /\ \A i \in 1..n : SubSeq(s, 1, n)[i] = s[i]
  BY <1>1
<1>3. SubSeq(s, n + 1, N) \in Seq(S) /\ Len(SubSeq(s, n + 1, N)) = N - n
      /\ \A i \in 1..(N - n) : SubSeq(s, n + 1, N)[i] = s[n + i]
  BY <1>1
<1>4. PICK a \in Seq(S), b \in Seq(S) : a = SubSeq(s, 1, n) /\ b = SubSeq(s, n + 1, N)
  BY <1>2, <1>3
<1>5. a \o b = s
  <2>1. 1 \in 1..(Len(s) + 1) /\ n \in (1 - 1)..Len(s) /\ Len(s) \in n..Len(s)
    BY <1>1
  <2>2. SubSeq(s, 1, n) \o SubSeq(s, n + 1, Len(s)) = SubSeq(s, 1, Len(s))
    BY <2>1, ConcatAdjacentSubSeq, Zenon
  <2> QED BY <1>1, <1>4, <2>2, SubSeqFull
<1> QED BY <1>1, <1>2, <1>3, <1>4, <1>5

\* w is s and then t.
MadeOf(w, s, t) == w = s \o t

LEMMA GroupedLeft ==
    ASSUME NEW S, NEW s \in Seq(S), NEW t \in Seq(S), NEW u \in Seq(S)
    PROVE  MadeOf(s \o (t \o u), s \o t, u)
  BY ConcatAssociative DEF MadeOf

\* Four sequences, grouped in another way.
LEMMA Regrouped ==
    ASSUME NEW S, NEW a \in Seq(S), NEW b \in Seq(S), NEW c \in Seq(S), NEW d \in Seq(S)
    PROVE  MadeOf((a \o b) \o (c \o d), a \o (b \o c), d)
<1>1. a \o b \in Seq(S)
  BY ConcatProperties
<1>2. MadeOf((a \o b) \o (c \o d), (a \o b) \o c, d) /\ MadeOf(a \o (b \o c), a \o b, c)
  BY <1>1, GroupedLeft, Zenon
<1> QED BY <1>2, Zenon DEF MadeOf

\* Of two ways to cut the same sequence, the longer beginning has the shorter
\* one in it.
LEMMA LongerBeginning ==
    ASSUME NEW S, NEW a \in Seq(S), NEW b \in Seq(S), NEW c \in Seq(S), NEW d \in Seq(S),
           NEW v, MadeOf(v, a, b), MadeOf(v, c, d), Len(a) >= Len(c)
    PROVE  /\ MadeOf(c, SubSeq(a, 1, Len(c)), <<>>)
           /\ SubSeq(a, Len(c) + 1, Len(a)) \in Seq(S)
           /\ MadeOf(d, SubSeq(a, Len(c) + 1, Len(a)), b)
<1>0. a \o b = c \o d
  BY DEF MadeOf
<1>1. PICK A \in Nat, B \in Nat : A = Len(a) /\ B = Len(b)
  OBVIOUS
<1>2. PICK C \in Nat, D \in Nat : C = Len(c) /\ D = Len(d)
  OBVIOUS
<1>3. PICK w \in Seq(S) :
         /\ w = a \o b /\ w = c \o d /\ Len(w) = A + B /\ Len(w) = C + D
         /\ \A i \in 1..(A + B) : w[i] = IF i <= A THEN a[i] ELSE b[i - A]
         /\ \A i \in 1..(C + D) : w[i] = IF i <= C THEN c[i] ELSE d[i - C]
  <2>1. /\ a \o b \in Seq(S) /\ Len(a \o b) = A + B
        /\ \A i \in 1..(A + B) : (a \o b)[i] = IF i <= A THEN a[i] ELSE b[i - A]
    BY <1>1, ConcatProperties
  <2>2. /\ Len(c \o d) = C + D
        /\ \A i \in 1..(C + D) : (c \o d)[i] = IF i <= C THEN c[i] ELSE d[i - C]
    BY <1>2, ConcatProperties
  <2> QED BY <1>0, <2>1, <2>2
<1>4. A + B = C + D /\ C <= A
  BY <1>1, <1>2, <1>3
<1>8. \A i \in 1..C : a[i] = c[i]
  <2> SUFFICES ASSUME NEW i \in 1..C PROVE a[i] = c[i]
    OBVIOUS
  <2>1. i \in 1..(A + B) /\ i <= A /\ i \in 1..(C + D) /\ i <= C
    BY <1>4
  <2> QED BY <1>3, <2>1
<1>p. /\ SubSeq(a, C + 1, A) \in Seq(S) /\ Len(SubSeq(a, C + 1, A)) = A - C
      /\ SubSeq(a, 1, C) \in Seq(S) /\ Len(SubSeq(a, 1, C)) = C
      /\ \A i \in 1..C : SubSeq(a, 1, C)[i] = a[i]
      /\ \A i \in 1..(A - C) : SubSeq(a, C + 1, A)[i] = a[C + i]
  <2>1. C \in 0..Len(a)
    BY <1>1, <1>2, <1>4
  <2> QED BY <1>1, <2>1, TwoPortions
<1>9. PICK e \in Seq(S) : e = SubSeq(a, C + 1, A) /\ Len(e) = A - C /\ \A i \in 1..(A - C) : e[i] = a[C + i]
  BY <1>p
<1>10. SubSeq(a, 1, C) = c
  <2> QED BY <1>2, <1>8, <1>p, SeqEqual
<1>11. e \o b = d
  <2>1. PICK z \in Seq(S) :
           /\ z = e \o b /\ Len(z) = D
           /\ \A i \in 1..D : z[i] = IF i <= A - C THEN e[i] ELSE b[i - (A - C)]
    <3>1. /\ e \o b \in Seq(S) /\ Len(e \o b) = Len(e) + Len(b)
          /\ \A i \in 1..(Len(e) + Len(b)) : (e \o b)[i] = IF i <= Len(e) THEN e[i] ELSE b[i - Len(e)]
      BY ConcatProperties
    <3>2. Len(e) = A - C /\ Len(e) + Len(b) = D
      <4>1. \A x, y, z, u \in Int : x + y = z + u => x - z + y = u
        OBVIOUS
      <4>2. A - C + B = D
        BY <1>4, <4>1
      <4> QED BY <1>1, <1>9, <4>2
    <3> QED BY <3>1, <3>2
  <2>2. ASSUME NEW i \in 1..D PROVE z[i] = d[i]
    <3>1. /\ C + i \in 1..(C + D) /\ ~(C + i <= C) /\ (C + i) - C = i /\ C + i \in 1..(A + B)
          /\ C + i - A = i - (A - C) /\ (C + i <= A <=> i <= A - C)
      BY <1>4
    <3>2. w[C + i] = d[i]
      BY <1>3, <3>1
    <3>3. w[C + i] = IF i <= A - C THEN a[C + i] ELSE b[i - (A - C)]
      BY <1>3, <3>1
    <3>4. i <= A - C => e[i] = a[C + i]
      BY <1>9
    <3> QED BY <2>1, <3>2, <3>3, <3>4
  <2> QED BY <1>2, <2>1, <2>2, SeqEqual
<1>12. SubSeq(a, 1, C) \o <<>> = c
  BY <1>10, ConcatEmptySeq
<1> QED BY <1>1, <1>2, <1>9, <1>11, <1>12 DEF MadeOf

\* Successive portions of the data, from end to end, join up to the data.
LEMMA PortionsJoin ==
    ASSUME NEW S, NEW data \in Seq(S), NEW m \in Nat, NEW pieces \in Seq(Seq(S)), Len(pieces) = m,
           NEW end \in [0..m -> 0..Len(data)], end[0] = 0, end[m] = Len(data),
           \A k \in 1..m : end[k - 1] <= end[k] /\ pieces[k] = SubSeq(data, end[k - 1] + 1, end[k])
    PROVE  FlattenSeq(pieces) = data
<1> DEFINE J(k) == FlattenSeq(SubSeq(pieces, 1, k)) = SubSeq(data, 1, end[k])
           T == {k \in 0..m : J(k)}
<1>1. PICK L \in Nat : L = Len(data)
  OBVIOUS
<1>5. 0 \in T
  <2>1. SubSeq(pieces, 1, 0) = <<>> /\ SubSeq(data, 1, 0) = <<>>
    BY SubSeqEmpty
  <2>2. J(0)
    BY <2>1, FlattenEmpty
  <2> HIDE DEF J
  <2> QED BY <2>2
<1>6. ASSUME NEW k \in 1..m, k - 1 \in T PROVE k \in T
  <2>1. J(k - 1) /\ k - 1 \in 0..m /\ k \in 0..m
    BY <1>6
  <2>2. PICK a \in 0..L, b \in 0..L : a = end[k - 1] /\ b = end[k] /\ a <= b
    BY <1>1, <2>1
  <2>p. PICK piece \in Seq(S) : piece = pieces[k]
    OBVIOUS
  <2>3. PICK upto \in Seq(Seq(S)) : upto = SubSeq(pieces, 1, k - 1)
    <3>1. k - 1 \in 0..Len(pieces)
      BY <2>1
    <3> QED BY <3>1, TwoPortions
  <2>4. SubSeq(pieces, 1, k) = Append(upto, piece)
    <3>1. 1 \in 1..Len(pieces) /\ k \in 1..Len(pieces)
      OBVIOUS
    <3>2. SubSeq(pieces, 1, k) = SubSeq(pieces, 1, k - 1) \o <<pieces[k]>>
      BY <3>1, SubSeqRecursiveSecond, Zenon
    <3>3. Append(upto, piece) = upto \o <<piece>>
      BY <2>3, <2>p, AppendIsConcat, Zenon
    <3> QED BY <2>3, <2>p, <3>2, <3>3, Zenon
  <2>5. FlattenSeq(Append(upto, piece)) = FlattenSeq(upto) \o piece
    BY <2>3, <2>p, FlattenAppend
  <2>6. FlattenSeq(upto) = SubSeq(data, 1, a)
    BY <2>1, <2>2, <2>3
  <2>7. piece = SubSeq(data, a + 1, b)
    BY <2>2, <2>p
  <2>8. SubSeq(data, 1, a) \o SubSeq(data, a + 1, b) = SubSeq(data, 1, b)
    <3>1. 1 \in 1..(Len(data) + 1) /\ a \in (1 - 1)..Len(data) /\ b \in a..Len(data)
      BY <1>1, <2>2
    <3> QED BY <3>1, ConcatAdjacentSubSeq, Zenon
  <2>10. J(k)
    BY <2>2, <2>4, <2>5, <2>6, <2>7, <2>8
  <2> HIDE DEF J
  <2> QED BY <2>1, <2>10
<1>7. m \in T
  <2> HIDE DEF T
  <2>1. 0..m \subseteq T
    BY <1>5, <1>6, InductionUpTo
  <2> QED BY <2>1
<1> QED BY <1>7, SubSeqFull

\* Data in pieces of c, the last with what is left over, joined up again.
PieceCount(data, c) == (Len(data) + c - 1) \div c
Pieces(data, c) ==
    [k \in 1..PieceCount(data, c) |->
        SubSeq(data, (k - 1) * c + 1, IF k < PieceCount(data, c) THEN k * c ELSE Len(data))]

LEMMA PiecesJoin ==
    ASSUME NEW S, NEW data \in Seq(S), NEW c \in Nat \ {0}
    PROVE  /\ PieceCount(data, c) \in Nat /\ Pieces(data, c) \in Seq(Seq(S))
           /\ DOMAIN Pieces(data, c) = 1..PieceCount(data, c)
           /\ FlattenSeq(Pieces(data, c)) = data
           /\ \A k \in 1..PieceCount(data, c) : Len(Pieces(data, c)[k]) \in 1..c
<1>0. PICK n, pieces :
         /\ n = PieceCount(data, c) /\ pieces = Pieces(data, c)
         /\ n = (Len(data) + c - 1) \div c
         /\ pieces = [k \in 1..n |-> SubSeq(data, (k - 1) * c + 1, IF k < n THEN k * c ELSE Len(data))]
  BY DEF PieceCount, Pieces
<1> DEFINE Start(k) == (k - 1) * c
           End(k) == IF k < n THEN k * c ELSE Len(data)
<1>1. PICK L \in Nat : L = Len(data) /\ DOMAIN data = 1..L
  OBVIOUS
<1>2. n \in Nat /\ n * c >= L /\ (n >= 1 => (n - 1) * c < L) /\ (n = 0 => L = 0)
  <2>1. PICK q \in Int, r \in 0..(c - 1) : q = n /\ L + c - 1 = c * q + r
    <3>1. (L + c - 1) \div c \in Int /\ (L + c - 1) % c \in 0..(c - 1)
          /\ L + c - 1 = c * ((L + c - 1) \div c) + ((L + c - 1) % c)
      OBVIOUS
    <3> QED BY <1>0, <1>1, <3>1
  <2>2. q >= 0
    <3>1. SUFFICES ASSUME q <= -1 PROVE FALSE
      BY <2>1
    <3>2. (-1 - q) * c >= 0
      <4>1. -1 - q \in Nat
        BY <2>1, <3>1
      <4> QED BY <4>1
    <3>3. (-1 - q) * c = -c - c * q
      BY <2>1
    <3> QED BY <2>1, <3>2, <3>3
  <2>3. q * c = c * q /\ (q - 1) * c = c * q - c /\ c * q \in Int
    BY <2>1
  <2>4. q * c >= L /\ (q - 1) * c < L
    BY <2>1, <2>3
  <2>5. q = 0 => L = 0
    <3>1. q = 0 => c * q = 0
      BY <2>1
    <3> QED BY <2>1, <3>1
  <2> QED BY <2>1, <2>2, <2>4, <2>5
<1>3. ASSUME NEW k \in 1..n
      PROVE  /\ Start(k) \in 0..L /\ End(k) \in 0..L
             /\ End(k) - Start(k) \in 1..c
             /\ k > 1 => Start(k) = End(k - 1)
             /\ k = 1 => Start(k) = 0
  <2>1. k \in Nat /\ n \in Nat /\ k * c \in Int /\ (k - 1) * c \in Int /\ (k - 1) * c = k * c - c
    BY <1>2
  <2>2. (k - 1) * c >= 0 /\ (n - k) * c >= 0 /\ (n - k) * c = n * c - k * c /\ n * c \in Int
        /\ (n - 1) * c = n * c - c
    <3>1. k - 1 \in Nat /\ n - k \in Nat
      BY <1>2
    <3>2. \A x, y \in Nat : x * y >= 0 /\ x * y \in Int
      OBVIOUS
    <3>3. (k - 1) * c >= 0 /\ (n - k) * c >= 0
      BY <3>1, <3>2
    <3>4. (n - k) * c = n * c - k * c /\ n * c \in Int
      BY <2>1
    <3>5. (n - 1) * c = n * c - c
      BY <2>1
    <3> QED BY <3>3, <3>4, <3>5
  <2>3. k < n => (n - 1 - k) * c >= 0 /\ (n - 1 - k) * c = n * c - c - k * c
    <3>1. k < n => n - 1 - k \in Nat
      BY <2>1
    <3>2. \A x, y \in Nat : x * y >= 0
      OBVIOUS
    <3>3. (n - 1 - k) * c = n * c - c - k * c
      BY <2>1
    <3> QED BY <3>1, <3>2, <3>3
  <2>4. CASE k < n
    <3>1. k * c < L
      BY <1>2, <2>1, <2>2, <2>3, <2>4
    <3>2. End(k) = k * c
      BY <2>4
    <3>3. k - 1 < n
      BY <2>1, <2>4
    <3>4. End(k - 1) = (k - 1) * c
      BY <3>3
    <3>5. k = 1 => (k - 1) * c = 0
      OBVIOUS
    <3> QED BY <2>1, <2>2, <3>1, <3>2, <3>4, <3>5
  <2>5. CASE k = n
    <3>1. End(k) = L /\ End(k - 1) = (k - 1) * c
      BY <1>1, <2>1, <2>5
    <3>2. (k - 1) * c < L /\ L <= k * c
      BY <1>2, <2>1, <2>5
    <3>5. k = 1 => (k - 1) * c = 0
      OBVIOUS
    <3> QED BY <2>1, <2>2, <3>1, <3>2, <3>5
  <2> QED BY <2>1, <2>4, <2>5
<1> HIDE DEF Start, End
<1>4. /\ pieces \in Seq(Seq(S)) /\ Len(pieces) = n /\ DOMAIN pieces = 1..n
      /\ \A k \in 1..n : /\ pieces[k] = SubSeq(data, Start(k) + 1, End(k))
                         /\ pieces[k] \in Seq(S) /\ Len(pieces[k]) \in 1..c
  <2>1. ASSUME NEW k \in 1..n
        PROVE  LET s == SubSeq(data, Start(k) + 1, End(k)) IN s \in Seq(S) /\ Len(s) \in 1..c
    <3>1. PICK a \in 0..L, b \in 0..L : a = Start(k) /\ b = End(k) /\ b - a \in 1..c
      BY <1>3
    <3>2. SubSeq(data, a + 1, b) \in Seq(S) /\ Len(SubSeq(data, a + 1, b)) = b - a
      BY <1>1, <3>1
    <3> QED BY <3>1, <3>2
  <2>2. pieces = [k \in 1..n |-> SubSeq(data, Start(k) + 1, End(k))]
    BY <1>0 DEF Start, End
  <2>3. pieces \in [1..n -> Seq(S)]
    BY <2>1, <2>2
  <2>4. PICK m \in Nat : m = n
    BY <1>2
  <2>5. pieces \in Seq(Seq(S)) /\ Len(pieces) = m /\ DOMAIN pieces = 1..m
    <3>1. pieces \in [1..m -> Seq(S)]
      BY <2>3, <2>4, Zenon
    <3> QED BY <3>1, FunctionIsSeq
  <2> QED BY <2>1, <2>2, <2>4, <2>5
<1>10. FlattenSeq(pieces) = data
  <2>1. PICK m \in Nat : m = n
    BY <1>2
  <2> DEFINE end == [k \in 0..m |-> IF k = 0 THEN 0 ELSE End(k)]
  <2>2. end[0] = 0
    OBVIOUS
  <2>3. end[m] = Len(data)
    <3>1. End(m) = Len(data)
      BY <2>1 DEF End
    <3>2. m = 0 => Len(data) = 0
      BY <1>1, <1>2, <2>1
    <3> QED BY <2>2, <3>1, <3>2
  <2>4. ASSUME NEW k \in 1..m
        PROVE  /\ end[k] \in 0..Len(data) /\ end[k - 1] <= end[k]
               /\ pieces[k] = SubSeq(data, end[k - 1] + 1, end[k])
    <3>1. k \in 1..n /\ k - 1 \in 0..m /\ k \in 0..m /\ k # 0 /\ (k - 1 = 0 <=> ~(k > 1)) /\ (k > 1 <=> k # 1)
      BY <2>1
    <3>2. end[k] = End(k) /\ end[k - 1] = Start(k)
      BY <1>3, <3>1
    <3>3. Start(k) \in 0..L /\ End(k) \in 0..L /\ End(k) - Start(k) \in 1..c
      BY <1>3, <3>1
    <3>4. Start(k) <= End(k)
      BY <3>3
    <3>5. pieces[k] = SubSeq(data, Start(k) + 1, End(k))
      BY <1>4, <3>1
    <3> QED BY <1>1, <3>2, <3>3, <3>4, <3>5
  <2>5. end \in [0..m -> 0..Len(data)]
    <3>1. ASSUME NEW k \in 0..m PROVE end[k] \in 0..Len(data)
      <4> HIDE DEF end
      <4>1. k = 0 \/ k \in 1..m
        BY <2>1
      <4>2. 0 \in 0..Len(data)
        BY <1>1
      <4> QED BY <2>2, <2>4, <4>1, <4>2, Zenon
    <3>2. end = [k \in 0..m |-> end[k]]
      OBVIOUS
    <3> HIDE DEF end
    <3> QED BY <3>1, <3>2, Zenon
  <2>6. pieces \in Seq(Seq(S)) /\ Len(pieces) = m
    BY <1>4, <2>1
  <2> HIDE DEF end
  <2>7. \A k \in 1..m : end[k - 1] <= end[k] /\ pieces[k] = SubSeq(data, end[k - 1] + 1, end[k])
    BY <2>4, Zenon
  <2>8. PICK e \in [0..m -> 0..Len(data)], p \in Seq(Seq(S)) :
           /\ p = pieces /\ Len(p) = m /\ e[0] = 0 /\ e[m] = Len(data)
           /\ \A k \in 1..m : e[k - 1] <= e[k] /\ p[k] = SubSeq(data, e[k - 1] + 1, e[k])
    BY <2>2, <2>3, <2>5, <2>6, <2>7, Zenon
  <2>9. FlattenSeq(p) = data
    BY <2>1, <2>8, PortionsJoin, Zenon
  <2> QED BY <2>8, <2>9
<1> QED BY <1>0, <1>2, <1>4, <1>10

-----------------------------------------------------------------------------
(* What stands at some places of a sequence (Ordering, AtPlaces) *)

\* It is a sequence of elements, one for each place.
LEMMA PickedPlaces ==
    ASSUME NEW X, NEW p \in Seq(X), NEW S \in SUBSET (1..Len(p))
    PROVE  /\ Ascending(S) \in Seq(1..Len(p)) /\ AtPlaces(p, S) \in Seq(X)
           /\ Len(AtPlaces(p, S)) = Len(Ascending(S))
           /\ \A k \in 1..Len(Ascending(S)) : AtPlaces(p, S)[k] = p[Ascending(S)[k]]
<1>1. PICK N \in Nat : N = Len(p)
  OBVIOUS
<1>2. PICK places \in Seq(1..N) : places = Ascending(S)
  BY <1>1, AscendingLists
<1>3. PICK n \in Nat : n = Len(places) /\ DOMAIN places = 1..n
  OBVIOUS
<1>4. [k \in 1..n |-> p[places[k]]] \in [1..n -> X]
  <2>1. \A k \in 1..n : places[k] \in 1..N
    BY <1>3
  <2>2. \A i \in 1..N : p[i] \in X
    BY <1>1
  <2> QED BY <2>1, <2>2
<1>5. AtPlaces(p, S) = [k \in 1..n |-> p[places[k]]]
  BY <1>2, <1>3 DEF AtPlaces
<1>6. PICK f \in [1..n -> X] : f = AtPlaces(p, S) /\ \A k \in 1..n : f[k] = p[places[k]]
  BY <1>4, <1>5
<1>7. f \in Seq(X) /\ Len(f) = n
  BY FunctionIsSeq
<1> QED BY <1>1, <1>2, <1>3, <1>6, <1>7

\* More of the sequence, of which nothing is taken.
LEMMA PickedLater ==
    ASSUME NEW X, NEW p \in Seq(X), NEW t \in Seq(X), NEW S \in SUBSET (1..Len(p))
    PROVE  /\ S \in SUBSET (1..Len(p \o t))
           /\ AtPlaces(p \o t, S) = AtPlaces(p, S)
<1>1. PICK w \in Seq(X) : w = p \o t /\ Len(w) = Len(p) + Len(t) /\ \A i \in 1..Len(p) : w[i] = p[i]
  BY ConcatParts, Zenon
<1>2. S \in SUBSET (1..Len(w))
  <2>1. Len(p) \in Nat /\ Len(t) \in Nat
    OBVIOUS
  <2> QED BY <1>1, <2>1
<1>3. PICK a \in Seq(X), b \in Seq(X) : a = AtPlaces(p, S) /\ b = AtPlaces(w, S)
  BY <1>2, PickedPlaces
<1>4. PICK places \in Seq(1..Len(p)) : places = Ascending(S)
  BY PickedPlaces
<1>5. Len(a) = Len(places) /\ \A k \in 1..Len(places) : a[k] = p[places[k]]
  BY <1>3, <1>4, PickedPlaces
<1>6. Len(b) = Len(places) /\ \A k \in 1..Len(places) : b[k] = w[places[k]]
  BY <1>2, <1>3, <1>4, PickedPlaces
<1>7. \A k \in 1..Len(places) : places[k] \in 1..Len(p)
  OBVIOUS
<1>8. \A k \in 1..Len(places) : a[k] = b[k]
  BY <1>1, <1>5, <1>6, <1>7
<1>9. a = b
  BY <1>5, <1>6, <1>8, SeqEqual
<1> QED BY <1>1, <1>2, <1>3, <1>9

\* r is s with e after its n elements.
AppendedTo(r, s, e, n) == Len(r) = n + 1 /\ r[n + 1] = e /\ \A i \in 1..n : r[i] = s[i]

\* Append does so.
LEMMA AppendGrows ==
    ASSUME NEW X, NEW s \in Seq(X), NEW e \in X, NEW n, n = Len(s)
    PROVE  Append(s, e) \in Seq(X) /\ AppendedTo(Append(s, e), s, e, n)
  BY AppendProperties DEF AppendedTo

\* Two sequences that grow from the same by the same.
LEMMA AppendedAlike ==
    ASSUME NEW X, NEW r \in Seq(X), NEW q \in Seq(X), NEW s \in Seq(X), NEW e, NEW n \in Nat,
           AppendedTo(r, s, e, n), AppendedTo(q, s, e, n)
    PROVE  r = q
<1>1. \A i \in 1..(n + 1) : r[i] = q[i]
  BY DEF AppendedTo
<1>2. Len(r) = n + 1 /\ Len(q) = n + 1
  BY DEF AppendedTo
<1> QED BY <1>1, <1>2, SeqEqual

\* A longer sequence, element by element.
LEMMA OneMore ==
    ASSUME NEW S, NEW s \in Seq(S), NEW x \in S
    PROVE  /\ Append(s, x) \in Seq(S) /\ DOMAIN Append(s, x) = 1..(Len(s) + 1)
           /\ Append(s, x)[Len(s) + 1] = x /\ \A k \in 1..Len(s) : Append(s, x)[k] = s[k]
  BY AppendProperties

\* The place taken last.
LEMMA PickedLast ==
    ASSUME NEW X, NEW w \in Seq(X), NEW m \in 1..Len(w), NEW S \in SUBSET (1..(m - 1))
    PROVE  AtPlaces(w, S \cup {m}) = Append(AtPlaces(w, S), w[m])
<1>1. PICK N \in Nat : N = Len(w) /\ m \in 1..N /\ \A i \in 1..N : w[i] \in X
  BY ElementOfSeq
<1>2. PICK T \in SUBSET (1..Len(w)) : T = S \cup {m} /\ S \in SUBSET (1..Len(w))
  <2>1. 1..(m - 1) \subseteq 1..N
    BY <1>1
  <2>2. S \subseteq 1..N /\ S \cup {m} \subseteq 1..N
    BY <1>1, <2>1
  <2> QED BY <1>1, <2>2
<1>20. T \in SUBSET (1..Len(w))
  BY <1>2
<1>3. PICK places \in Seq(Nat), n \in Nat : places = Ascending(S) /\ n = Len(places)
  <2>1. Ascending(S) \in Seq(1..Len(w))
    BY <1>2, PickedPlaces
  <2>2. Ascending(S) \in Seq(Nat)
    <3>1. \A k \in 1..Len(Ascending(S)) : Ascending(S)[k] \in Nat
      BY <1>1, <2>1, ElementOfSeq
    <3> QED BY <2>1, <3>1, SeqOverElements
  <2> QED BY <2>2
<1>4. PICK longer \in Seq(Nat) : longer = Ascending(T) /\ AppendedTo(longer, places, m, n)
  <2>1. Ascending(T) = Append(places, m)
    <3>1. m - 1 \in Nat /\ m \in Int /\ m > m - 1 /\ S \subseteq 1..(m - 1)
      BY <1>1
    <3> QED BY <1>2, <1>3, <3>1, AscendingAppend, Zenon
  <2>2. m \in Nat
    BY <1>1
  <2>3. Append(places, m) \in Seq(Nat) /\ AppendedTo(Append(places, m), places, m, n)
    BY <1>3, <2>2, AppendGrows
  <2> QED BY <2>1, <2>3
<1>5. Len(longer) = n + 1 /\ longer[n + 1] = m /\ \A k \in 1..n : longer[k] = places[k]
  BY <1>4 DEF AppendedTo
<1>6. PICK a \in Seq(X) : a = AtPlaces(w, S) /\ Len(a) = n /\ \A k \in 1..n : a[k] = w[places[k]]
  <2>1. /\ AtPlaces(w, S) \in Seq(X) /\ Len(AtPlaces(w, S)) = Len(Ascending(S))
        /\ \A k \in 1..Len(Ascending(S)) : AtPlaces(w, S)[k] = w[Ascending(S)[k]]
    BY <1>2, PickedPlaces
  <2> QED BY <1>3, <2>1
<1>7. PICK b \in Seq(X) : b = AtPlaces(w, T) /\ Len(b) = n + 1 /\ \A k \in 1..(n + 1) : b[k] = w[longer[k]]
  <2>1. /\ AtPlaces(w, T) \in Seq(X) /\ Len(AtPlaces(w, T)) = Len(Ascending(T))
        /\ \A k \in 1..Len(Ascending(T)) : AtPlaces(w, T)[k] = w[Ascending(T)[k]]
    BY <1>20, PickedPlaces
  <2> QED BY <1>4, <1>5, <2>1
<1>8. AppendedTo(b, a, w[m], n)
  <2>1. ASSUME NEW k \in 1..n PROVE b[k] = a[k]
    <3>1. k \in 1..(n + 1)
      BY <1>3
    <3>2. b[k] = w[longer[k]]
      BY <1>7, <3>1
    <3>3. a[k] = w[places[k]]
      BY <1>6
    <3>4. longer[k] = places[k]
      BY <1>5
    <3> QED BY <3>2, <3>3, <3>4
  <2>2. b[n + 1] = w[m]
    BY <1>3, <1>5, <1>7
  <2> QED BY <1>7, <2>1, <2>2 DEF AppendedTo
<1>9. Append(a, w[m]) \in Seq(X) /\ AppendedTo(Append(a, w[m]), a, w[m], n)
  <2>1. n = Len(a) /\ w[m] \in X
    BY <1>1, <1>6
  <2> QED BY <2>1, AppendGrows
<1>10. b = Append(a, w[m])
  BY <1>3, <1>8, <1>9, AppendedAlike, Zenon
<1> QED BY <1>2, <1>6, <1>7, <1>10

\* One more element, which is taken or not.
LEMMA PickedNext ==
    ASSUME NEW X, NEW s \in Seq(X), NEW e \in X, NEW S \in SUBSET (1..Len(s))
    PROVE  /\ AtPlaces(Append(s, e), S) = AtPlaces(s, S)
           /\ AtPlaces(Append(s, e), S \cup {Len(s) + 1}) = Append(AtPlaces(s, S), e)
<1>1. PICK N \in Nat, w \in Seq(X) :
         /\ N = Len(s) /\ w = Append(s, e) /\ w = s \o <<e>> /\ Len(w) = N + 1 /\ w[N + 1] = e
  <2>1. Append(s, e) = s \o <<e>>
    BY AppendIsConcat
  <2>2. Append(s, e) \in Seq(X) /\ Len(Append(s, e)) = Len(s) + 1 /\ Append(s, e)[Len(s) + 1] = e
    BY AppendProperties
  <2>3. Len(s) \in Nat
    OBVIOUS
  <2> QED BY <2>1, <2>2, <2>3
<1>2. AtPlaces(w, S) = AtPlaces(s, S)
  <2>1. <<e>> \in Seq(X)
    OBVIOUS
  <2>2. AtPlaces(s \o <<e>>, S) = AtPlaces(s, S)
    BY <2>1, PickedLater
  <2> QED BY <1>1, <2>2
<1>3. N + 1 \in 1..Len(w) /\ S \in SUBSET (1..((N + 1) - 1))
  BY <1>1
<1>4. AtPlaces(w, S \cup {N + 1}) = Append(AtPlaces(w, S), w[N + 1])
  BY <1>3, PickedLast
<1> QED BY <1>1, <1>2, <1>4

\* A list that is longer by one.
LEMMA LongerByOne ==
    ASSUME NEW n \in Nat, NEW V, NEW f \in [1..n -> V], NEW g \in [1..(n + 1) -> V],
           \A k \in 1..n : g[k] = f[k]
    PROVE  g = Append(f, g[n + 1])
<1>1. f \in Seq(V) /\ Len(f) = n
  BY FunctionIsSeq
<1>2. g \in Seq(V) /\ Len(g) = n + 1
  <2>1. n + 1 \in Nat
    OBVIOUS
  <2> QED BY <2>1, FunctionIsSeq
<1>3. PICK v \in V : v = g[n + 1]
  <2>1. n + 1 \in 1..(n + 1)
    OBVIOUS
  <2> QED BY <2>1
<1>4. PICK h \in Seq(V) : h = Append(f, v)
  BY <1>1, <1>3
<1>5. AppendedTo(h, f, v, n)
  BY <1>1, <1>4, AppendGrows
<1>6. AppendedTo(g, f, v, n)
  BY <1>2, <1>3 DEF AppendedTo
<1>7. g = h
  BY <1>1, <1>2, <1>4, <1>5, <1>6, AppendedAlike, Zenon
<1> QED BY <1>3, <1>4, <1>7

=============================================================================
