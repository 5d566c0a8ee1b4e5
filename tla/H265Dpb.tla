-------------------------------- MODULE H265Dpb --------------------------------
(***************************************************************************)
(* The decoded picture buffer of the H.265 decoder (crates/rusty_h265/src/ *)
(* decoder.rs): which coded pictures are decoded, what the buffer keeps    *)
(* and the order in which pictures leave it.                               *)
(*                                                                         *)
(* A packet holds one coded picture or an end-of-sequence unit.  The       *)
(* encoder is the environment: `stream' is what it coded, and `Conforms'   *)
(* what H.265 asks of it - how far pictures are reordered, how many the    *)
(* buffer must hold and how long one may wait.  Some packets carry no      *)
(* timestamp, and some a slice header that does not parse.                 *)
(***************************************************************************)
EXTENDS Integers, Sequences, FiniteSets, FiniteSetsExt, SequencesExt

CONSTANTS
    MaxPocLsb,        \* max_poc_lsb
    Orderings,        \* the sps.ordering of the sequences
    LatencyCountsAll, \* how the encoder counts the latency of a picture
    StartPocs,        \* bound: picture order counts of clean and broken access pictures
    MaxReach,         \* bound: how far counts lie from that of the access picture before
    MaxCoded,         \* bound: coded pictures of the stream
    MaxOdd            \* bound: pictures out of the ordinary, see Oddity

\* A sequence without a limit on latency has latency 0.
NoLimit == 0

VARIABLES
    dpb,            \* dpb: the entries of the buffer
    cur,            \* cur: the picture being decoded, if any
    pictures,       \* stats.pictures > 0
    firstInSequence,\* first_in_sequence
    noRaslOutput,   \* no_rasl_output_flag
    prevTid0Poc,    \* prev_tid0_poc
    pendingPts,     \* pending_pts; 0 for None
    output,         \* output, drained by the wrapper after each packet
    eof,            \* the wrapper's eof
    stream,         \* history: the pictures coded, in decoding order
    odd             \* bound: the odd ones among them

vars == <<dpb, cur, pictures, firstInSequence, noRaslOutput, prevTid0Poc,
             pendingPts, output, eof, stream, odd>>

NoPicture == [id |-> 0]

Init ==
    /\ dpb = {} /\ cur = NoPicture
    /\ pictures = FALSE
    /\ firstInSequence = TRUE /\ noRaslOutput = TRUE
    /\ prevTid0Poc = 0 /\ pendingPts = 0
    /\ output = <<>>
    /\ eof = FALSE
    /\ stream = <<>> /\ odd = 0

-----------------------------------------------------------------------------
(* The buffer.  b.dpb is its content and b.out what has left it. *)

Waiting(d) == {e \in d : e.waits}

\* The place of entry e among those that wait, by picture order count.
Rank(d, e) == Cardinality({f \in Waiting(d) : f.poc <= e.poc})

\* bump(), n times: the lowest counts leave; an entry no longer referred to goes.
Bumped(b, n) ==
    LET left == {e \in Waiting(b.dpb) : Rank(b.dpb, e) <= n}
        nth(k) == CHOOSE e \in left : Rank(b.dpb, e) = k
    IN  [dpb |-> (b.dpb \ left) \union {[e EXCEPT !.waits = FALSE] : e \in {f \in left : f.ref}},
         out |-> b.out \o [k \in 1..n |-> [id |-> nth(k).id, pts |-> nth(k).pts]]]

LatencyHit(d, ord) ==
    ord.latency # NoLimit /\ \E e \in Waiting(d) : e.latency >= ord.latency

BugMustBump(d, ord, full) ==
    \/ Cardinality(Waiting(d)) >= ord.reorder
    \/ LatencyHit(d, ord)
    \/ full /\ Cardinality(d) >= ord.size /\ Waiting(d) # {}

\* Whether another picture has to leave; `full' when the size counts too.
MustBump(d, ord, full) ==
    \/ Cardinality(Waiting(d)) > ord.reorder
    \/ LatencyHit(d, ord)
    \/ full /\ Cardinality(d) >= ord.size /\ Waiting(d) # {}

\* The loop around bump().
BumpWhile(b, ord, full) ==
    LET enough == {n \in 0..Cardinality(Waiting(b.dpb)) : ~MustBump(Bumped(b, n).dpb, ord, full)}
    IN  Bumped(b, Min(enough))

\* flush_dpb_output(): all that waits leaves, and the buffer is emptied.
FlushOutput(b) == [dpb |-> {}, out |-> Bumped(b, Cardinality(Waiting(b.dpb))).out]

Purge(d) == {e \in d : e.waits \/ e.ref}

\* finish_picture(): the picture in flight enters the buffer.
FinishPicture ==
    IF cur = NoPicture THEN [dpb |-> dpb, out |-> output]
    ELSE LET older == IF cur.shown
                      THEN {IF e.waits THEN [e EXCEPT !.latency = @ + 1] ELSE e : e \in dpb}
                      ELSE dpb
             entry == [id |-> cur.id, poc |-> cur.poc, ref |-> TRUE,
                       waits |-> cur.shown, latency |-> 0, pts |-> cur.pts]
         IN  BumpWhile([dpb |-> older \union {entry}, out |-> output], cur.ord, FALSE)

-----------------------------------------------------------------------------
(* The coded pictures *)

Idr == "idr"
Bla == "bla"
Cra == "cra"
Rasl == "rasl"
Trail == "trail"
Irap == {Idr, Bla, Cra}

\* The picture order count from its low bits (8.3.1).
PocOf(lsb) ==
    LET prevLsb == prevTid0Poc % MaxPocLsb
        prevMsb == prevTid0Poc - prevLsb
        half == MaxPocLsb \div 2
        msb == CASE lsb < prevLsb /\ prevLsb - lsb >= half -> prevMsb + MaxPocLsb
                 [] lsb > prevLsb /\ lsb - prevLsb > half -> prevMsb - MaxPocLsb
                 [] OTHER -> prevMsb
    IN  msb + lsb

\* The reference marks that picture c leaves, and stand-ins for what it misses.
Marked(d, c) ==
    IF c.type = Idr THEN {[e EXCEPT !.ref = FALSE] : e \in d}
    ELSE LET kept == {[e EXCEPT !.ref = @ /\ e.poc \in c.refs] : e \in d}
             missing == {p \in c.refs : \A e \in kept : ~(e.ref /\ e.poc = p)}
         IN  IF c.type \in Irap THEN kept
             ELSE kept \union {[id |-> 0, poc |-> p, ref |-> TRUE, waits |-> FALSE,
                                latency |-> 0, pts |-> 0] : p \in missing}

\* Output and removal before picture c (C.5.2.2).
MakeRoom(b, c, starts) ==
    CASE starts /\ pictures' ->
           IF c.type = Cra \/ c.noPrior THEN [dpb |-> {}, out |-> b.out]
           ELSE FlushOutput(b)
      [] OTHER -> [BumpWhile([b EXCEPT !.dpb = Purge(@)], c.ord, TRUE) EXCEPT
                      !.dpb = IF Cardinality(@) >= c.ord.size THEN Purge(@) ELSE @]

BugPending(c) == IF c.stamped THEN Len(stream) + 1 ELSE cur.id

\* push_nal: a packet's timestamp waits for the next picture that is started.
Pending(c) == IF c.stamped THEN Len(stream) + 1 ELSE pendingPts

\* start_picture leaves out leading pictures of a start, and all before a start.
IsSkipped(c, norasl) ==
    \/ c.type = Rasl /\ norasl
    \/ ~c.type \in Irap /\ firstInSequence

\* push_slice and start_picture for the coded picture c, whose header may not parse.
PushPicture(c) ==
    LET done == FinishPicture
        norasl == IF c.type \in Irap THEN c.type \in {Idr, Bla} \/ firstInSequence
                  ELSE noRaslOutput
        starts == c.type \in Irap /\ norasl
        poc == IF starts THEN c.poc % MaxPocLsb ELSE PocOf(c.poc % MaxPocLsb)
        room == MakeRoom([done EXCEPT !.dpb = Marked(@, c)], c, starts)
    IN  /\ ~eof
        /\ pictures' = (pictures \/ cur # NoPicture)
        /\ stream' = Append(stream, c)
        /\ UNCHANGED eof
        /\ IF ~c.parses \/ IsSkipped(c, norasl)
           THEN /\ dpb' = done.dpb /\ output' = done.out
                /\ cur' = NoPicture
                /\ pendingPts' = Pending(c)
                /\ noRaslOutput' = IF c.parses THEN norasl ELSE noRaslOutput
                /\ UNCHANGED <<firstInSequence, prevTid0Poc>>
           ELSE /\ dpb' = room.dpb /\ output' = room.out
                /\ cur' = [id |-> Len(stream) + 1, poc |-> poc, shown |-> c.shown,
                           pts |-> Pending(c), ord |-> c.ord]
                /\ pendingPts' = 0
                /\ noRaslOutput' = norasl
                /\ firstInSequence' = FALSE
                /\ prevTid0Poc' = IF c.anchor THEN poc ELSE prevTid0Poc

\* An end-of-sequence unit: the next picture starts over.
EndOfSequence ==
    /\ ~eof /\ ~firstInSequence
    /\ dpb' = FinishPicture.dpb /\ output' = FinishPicture.out
    /\ cur' = NoPicture
    /\ pictures' = (pictures \/ cur # NoPicture)
    /\ firstInSequence' = TRUE
    /\ UNCHANGED <<noRaslOutput, prevTid0Poc, pendingPts, eof, stream, odd>>

BugLast == FinishPicture

\* What flush() leaves behind.
LastOut == FlushOutput(FinishPicture)

\* The input ends: flush() outputs everything.
Flush ==
    /\ ~eof
    /\ dpb' = LastOut.dpb /\ output' = LastOut.out
    /\ cur' = NoPicture
    /\ pictures' = (pictures \/ cur # NoPicture)
    /\ firstInSequence' = TRUE
    /\ eof' = TRUE
    /\ UNCHANGED <<noRaslOutput, prevTid0Poc, pendingPts, stream, odd>>

-----------------------------------------------------------------------------
(* The encoder *)

Coded == 1..Len(stream)

\* The pictures of the coded video sequence s, by their place in the stream.
Of(st, s) == {k \in DOMAIN st : st[k].seq = s}

Shown(st, s) == {k \in Of(st, s) : st[k].shown}

CurrentSeq == IF stream = <<>> THEN 0 ELSE Last(stream).seq

\* The sequence that picture n belongs to keeps within its ordering.
Conforms(st, n) ==
    LET s == st[n].seq
        ord == st[n].ord
        follow(k, set) == {j \in set : j < k /\ st[j].poc > st[k].poc}
        needed(k) ==    \* what the buffer holds beside k when k is decoded
            {j \in Of(st, s) : j < k /\ st[j].poc \in st[k].refs}
              \union {j \in Shown(st, s) : j < k /\ \E i \in Of(st, s) : i >= k /\ st[i].poc < st[j].poc}
        overtaking(j) == {k \in Shown(st, s) : k > j /\ st[k].poc < st[j].poc}
        counted(j, k) == {i \in Shown(st, s) : j < i /\ i < k}
    IN  /\ \A k \in Shown(st, s) : Cardinality(follow(k, Shown(st, s))) <= ord.reorder
        /\ \A k \in Of(st, s) : Cardinality(needed(k)) < ord.size
        /\ ord.latency # NoLimit =>
             \A j \in Shown(st, s) :
                /\ Cardinality(overtaking(j)) <= ord.latency
                /\ LatencyCountsAll => \A k \in overtaking(j) : Cardinality(counted(j, k)) < ord.latency

\* Ways in which a packet is out of the ordinary: without a timestamp, not for
\* output, damaged, with no_output_of_prior_pics, or an anchor out of its time.
Oddities ==
    {"none"} \union (IF odd < MaxOdd THEN {"unstamped", "hidden", "damaged", "dropping", "anchor"} ELSE {})

\* Picture c may be coded next.
MayFollow(c, how) ==
    /\ Len(stream) < MaxCoded
    /\ odd' = odd + (IF how = "none" THEN 0 ELSE 1)
    /\ Conforms(Append(stream, c), Len(stream) + 1)

\* What the next picture of the sequence may refer to.
Referable ==
    IF stream = <<>> THEN {} ELSE Last(stream).refs \union {Last(stream).poc}

InSeq == Of(stream, CurrentSeq)
Pocs(set) == {stream[k].poc : k \in set}
LastIrap == LET iraps == {k \in InSeq : stream[k].type \in Irap} IN IF iraps = {} THEN 0 ELSE Max(iraps)
LastAnchorPoc == stream[Max({k \in InSeq : stream[k].anchor})].poc

\* The counts within MaxReach of the last random access point.
Reach == LET base == IF LastIrap = 0 THEN 0 ELSE stream[LastIrap].poc
         IN  (base - MaxReach)..(base + MaxReach)

Anchors == Pocs({k \in InSeq : stream[k].anchor})

\* Leading pictures still follow their random access point.
OnlyLeadingSince == \A k \in InSeq : k > LastIrap => stream[k].type = Rasl

\* Bound: the sequences of a stream share an ordering.
NextOrderings == IF stream = <<>> \/ CurrentSeq = 0 THEN Orderings ELSE {Last(stream).ord}

Picture(seq, type, poc, anchor, refs, ord, how) ==
    [seq |-> seq, type |-> type, poc |-> poc, anchor |-> anchor, refs |-> refs, ord |-> ord,
     shown |-> how # "hidden", stamped |-> how # "unstamped",
     parses |-> how # "damaged", noPrior |-> how = "dropping"]

\* A picture that starts a coded video sequence.
CodeStart(type, poc, ord, how) ==
    LET c == Picture(CurrentSeq + 1, type, poc, TRUE, {}, ord, how)
    IN  /\ type = Cra => firstInSequence
        /\ how \in {"none", "unstamped", "dropping"}
        /\ MayFollow(c, how)
        /\ PushPicture(c)

\* A picture within the sequence: a random access point, or one led by it, or after it.
CodeWithin(type, poc, refs, how) ==
    LET newest == \A k \in InSeq : stream[k].poc < poc
        anchor == type # Rasl /\ newest = (how # "anchor")
        c == Picture(CurrentSeq, type, poc, anchor, refs, Last(stream).ord, how)
    IN  /\ poc \notin Pocs(InSeq)
        /\ how # "dropping"
        /\ poc - LastAnchorPoc < MaxPocLsb \div 2 /\ LastAnchorPoc - poc < MaxPocLsb \div 2
        /\ CASE type = Cra -> newest /\ how \in {"none", "unstamped"}
             [] type = Rasl -> /\ stream[LastIrap].type # Idr
                               /\ OnlyLeadingSince
                               /\ poc < stream[LastIrap].poc
                               /\ how # "anchor"
                               /\ \A k \in InSeq : k < LastIrap /\ stream[k].type \in Irap => stream[k].poc < poc
             [] OTHER -> /\ poc > stream[LastIrap].poc
                         /\ how = "damaged" => ~anchor
        /\ MayFollow(c, how)
        /\ PushPicture(c)

\* The stream was joined in the middle: a picture before any random access point.
CodeBefore(how) ==
    LET c == Picture(0, Trail, 0, FALSE, {}, CHOOSE o \in Orderings : TRUE, how)
    IN  /\ stream = <<>>
        /\ how \in {"none", "unstamped"}
        /\ MayFollow(c, how)
        /\ PushPicture(c)

Next ==
    \/ \E type \in {Bla, Cra}, poc \in StartPocs, ord \in NextOrderings, how \in Oddities :
          CodeStart(type, poc, ord, how)
    \/ \E ord \in NextOrderings, how \in Oddities : CodeStart(Idr, 0, ord, how)
    \/ /\ LastIrap > 0 /\ ~firstInSequence
       /\ \E type \in {Cra, Rasl, Trail}, poc \in Reach, how \in Oddities,
             refs \in {Referable, Referable \cap Anchors} :
             CodeWithin(type, poc, refs, how)
    \/ \E how \in Oddities : CodeBefore(how)
    \/ EndOfSequence
    \/ Flush

Spec == Init /\ [][Next]_vars

-----------------------------------------------------------------------------
(* Properties *)

\* "Next frame in output order": pictures leave sequence by sequence and by
\* picture order count, over every reordering that a conforming stream may use,
\* with pictures missing and counts that wrap - none is put out while one that
\* is displayed before it is still to be decoded.
LeavesInDisplayOrder ==
    \A j, k \in DOMAIN output : j < k =>
        LET p == stream[output[j].id]  q == stream[output[k].id]
        IN  p.seq < q.seq \/ (p.seq = q.seq /\ p.poc < q.poc)

\* A leading picture of a random access point that started a sequence: the
\* pictures it refers to are not there, and it is not decoded.
Undecodable(k) ==
    \/ ~stream[k].parses
    \/ stream[k].seq = 0
    \/ stream[k].type = Rasl /\ \A j \in Of(stream, stream[k].seq) :
          j < k /\ stream[j].type \in Irap => j = Min(Of(stream, stream[k].seq))

\* The pictures waiting when this one's sequence ended were to be dropped.
Dropped(k) ==
    \E j \in Coded : /\ stream[j].seq = stream[k].seq + 1
                     /\ j = Min(Of(stream, stream[j].seq))
                     /\ stream[j].type = Cra \/ stream[j].noPrior

\* Every picture that is for output leaves once: whatever is bumped, purged or
\* flushed, only those leave out that cannot be decoded or that the stream drops.
EveryPictureLeaves ==
    eof => \A k \in Coded :
        LET times == Cardinality({j \in DOMAIN output : output[j].id = k})
        IN  /\ times <= 1
            /\ stream[k].shown /\ ~Undecodable(k) /\ ~Dropped(k) => times = 1
            /\ ~stream[k].shown \/ Undecodable(k) => times = 0

\* A picture whose packet has a timestamp leaves with that timestamp, also
\* when pictures before it were skipped or could not be started, and one whose
\* packet has none never takes that of a picture that is shown itself.
OwnStamp ==
    \A j \in DOMAIN output :
        LET k == output[j].id  t == output[j].pts
        IN  IF stream[k].stamped THEN t = k
            ELSE t = 0 \/ Undecodable(t)

=============================================================================
