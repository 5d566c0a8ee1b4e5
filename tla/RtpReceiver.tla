----------------------------- MODULE RtpReceiver ------------------------------
(***************************************************************************)
(* What the RTP depayloaders share (crates/rff-io/src/rtp.rs): the UDP     *)
(* network they receive from, and the sequence-number bookkeeping.         *)
(*                                                                         *)
(* The sender's packets are numbered 1..NPackets in the order sent.  The   *)
(* network may lose a packet, deliver it more than once, and deliver it    *)
(* after up to Window packets that were sent later.                        *)
(***************************************************************************)
EXTENDS Integers, Sequences, FiniteSets

CONSTANTS
    NPackets,       \* bound: packets the sender sends
    Lossy,          \* the network may lose packets
    MaxCopies,      \* it delivers a packet at most so often
    Window,         \* how many later packets may overtake one (0: in order)
    SeqSpace,       \* size of the sequence-number space (2^16 in the code)
    FirstSeq,       \* the sender's first sequence number
    None            \* Option::None

Sent == 1..NPackets

VARIABLES
    left,           \* network: copies of each packet still to arrive
    arrived,        \* history: the packets that arrived, in order of arrival
    lastSeq,        \* last_seq
    lost            \* RtpStats.lost

netVars == <<left, arrived, lastSeq, lost>>

\* Never so many packets in a row are lost that half the sequence numbers are.
ShortBursts ==
    \A i, j \in Sent : j - i > SeqSpace \div 2 => \E k \in (i + 1)..(j - 1) : left[k] > 0

\* Which packets are lost and which come twice is fixed from the start.
NetInit ==
    /\ left \in [Sent -> (IF Lossy THEN 0 ELSE 1)..MaxCopies] /\ ShortBursts
    /\ arrived = <<>>
    /\ lastSeq = None
    /\ lost = 0

SeqOf(i) == (FirstSeq + i - 1) % SeqSpace

BugGap(seq) == IF lastSeq = None THEN 0 ELSE seq - lastSeq - 1

\* seq_gap: packets missing before seq; more than half the space is not a loss.
Gap(seq) ==
    LET g == (seq - lastSeq - 1) % SeqSpace
    IN  IF lastSeq = None THEN 0
        ELSE IF g >= SeqSpace \div 2 THEN 0 ELSE g

CanArrive(i) ==
    /\ left[i] > 0
    /\ \A j \in 1..(i - 1 - Window) : left[j] = 0

\* Packet i arrives and is counted.
Arrive(i) ==
    /\ CanArrive(i)
    /\ left' = [left EXCEPT ![i] = @ - 1]
    /\ arrived' = Append(arrived, i)
    /\ lost' = lost + Gap(SeqOf(i))
    /\ lastSeq' = SeqOf(i)

ArrivedSet == {arrived[k] : k \in 1..Len(arrived)}

\* Packets sent between the first and the last that arrived, and not seen.
Missing ==
    {i \in Sent : /\ i \notin ArrivedSet
                  /\ \E j \in ArrivedSet : j < i
                  /\ \E j \in ArrivedSet : i < j}

\* RtpStats.lost is what it says, "packets missing by sequence number".
LostIsMissing == lost = Cardinality(Missing)

\* The packets arrived in the order sent, each once or several times in a row.
InOrder == \A k \in 2..Len(arrived) : arrived[k - 1] <= arrived[k]

\* The packets arrived one right after the other, with no other between.
RunOf(packets) ==
    \E k \in 0..(Len(arrived) - Len(packets)) :
        [n \in 1..Len(packets) |-> arrived[k + n]] = packets

=============================================================================
