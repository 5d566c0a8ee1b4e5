------------------------------- MODULE RtpH264 --------------------------------
(***************************************************************************)
(* H264Depayloader (crates/rff-io/src/rtp.rs): RFC 6184 packets are        *)
(* assembled into access units, one record each.                           *)
(*                                                                         *)
(* Bytes are abstracted to where they come from.  A NAL unit is the        *)
(* sequence of the packets its pieces were taken from, an access unit the  *)
(* sequence of its NAL units.  A STAP-A packet is one piece.               *)
(***************************************************************************)
EXTENDS RtpReceiver, Functions

CONSTANTS
    Stream,         \* the sender's packets: timestamp, marker and part
    MaxNals         \* MAX_FRAME, in NAL units of the access unit

Parts == {"whole", "start", "mid", "end", "empty", "short", "other"}

VARIABLES
    au,             \* au: the access unit under assembly
    auTs,           \* au_ts
    haveAu,         \* have_au
    frag,           \* frag: the fragments so far
    fragOk,         \* frag_ok
    dropped,        \* RtpStats.dropped
    records         \* the records written: [ts, nals]

fragVars == <<frag, fragOk>>
depayVars == <<au, auTs, haveAu, fragVars>>

Init ==
    /\ NetInit
    /\ au = <<>> /\ auTs = 0 /\ haveAu = FALSE
    /\ frag = <<>> /\ fragOk = FALSE
    /\ dropped = 0
    /\ records = <<>>

\* flush(): what the records are once the unit `nals` is closed.
Closed(open, ts, nals) ==
    IF open /\ nals # <<>> THEN Append(records, [ts |-> ts, nals |-> nals]) ELSE records

\* A gap breaks the fragmented NAL unit in progress.
BugBroken(i) == FALSE

Broken(i) == fragOk /\ Gap(SeqOf(i)) # 0

BugFragment(i, ok) ==
    CASE Stream[i].part = "end" -> <<>>
      [] Stream[i].part \in {"start", "mid"} /\ (ok \/ Stream[i].part = "start") -> Append(frag, i)
      [] OTHER -> IF ok THEN frag ELSE <<>>

\* The fragments after packet i; `ok` says whether one was in progress.
Fragment(i, ok) ==
    CASE Stream[i].part = "start" -> <<i>>
      [] Stream[i].part = "mid" /\ ok -> Append(frag, i)
      [] Stream[i].part = "end" -> <<>>
      [] OTHER -> IF ok THEN frag ELSE <<>>

\* The NAL unit that packet i completes, as a sequence of none or one.
Completes(i, ok) ==
    CASE Stream[i].part = "whole" -> << <<i>> >>
      [] Stream[i].part = "end" /\ ok -> << Append(frag, i) >>
      [] OTHER -> <<>>

\* A unit of another timestamp is closed before packet i is looked at.
BugTurns(i) == FALSE

Turns(i) == haveAu /\ Stream[i].ts # auTs

TooBig(nals) == Len(nals) > MaxNals

\* push(): the packet's NAL unit joins the access unit, which is closed by the
\* marker.  An oversized unit is thrown away instead.  A packet without payload
\* does not open a unit, and it and a fragment without its second header byte
\* ("short") return before the marker is looked at.
Push(i) ==
    LET ok == fragOk /\ ~Broken(i)
        before == IF Turns(i) \/ ~haveAu THEN <<>> ELSE au
        nals == before \o Completes(i, ok)
        ts == IF Turns(i) \/ ~haveAu THEN Stream[i].ts ELSE auTs
        written == IF Turns(i) THEN Closed(TRUE, auTs, au) ELSE records
        marked == Stream[i].marker /\ Stream[i].part # "short"
        closes == marked \/ TooBig(nals)
    IN  /\ frag' = Fragment(i, ok)
        /\ fragOk' = CASE Stream[i].part = "start" -> TRUE
                       [] Stream[i].part = "end" -> FALSE
                       [] OTHER -> ok
        /\ dropped' = dropped + (IF Broken(i) THEN 1 ELSE 0) + (IF TooBig(nals) THEN 1 ELSE 0)
        /\ IF Stream[i].part = "empty"
           THEN /\ au' = before
                /\ haveAu' = (haveAu /\ ~Turns(i))
                /\ auTs' = auTs
                /\ records' = written
           ELSE /\ au' = IF closes THEN <<>> ELSE nals
                /\ haveAu' = ~closes
                /\ auTs' = ts
                /\ records' = IF ~TooBig(nals) /\ marked /\ nals # <<>>
                              THEN Append(written, [ts |-> ts, nals |-> nals])
                              ELSE written

\* A datagram arrives and is handed to push().
Receive(i) == Arrive(i) /\ Push(i)

\* finish(): the last unit is closed.
Finish ==
    /\ records' = Closed(haveAu, auTs, au)
    /\ au' = <<>> /\ haveAu' = FALSE
    /\ UNCHANGED <<netVars, auTs, fragVars, dropped>>

-----------------------------------------------------------------------------
(* Properties *)

\* The NAL units of the sender: single packets, and runs from a start fragment
\* to the next end fragment.
SenderNals ==
    {<<i>> : i \in {j \in Sent : Stream[j].part = "whole"}} \cup
    {[k \in 1..(r[2] - r[1] + 1) |-> r[1] + k - 1] :
        r \in {x \in Sent \X Sent :
                  /\ x[1] < x[2]
                  /\ Stream[x[1]].part = "start" /\ Stream[x[2]].part = "end"
                  /\ \A j \in (x[1] + 1)..(x[2] - 1) : Stream[j].part = "mid"}}

\* "Loss is reported, not guessed": whatever is lost, a NAL unit that comes
\* out is one the sender sent, with no fragment missing or foreign, under the
\* timestamp it was sent with.
NalsAreWhole ==
    \A k \in 1..Len(records) : \A n \in 1..Len(records[k].nals) :
        LET nal == records[k].nals[n]
        IN  /\ nal \in SenderNals
            /\ Stream[nal[1]].ts = records[k].ts

\* What should come out for a timestamp: its NAL units all of whose packets
\* arrived, in the order sent.
ArrivedNals(ts) ==
    {nal \in SenderNals : Stream[nal[1]].ts = ts /\ \A k \in DOMAIN nal : nal[k] \in ArrivedSet}

Emitted(ts) ==
    UNION {Range(records[k].nals) : k \in {j \in DOMAIN records : records[j].ts = ts}}

\* Once the stream has been closed, each frame has come out once, with every
\* one of its NAL units that arrived, and in the order sent: a lost marker or a
\* lost fragment costs nothing but itself.  Only of a frame over the size limit
\* is there less.
NothingElseIsLost ==
    /\ \A j, k \in 1..Len(records) : j < k =>
           /\ records[j].ts # records[k].ts
           /\ records[j].nals[1][1] < records[k].nals[1][1]
    /\ \A ts \in {Stream[i].ts : i \in Sent} :
           Cardinality(ArrivedNals(ts)) <= MaxNals => Emitted(ts) = ArrivedNals(ts)
    /\ \A k \in DOMAIN records : \A m, n \in DOMAIN records[k].nals :
           m < n => records[k].nals[m][1] < records[k].nals[n][1]

\* Packets that complete a NAL unit of a timestamp have arrived so often.
Completions(ts) ==
    Cardinality({k \in DOMAIN arrived : /\ Stream[arrived[k]].ts = ts
                                        /\ Stream[arrived[k]].part \in {"whole", "end"}})

\* Whatever the network repeats or shuffles around it, a NAL unit whose packets
\* arrive one right after the other comes out under its timestamp, if its frame
\* cannot have grown over the limit.
Resynchronises ==
    \A nal \in SenderNals :
        LET ts == Stream[nal[1]].ts
        IN  RunOf(nal) /\ Completions(ts) <= MaxNals => nal \in Emitted(ts)

=============================================================================
