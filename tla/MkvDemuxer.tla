------------------------------ MODULE MkvDemuxer ------------------------------
(***************************************************************************)
(* The Matroska demuxer (crates/rff-format-mkv/src/lib.rs) over a file     *)
(* that a muxer of MkvMuxer wrote, to the end or not: elements are read    *)
(* one after the other and never sought.  In these files a cluster of      *)
(* unknown size is the one being written when the file was cut off, and    *)
(* goes on to the end of the file.                                         *)
(*                                                                         *)
(* A header read too early (`pending`) is one not read yet.                *)
(***************************************************************************)
EXTENDS MkvMuxer
LOCAL INSTANCE FiniteSetsExt
LOCAL INSTANCE SequencesExt

VARIABLES
    opened,     \* "no", "yes", "refused" or "eof"
    pos,        \* the elements read
    segEnd,     \* seg_end: where the segment ends, or Unknown
    within,     \* cluster: the cluster being read, [end, ts]
    got         \* history: the packets read

readVars == <<opened, pos, segEnd, within, got>>

Outside == [end |-> 0, ts |-> 0]
Level1 == {"ebml", "segment", "seekhead", "info", "tracks", "cluster", "cues"}

DemuxInit ==
    /\ opened = "no"
    /\ pos = 0
    /\ segEnd = Unknown
    /\ within = Outside
    /\ got = <<>>

Elems == seg.elems
EndIn(i) == IF Elems[i].size = Unknown THEN Unknown ELSE i + Elems[i].size

\* Whatever comes first, to the end of the segment at most.
Bounded(end, outer) == IF end = Unknown \/ outer = Unknown THEN end ELSE Min({end, outer})

\* parse_headers: everything up to the first cluster.  Without tracks there is
\* nothing to read.
OpenFile ==
    /\ stage \in {"done", "failed", "cut"}
    /\ opened = "no"
    /\ \E end \in {IF Len(Elems) < SegmentAt THEN 0 ELSE EndIn(SegmentAt)} :
          LET last == IF end = Unknown THEN Len(Elems) ELSE Min({end, Len(Elems)})
              first == Min({last} \cup {i - 1 : i \in {j \in 1..last : Elems[j].id = "cluster"}})
          IN  /\ segEnd' = end
              /\ pos' = first
              /\ opened' = IF \E i \in 1..first : Elems[i].id = "tracks" THEN "yes" ELSE "refused"
    /\ UNCHANGED <<within, got>>

-----------------------------------------------------------------------------
(* The turns of next_packet *)

ClusterOver == within # Outside /\ within.end # Unknown /\ pos >= within.end

SegmentOver == segEnd # Unknown /\ pos >= segEnd

\* There is an element, and all of it.
HasElement == pos < Len(Elems) /\ Elems[pos + 1] # Torn

LeaveCluster ==
    /\ opened = "yes" /\ ClusterOver
    /\ within' = Outside
    /\ UNCHANGED <<opened, pos, segEnd, got>>

\* The end of the segment or of the file.  A block that is there in part is
\* dropped, and a cluster that should go on is not looked for behind the end.
EndOfFile ==
    /\ opened = "yes" /\ ~ClusterOver
    /\ SegmentOver \/ ~HasElement
    /\ opened' = "eof"
    /\ UNCHANGED <<pos, segEnd, within, got>>

\* The next element is at hand.
At(ids) ==
    /\ opened = "yes" /\ ~ClusterOver /\ ~SegmentOver /\ HasElement
    /\ Elems[pos + 1].id \in ids

EnterCluster ==
    /\ At({"cluster"}) /\ within = Outside
    /\ within' = [end |-> Bounded(EndIn(pos + 1), segEnd), ts |-> 0]
    /\ pos' = pos + 1
    /\ UNCHANGED <<opened, segEnd, got>>

PassElement ==
    /\ At(Level1 \ {"cluster"}) /\ within = Outside
    /\ pos' = pos + 1
    /\ UNCHANGED <<opened, segEnd, within, got>>

ReadTimestamp ==
    /\ At({"timestamp"}) /\ within # Outside
    /\ within' = [within EXCEPT !.ts = Elems[pos + 1].ts]
    /\ pos' = pos + 1
    /\ UNCHANGED <<opened, segEnd, got>>

BugParseBlock(b) == [track |-> b.track, index |-> b.index, key |-> b.key, pts |-> b.rel]

ParseBlock(b) == [track |-> b.track, index |-> b.index, key |-> b.key, pts |-> within.ts + b.rel]

ReadBlock ==
    /\ At({"block"}) /\ within # Outside
    /\ got' = Append(got, ParseBlock(Elems[pos + 1]))
    /\ pos' = pos + 1
    /\ UNCHANGED <<opened, segEnd, within>>

Demux ==
    \/ OpenFile \/ LeaveCluster \/ EndOfFile \/ EnterCluster \/ PassElement
    \/ ReadTimestamp \/ ReadBlock

=============================================================================
