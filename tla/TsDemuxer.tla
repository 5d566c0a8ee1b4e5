------------------------------ MODULE TsDemuxer -------------------------------
(***************************************************************************)
(* The MPEG-TS demuxer (crates/rff-format-ts/src/lib.rs): TS packets in,   *)
(* streams from PAT and PMT, packets reassembled from the PES pieces of    *)
(* each PID.                                                               *)
(*                                                                         *)
(* A TS packet is [pid, unit, piece]: a table, or one piece of an          *)
(* elementary unit.  Its payload_unit_start indicator is piece = 1.  What  *)
(* the PES header in piece 1 says of the unit is in the constant PesOf.    *)
(***************************************************************************)
EXTENDS Integers, Sequences, FiniteSets

CONSTANTS
    Pids,           \* PIDs of the elementary streams in the PMT
    Video,          \* those with H.264 or HEVC
    HeaderLimit,    \* packets read_header takes to find the streams (10,000)
    DimsLimit,      \* and then to find the dimensions (20,000)
    None            \* Option::None

PAT == 0
PMT == 4096

ASSUME DemuxAssumption ==
    /\ Pids \subseteq Nat \ {PAT, PMT} /\ IsFiniteSet(Pids) /\ Video \subseteq Pids
    /\ HeaderLimit \in Nat /\ DimsLimit \in Nat

VARIABLES
    phase,          \* "tables", "dims" (read_header), "packets", "done"
                    \* (read_packet), or the error: "no streams", "lost sync"
    budget,         \* packets the loop of read_header may still take
    havePmt,        \* pmt_pid is known
    built,          \* streams is not empty
    sized,          \* the streams with dimensions
    partial,        \* partial: the unit in progress of each PID
    ready,          \* ready
    out             \* the packets read_packet returned

demuxVars == <<phase, budget, havePmt, built, sized, partial, ready, out>>

DemuxInit ==
    /\ phase = "tables"
    /\ budget = HeaderLimit
    /\ havePmt = FALSE
    /\ built = FALSE
    /\ sized = {}
    /\ partial = [p \in Pids |-> None]
    /\ ready = <<>>
    /\ out = <<>>

-----------------------------------------------------------------------------
(* Reassembly.  A unit in progress is [pid, pts, dts, data, expect], its   *)
(* data the pieces so far.                                                 *)

\* What start_pes reads from the head of a unit: absent stamps are None, and
\* expect = 0 means "ends at the next start".  sps: the unit holds an SPS.
PesOf(unit, x) ==
    [pid |-> x.pid, pts |-> unit[x.unit].pts, dts |-> unit[x.unit].dts,
     data |-> <<x>>, expect |-> unit[x.unit].expect]

\* emit: the dts defaults to the pts.
AfterPacket(pes) ==
    [data |-> pes.data, pid |-> pes.pid, pts |-> pes.pts,
     dts |-> IF pes.dts = None THEN pes.pts ELSE pes.dts]

BugFinalised(x) == <<>>

\* A new start finalises the unit in progress of its PID.
Finalised(x) ==
    IF x.piece = 1 /\ partial[x.pid] # None THEN <<AfterPacket(partial[x.pid])>> ELSE <<>>

BugGrown(unit, x) ==
    IF x.piece = 1 \/ partial[x.pid] = None THEN PesOf(unit, x)
    ELSE [partial[x.pid] EXCEPT !.data = Append(@, x)]

\* The unit in progress after x; without a start there is nothing to append to.
Grown(unit, x) ==
    IF x.piece = 1 THEN PesOf(unit, x)
    ELSE IF partial[x.pid] = None THEN None
    ELSE [partial[x.pid] EXCEPT !.data = Append(@, x)]

\* A unit of declared length is complete at that length.
Complete(pes) == pes # None /\ pes.expect # 0 /\ Len(pes.data) >= pes.expect

\* feed_pes.
FeedPes(unit, x) ==
    LET pes == Grown(unit, x)
    IN  /\ ready' = ready \o Finalised(x)
                          \o (IF Complete(pes) THEN <<AfterPacket(pes)>> ELSE <<>>)
        /\ partial' = [partial EXCEPT ![x.pid] = IF Complete(pes) THEN None ELSE pes]
        /\ UNCHANGED <<havePmt, built>>

\* consume: tables, then the streams they announced.
Consume(unit, x) ==
    CASE x.pid = PAT -> havePmt' = TRUE /\ UNCHANGED <<built, partial, ready>>
      [] x.pid = PMT -> built' = (built \/ havePmt) /\ UNCHANGED <<havePmt, partial, ready>>
      [] x.pid \in Pids /\ built -> FeedPes(unit, x)
      [] OTHER -> UNCHANGED <<havePmt, built, partial, ready>>

-----------------------------------------------------------------------------
(* read_header *)

ReadTables(unit, x) ==
    /\ phase = "tables" /\ budget > 0
    /\ Consume(unit, x)
    /\ budget' = IF built' THEN DimsLimit ELSE budget - 1
    /\ phase' = IF built' THEN "dims" ELSE "tables"
    /\ UNCHANGED <<sized, out>>

\* The loop ends without streams, at its bound or at the end of the input.
TablesEnd(eof) ==
    /\ phase = "tables" /\ (budget = 0 \/ eof)
    /\ phase' = "no streams"
    /\ UNCHANGED <<budget, havePmt, built, sized, partial, ready, out>>

HasSps(unit, data) == \E k \in DOMAIN data : data[k].piece = 1 /\ unit[data[k].unit].sps

SizedBy(unit, units) == {u.pid : u \in {v \in units : v.pid \in Video /\ HasSps(unit, v.data)}}

Queued == {ready[k] : k \in DOMAIN ready}

\* What the scan of `ready` has found before the next packet is read.
SizedNow(unit) == sized \cup SizedBy(unit, Queued)

ReadDims(unit, x) ==
    /\ phase = "dims" /\ budget > 0
    /\ ~(Video \subseteq SizedNow(unit))
    /\ Consume(unit, x)
    /\ sized' = SizedNow(unit)
    /\ budget' = budget - 1
    /\ UNCHANGED <<phase, out>>

UnitsInProgress == {partial[p] : p \in {q \in Pids : partial[q] # None}}

\* Every video stream has its dimensions; or the loop ends, and the units in
\* progress are looked into.  Everything consumed stays queued.
HeaderDone(unit, eof) ==
    /\ phase = "dims"
    /\ \/ /\ budget > 0 /\ Video \subseteq SizedNow(unit)
          /\ sized' = SizedNow(unit)
       \/ /\ budget > 0 /\ eof /\ ~(Video \subseteq SizedNow(unit))
          /\ sized' = SizedNow(unit) \cup SizedBy(unit, UnitsInProgress)
       \/ /\ budget = 0
          /\ sized' = sized \cup SizedBy(unit, UnitsInProgress)
    /\ phase' = "packets"
    /\ UNCHANGED <<budget, havePmt, built, partial, ready, out>>

-----------------------------------------------------------------------------
(* read_packet *)

HandOn ==
    /\ phase = "packets" /\ ready # <<>>
    /\ out' = Append(out, Head(ready))
    /\ ready' = Tail(ready)
    /\ UNCHANGED <<phase, budget, havePmt, built, sized, partial>>

ReadOn(unit, x) ==
    /\ phase = "packets" /\ ready = <<>>
    /\ Consume(unit, x)
    /\ UNCHANGED <<phase, budget, sized, out>>

\* The units in progress at the end, in the order of the hash map.
Flushed(order) == [k \in DOMAIN order |-> AfterPacket(partial[order[k]])]

\* The end of the input: what is in progress is complete.
InputEnds ==
    LET open == {p \in Pids : partial[p] # None}
    IN  /\ phase = "packets" /\ ready = <<>>
        /\ \E order \in [1..Cardinality(open) -> open] :
               /\ \A p \in open : \E k \in DOMAIN order : order[k] = p
               /\ ready' = Flushed(order)
        /\ partial' = [p \in Pids |-> None]
        /\ phase' = "flushed"
        /\ UNCHANGED <<budget, havePmt, built, sized, out>>

\* With self.eof, what is ready goes out, then Error::Eof.
HandOnLast ==
    /\ phase = "flushed"
    /\ IF ready = <<>> THEN phase' = "done" /\ UNCHANGED <<ready, out>>
       ELSE /\ out' = Append(out, Head(ready)) /\ ready' = Tail(ready)
            /\ UNCHANGED phase
    /\ UNCHANGED <<budget, havePmt, built, sized, partial>>

\* next_ts is called.
Asks(unit) ==
    \/ phase = "tables" /\ budget > 0
    \/ phase = "dims" /\ budget > 0 /\ ~(Video \subseteq SizedNow(unit))
    \/ phase = "packets" /\ ready = <<>>

\* It finds no sync byte within a packet of the place it should be at, which
\* is an error of read_header or read_packet.
LoseSync(unit) ==
    /\ Asks(unit)
    /\ phase' = "lost sync"
    /\ UNCHANGED <<budget, havePmt, built, sized, partial, ready, out>>

=============================================================================
