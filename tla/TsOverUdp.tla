------------------------------ MODULE TsOverUdp -------------------------------
(***************************************************************************)
(* MPEG-TS over UDP, from muxer to demuxer: TsMuxer                        *)
(* (crates/rff-format-ts/src/mux.rs) writes the packets of a job to a      *)
(* UdpWriter, and the TsDemuxer of another job reads a UdpReader.          *)
(*                                                                         *)
(* The muxer's packets are its `units`, of `size` TS packets each.         *)
(***************************************************************************)
EXTENDS UdpLink, TsDemuxer, Ordering

CONSTANTS
    Programs,       \* the sequences of units to choose the job's from
    StampMod,       \* 2^33, the range of a PES timestamp
    MaxRetries      \* bound: how many sends are interrupted

Stamps == Int \cup {None}

\* A packet given to the muxer.
Units == [pid : Pids, pts : Stamps, dts : Stamps, size : Nat \ {0}, sps : BOOLEAN]

\* None stands for no timestamp and for no unit in progress, and is neither.
ASSUME UnitAssumption ==
    /\ StampMod \in Nat \ {0} /\ MaxRetries \in Nat /\ None \notin Int
    /\ Programs \subseteq Seq(Units)
    /\ None \notin [pid : Pids, pts : Int, dts : Stamps, expect : Nat,
                    data : Seq([pid : Nat, unit : Nat, piece : Nat])]

VARIABLES
    units,          \* the packets given to the muxer, in order
    muxer,          \* "open", "closed", or "failed"
    written,        \* how many TS packets the muxer has written
    handed          \* history: what UdpWriter::write was given, by place in Output

tsVars == <<linkVars, demuxVars, units, muxer, written, handed>>

TsTypeOK ==
    /\ phase \in {"tables", "dims", "packets", "flushed", "done", "no streams", "lost sync"}
    /\ budget \in Nat
    /\ {havePmt, built, silent} \subseteq BOOLEAN
    /\ sized \subseteq Video
    /\ muxer \in {"open", "closed", "failed"}
    /\ Len(handed) \in written..(written + MaxRetries)
    /\ Len(pending) <= Pack + MaxRetries
    /\ \A i \in DOMAIN wire : wire[i].data # <<>> /\ Len(wire[i].data) <= Pack + MaxRetries
    /\ \A p \in Pids : partial[p] # None => partial[p].pid = p /\ ~Complete(partial[p])

-----------------------------------------------------------------------------
(* TsMuxer *)

Ts(pid, unit, piece) == [pid |-> pid, unit |-> unit, piece |-> piece]

\* write_packet for unit u: its PES, split into TS packets.
TsPackets(u) == [k \in 1..units[u].size |-> Ts(units[u].pid, u, k)]

\* All that the muxer writes: the tables once, in write_header, and the units.
Output == <<Ts(PAT, 0, 1), Ts(PMT, 0, 1)>> \o FlattenSeq([u \in DOMAIN units |-> TsPackets(u)])

\* The PES header has a pts in any case, modulo 2^33, and a dts when there is
\* one that differs.
PtsField(u) == (IF units[u].pts = None THEN 0 ELSE units[u].pts) % StampMod

DtsField(u) ==
    IF units[u].dts = None \/ units[u].dts = units[u].pts THEN None
    ELSE units[u].dts % StampMod

\* PES_packet_length: unbounded for video, otherwise the length.  Units of
\* other streams are below 64 KB here; the code writes 0xFFFF for a longer one.
LengthField(u) == IF units[u].pid \in Video THEN 0 ELSE units[u].size

\* The PES headers, as the demuxer reads them.
Pes == [u \in DOMAIN units |->
           [pts |-> PtsField(u), dts |-> DtsField(u),
            expect |-> LengthField(u), sps |-> units[u].sps]]

\* write_all gives the transport the next TS packet.
HandOver ==
    /\ muxer = "open" /\ written < Len(Output)
    /\ handed' = Append(handed, written + 1)
    /\ UNCHANGED <<demuxVars, rbuf, silent, got, units>>

\* emit: one more TS packet is written to the transport.
WriteTs ==
    /\ HandOver
    /\ Write(Output[written + 1])
    /\ written' = written + 1
    /\ UNCHANGED muxer

\* The send is interrupted after the packet was made pending, and write_all will
\* call write with it once more.
WriteTsInterrupted ==
    /\ HandOver /\ Len(handed) < written + MaxRetries
    /\ WriteFails(Output[written + 1])
    /\ UNCHANGED <<muxer, written>>

\* The send fails otherwise, and with it the job; what is pending is sent on drop.
WriteTsFails ==
    /\ HandOver
    /\ WriteFails(Output[written + 1])
    /\ written' = written + 1
    /\ muxer' = "failed"

\* write_trailer: flush.
WriteTrailer ==
    /\ muxer = "open" /\ written = Len(Output)
    /\ \/ Flush /\ muxer' = "closed"
       \/ pending # <<>> /\ muxer' = "failed" /\ UNCHANGED <<pending, wire>>
    /\ UNCHANGED <<demuxVars, rbuf, silent, got, units, written, handed>>

Drop ==
    /\ muxer = "failed" /\ pending # <<>>
    /\ DropWriter
    /\ UNCHANGED <<demuxVars, rbuf, silent, got, units, muxer, written, handed>>

-----------------------------------------------------------------------------
(* TsDemuxer over UdpReader *)

SenderUnchanged == UNCHANGED <<units, muxer, written, handed>>

\* next_ts has a TS packet: read_exact takes it from the buffered datagram.
NextTs ==
    /\ rbuf # <<>> /\ Head(rbuf) # Garbage
    /\ rbuf' = Tail(rbuf)
    /\ LET x == Head(rbuf)
       IN  ReadTables(Pes, x) \/ ReadDims(Pes, x) \/ ReadOn(Pes, x)
    /\ UNCHANGED <<pending, wire, silent, got>>
    /\ SenderUnchanged

\* There is no sync byte in what the buffer holds.
NextTsLost ==
    /\ rbuf # <<>> /\ Head(rbuf) = Garbage
    /\ LoseSync(Pes)
    /\ UNCHANGED linkVars
    /\ SenderUnchanged

\* read_exact asks for more than is buffered.
Refill ==
    /\ Asks(Pes)
    /\ (\E i \in DOMAIN wire : Recv(i)) \/ TimeOut
    /\ UNCHANGED demuxVars
    /\ SenderUnchanged

\* The recv is interrupted, after which read_exact asks again.
Interrupted ==
    /\ Asks(Pes)
    /\ RecvFails
    /\ UNCHANGED demuxVars
    /\ SenderUnchanged

\* At the end of the input (now and at every later call) and at the bounds.
AtEnd == rbuf = <<>> /\ silent

\* recv failed with an error that read_exact passes on: next_ts calls it the
\* end of the input, and the buffer is served when it is asked again.
RecvError ==
    /\ Asks(Pes)
    /\ RecvFails
    /\ TablesEnd(TRUE) \/ HeaderDone(Pes, TRUE) \/ InputEnds
    /\ SenderUnchanged

DemuxerStep ==
    /\ TablesEnd(AtEnd) \/ HeaderDone(Pes, AtEnd) \/ HandOn \/ (AtEnd /\ InputEnds) \/ HandOnLast
    /\ UNCHANGED linkVars
    /\ SenderUnchanged

TsInit ==
    /\ LinkInit /\ DemuxInit
    /\ units \in Programs
    /\ muxer = "open"
    /\ written = 0
    /\ handed = <<>>

Receiver == NextTs \/ NextTsLost \/ Refill \/ DemuxerStep

TsNext ==
    \/ WriteTs \/ WriteTsInterrupted \/ WriteTsFails \/ WriteTrailer \/ Drop
    \/ Receiver \/ Interrupted \/ RecvError

\* The receiver's thread runs, and silence lasts for the idle timeout at last:
\* nothing but a datagram or the timeout has to wake it.
TsSpec == TsInit /\ [][TsNext]_tsVars /\ WF_tsVars(Receiver)

-----------------------------------------------------------------------------
(* Properties *)

Whole(pkt) ==
    LET u == pkt.data[1].unit
        stamp == IF units[u].pts = None THEN 0 ELSE units[u].pts % StampMod
    IN  /\ pkt.data = TsPackets(u)
        /\ pkt.pid = units[u].pid
        /\ pkt.pts = stamp
        /\ pkt.dts = IF units[u].dts = None THEN stamp ELSE units[u].dts % StampMod

\* What has arrived for a stream since its PMT, in order of arrival.
ArrivedFor(p) ==
    LET all == Received
        Announced(k) == \E j \in 1..(k - 1) : /\ all[j].pid = PMT
                                              /\ \E i \in 1..(j - 1) : all[i].pid = PAT
    IN  AtPlaces(all, {k \in DOMAIN all : all[k].pid = p /\ Announced(k)})

\* The units of which, from place k on, every piece arrived in order, and for a
\* unit of undeclared length nothing more before the next head or the end.
IntactAt(in, k) ==
    LET n == units[in[k].unit].size
        end == k + n - 1
    IN  /\ end <= Len(in) /\ SubSeq(in, k, end) = TsPackets(in[k].unit)
        /\ in[k].pid \in Video => end = Len(in) \/ in[end + 1].piece = 1

IntactUnits(in) ==
    LET intact == AtPlaces(in, {k \in DOMAIN in : IntactAt(in, k)})
    IN  [n \in DOMAIN intact |-> intact[n].unit]

WholeOut(p) ==
    LET whole == AtPlaces(out, {k \in DOMAIN out : out[k].pid = p /\ Whole(out[k])})
    IN  [n \in DOMAIN whole |-> whole[n].data[1].unit]

\* When read_packet has come to the end: the packets of each stream that came
\* through undamaged are exactly those that were returned whole, with the
\* timestamps given to the muxer (modulo the clock's range), in the order they
\* arrived.  Nothing that read_header consumed in search of dimensions is
\* missing, and nothing comes twice.
IntactUnitsComeOut ==
    phase = "done" =>
        \A p \in Pids : WholeOut(p) = IntactUnits(ArrivedFor(p))

GotInOrder == \A j, k \in DOMAIN got : j < k => got[j] < got[k]

GotUnit(u, piece) == \E k \in DOMAIN got : \E j \in DOMAIN wire[got[k]].data :
                        wire[got[k]].data[j] = Ts(units[u].pid, u, piece)

\* The demuxer does not look at continuity counters, so that a damaged unit is
\* returned like any other.  While datagrams arrive in the order sent it is at
\* least the unit that its timestamps say, with pieces missing (or there twice,
\* after an interrupted send), and the pieces of a later unit are only spliced
\* to it when the head of that unit was lost.
SplicesOnlyHeadless ==
    GotInOrder => \A n \in DOMAIN out :
        LET data == out[n].data
            u == data[1].unit
        IN  /\ data[1].piece = 1 /\ out[n].pts = PtsField(u)
            /\ \A j, k \in DOMAIN data : j < k =>
                  \/ data[j].unit < data[k].unit
                  \/ data[j].unit = data[k].unit /\ data[j].piece <= data[k].piece
            /\ \A k \in DOMAIN data : data[k].unit # u => ~GotUnit(data[k].unit, 1)

\* "serves received datagram payloads as a byte stream" (udp.rs:4): what the
\* demuxer reads is what arrived, and so it never loses the sync bytes.
ServesWhatArrived == phase # "lost sync"

SentData == FlattenSeq([i \in DOMAIN wire |-> wire[i].data])

Handed == [n \in DOMAIN handed |-> Output[handed[n]]]

\* What UdpWriter::write is given goes out in datagrams, in order and nothing
\* else: write_trailer flushes, so that at the end every TS packet of the job
\* has gone out, and after a failed send what was pending goes out on drop or
\* not at all.  A packet is handed over, and goes out, once more for each send
\* that was interrupted meanwhile.
SentIsWritten ==
    /\ muxer = "open" => SentData \o pending = Handed
    /\ muxer = "closed" =>
          /\ pending = <<>> /\ SentData = Handed
          /\ {handed[n] : n \in DOMAIN handed} = DOMAIN Output
    /\ muxer = "failed" => \/ SentData \o pending = Handed
                           \/ pending = <<>> /\ IsPrefix(SentData, Handed)
    /\ \A m, n \in DOMAIN handed : m < n => handed[m] <= handed[n]

\* "an idle timeout (default 10 s) turns silence into EOF - that is what lets a
\* one-shot capture terminate" (udp.rs:5).
CaptureEnds == <>(phase \in {"done", "no streams", "lost sync"})

=============================================================================
