------------------------------- MODULE UdpLink --------------------------------
(***************************************************************************)
(* udp:// as a byte transport (crates/rff-io/src/udp.rs): UdpWriter packs  *)
(* what is written into datagrams of Pack units (7 * 188 bytes, that is    *)
(* seven TS packets), UdpReader serves the payloads as one stream and      *)
(* turns silence into its end.  Between them is a network that loses       *)
(* datagrams, delivers them more than once, and lets up to Window later    *)
(* ones overtake one.                                                      *)
(*                                                                         *)
(* The writer's bytes come in whole TS packets, so one element of a        *)
(* sequence stands for 188 bytes.                                          *)
(***************************************************************************)
EXTENDS Integers, Sequences, SequencesExt

CONSTANTS
    Pack,           \* TS_DATAGRAM
    Copies,         \* how often the network may deliver a datagram
    Window,         \* how many later datagrams may overtake one
    Garbage         \* bytes that no datagram held

ASSUME LinkAssumption ==
    /\ Pack \in Nat \ {0} /\ Window \in Nat
    /\ Copies \subseteq Nat /\ Copies # {}

VARIABLES
    pending,        \* UdpWriter.pending
    wire,           \* network: the datagrams sent, and their copies to come
    rbuf,           \* UdpReader.buf from pos on
    silent,         \* UdpReader.eof
    got             \* history: the datagrams received, by their number

linkVars == <<pending, wire, rbuf, silent, got>>

LinkInit ==
    /\ pending = <<>>
    /\ wire = <<>>
    /\ rbuf = <<>>
    /\ silent = FALSE
    /\ got = <<>>

-----------------------------------------------------------------------------
(* Writer *)

\* socket.send: the network decides what becomes of the datagram.
Send(data) == \E n \in Copies : wire' = Append(wire, [data |-> data, left |-> n])

\* The first n datagrams of what is pending are sent and drained.
SendFirst(n, data) ==
    /\ \E copies \in [1..n -> Copies] :
          wire' = wire \o [k \in 1..n |-> [data |-> SubSeq(data, (k - 1) * Pack + 1, k * Pack),
                                          left |-> copies[k]]]
    /\ pending' = SubSeq(data, n * Pack + 1, Len(data))

\* write(): every full datagram is sent.
Write(x) ==
    LET all == Append(pending, x)
    IN  SendFirst(Len(all) \div Pack, all)

\* write() when a send fails: the bytes are pending, and stay so.
WriteFails(x) ==
    LET all == Append(pending, x)
    IN  \E n \in 0..(Len(all) \div Pack - 1) : SendFirst(n, all)

BugFlush == UNCHANGED <<pending, wire>>

\* flush(): what is pending goes out as one datagram.
Flush ==
    IF pending = <<>> THEN UNCHANGED <<pending, wire>>
    ELSE Send(pending) /\ pending' = <<>>

\* drop: flush again, and never mind the result.
DropWriter == Flush \/ (pending' = <<>> /\ UNCHANGED wire)

-----------------------------------------------------------------------------
(* Reader.  The recv of a refill has one of three outcomes. *)

Refills == rbuf = <<>> /\ ~silent

CanArrive(i) ==
    /\ wire[i].left > 0
    /\ \A j \in 1..(i - 1 - Window) : wire[j].left = 0

\* Ok(n): the datagram is buffered whole.
Recv(i) ==
    /\ Refills /\ CanArrive(i)
    /\ wire' = [wire EXCEPT ![i].left = @ - 1]
    /\ rbuf' = wire[i].data
    /\ got' = Append(got, i)
    /\ UNCHANGED <<pending, silent>>

BugTimeOut == Refills /\ UNCHANGED linkVars

\* WouldBlock or TimedOut: the idle timeout is the end of the stream.
TimeOut ==
    /\ Refills
    /\ silent' = TRUE
    /\ UNCHANGED <<pending, wire, rbuf, got>>

\* Any other error: the buffer was resized to 64 KB for the recv and is not
\* truncated again, and pos is where the last datagram ended.  The error
\* itself is for the caller: read_exact tries again after Interrupted.
RecvFails ==
    /\ Refills
    /\ rbuf' = <<Garbage>>
    /\ UNCHANGED <<pending, wire, silent, got>>

Received == FlattenSeq([k \in DOMAIN got |-> wire[got[k]].data])

=============================================================================
