------------------------------ MODULE Mp3Decoder -------------------------------
(***************************************************************************)
(* The streaming decoder Mp3Decoder (crates/rusty_mp3/src/lib.rs), its     *)
(* adapter (crates/rff-codec-mp3/src/lib.rs) and the receive loop that     *)
(* drives it (crates/rff/src/transcode.rs, process_packet and finish): the *)
(* stream comes in packets cut anywhere, and whole frames are decoded as   *)
(* soon as they are complete.                                              *)
(*                                                                         *)
(* Positions count from the start of the stream: the decoder's buffer is   *)
(* what was pushed and lies beyond the last drain.                         *)
(***************************************************************************)
EXTENDS Mp3Bytes

VARIABLES
    bytes,          \* the stream
    sent,           \* bytes pushed so far
    pc,             \* "demux", "parse", "pull" or "done"
    pos,            \* start of buf plus the scan's position in it
    reservoir,      \* state.reservoir
    tstate,         \* state.transform, as the work it has seen
    queue,          \* queue
    eof,            \* eof
    delivered       \* frames the caller has received

vars == <<bytes, sent, pc, pos, reservoir, tstate, queue, eof, delivered>>

Reservoir == Seq(0..(StreamLen - 1))

TypeOK ==
    /\ bytes \in Streams
    /\ sent \in 0..StreamLen /\ pos \in 0..sent
    /\ pc \in {"demux", "parse", "pull", "done"}
    /\ reservoir \in Reservoir
    /\ tstate \in Seq(Reservoir)
    /\ queue \in Seq(Seq(Reservoir)) /\ delivered \in Seq(Seq(Reservoir))
    /\ eof \in BOOLEAN

Init ==
    /\ bytes \in Streams
    /\ sent = 0 /\ pos = 0
    /\ pc = "demux"
    /\ reservoir = <<>> /\ tstate = <<>>
    /\ queue = <<>> /\ delivered = <<>>
    /\ eof = FALSE

\* send_packet: the next n bytes are appended and parse_frames runs.
Push(n) ==
    /\ pc = "demux"
    /\ sent + n <= StreamLen
    /\ sent' = sent + n
    /\ pc' = "parse"
    /\ UNCHANGED <<bytes, pos, reservoir, tstate, queue, eof, delivered>>

Resync ==
    /\ pc = "parse"
    /\ Resyncs(bytes, pos, sent)
    /\ pos' = pos + 1
    /\ UNCHANGED <<bytes, sent, pc, reservoir, tstate, queue, eof, delivered>>

\* decode_frame fails on the side information: nothing is queued.
BadFrame ==
    /\ pc = "parse"
    /\ Frames(bytes, pos, sent) /\ ~bytes[pos].good
    /\ pos' = pos + bytes[pos].size
    /\ UNCHANGED <<bytes, sent, pc, reservoir, tstate, queue, eof, delivered>>

\* decode_frame: entropy stage, then transform stage, then the queue.
GoodFrame ==
    /\ pc = "parse"
    /\ Frames(bytes, pos, sent) /\ bytes[pos].good
    /\ pos' = pos + bytes[pos].size
    /\ reservoir' = Append(reservoir, pos)
    /\ tstate' = Append(tstate, Work(reservoir, pos))
    /\ queue' = Append(queue, tstate')
    /\ UNCHANGED <<bytes, sent, pc, eof, delivered>>

BugDrained == sent

\* buf.drain(0..pos): what was not scanned stays for the next push.
Drained == pos

\* The scan stops, for want of bytes, and the loop is left.
ParseEnds ==
    /\ pc = "parse"
    /\ Stops(bytes, pos, sent)
    /\ pos' = Drained
    /\ pc' = "pull"
    /\ UNCHANGED <<bytes, sent, reservoir, tstate, queue, eof, delivered>>

BugAfterFrame == "demux"

\* The loop asks again after every frame it gets.
AfterFrame == "pull"

\* receive_frame returns a frame.
Deliver ==
    /\ pc = "pull"
    /\ queue # <<>>
    /\ delivered' = Append(delivered, Head(queue))
    /\ queue' = Tail(queue)
    /\ pc' = AfterFrame
    /\ UNCHANGED <<bytes, sent, pos, reservoir, tstate, eof>>

\* Again sends the loop back to the demuxer, Eof ends it.
AfterDrain == IF eof THEN "done" ELSE "demux"

Hungry ==
    /\ pc = "pull"
    /\ queue = <<>>
    /\ pc' = AfterDrain
    /\ UNCHANGED <<bytes, sent, pos, reservoir, tstate, queue, eof, delivered>>

\* The input ends: flush(), and the last frames are pulled.
Flush ==
    /\ pc = "demux"
    /\ sent = StreamLen
    /\ eof' = TRUE
    /\ pc' = "pull"
    /\ UNCHANGED <<bytes, sent, pos, reservoir, tstate, queue, delivered>>

Next ==
    \/ \E n \in 1..StreamLen : Push(n)
    \/ Resync \/ BadFrame \/ GoodFrame \/ ParseEnds
    \/ Deliver \/ Hungry \/ Flush

\* One thread, which takes its next step.
Spec == Init /\ [][Next]_vars /\ WF_vars(Next)

-----------------------------------------------------------------------------
(* Properties *)

\* "packets may split/join frames - the decoder frame-syncs internally"
\* (Mp3Decoder): wherever the packets are cut, the frames that come out are
\* those of the whole stream, decoded with the same state.
Serial == INSTANCE Mp3Serial WITH
    out <- delivered \o queue,
    done <- pc = "done"
SerialSpec == Serial!Spec

\* "any whole frames they complete are decoded and queued" (push), and pulled:
\* while the demuxer is asked for more, what is left of the input is less than
\* a frame, and nothing waits in the queue.
NothingWaits ==
    pc = "demux" => queue = <<>> /\ Stops(bytes, pos, sent)

=============================================================================
