------------------------------ MODULE Mp3Pipeline ------------------------------
(***************************************************************************)
(* decode_pipelined (crates/rusty_mp3/src/lib.rs): a thread finds the      *)
(* frames and does their entropy decoding, the calling thread transforms   *)
(* them into PCM, and a bounded channel is between them.  Nothing else is  *)
(* shared: the reservoir belongs to the one thread, the overlap and the    *)
(* synthesis filter to the other.                                          *)
(***************************************************************************)
EXTENDS Mp3Bytes

CONSTANT Depth      \* capacity of the channel (32 in the code)

ASSUME DepthAssumption == Depth \in Nat \ {0}

VARIABLES
    bytes,          \* the stream
    pos,            \* entropy thread: pos
    reservoir,      \* entropy thread: state.reservoir
    sending,        \* entropy thread: the work it is in tx.send with, or <<>>
    closed,         \* the entropy thread has ended and dropped tx
    channel,        \* the channel
    tstate,         \* calling thread: tstate, as the work it has seen
    pcm,            \* calling thread: out
    done            \* the scope has ended

entropyVars == <<pos, reservoir, sending, closed>>
transformVars == <<tstate, pcm, done>>
pipelineVars == <<bytes, entropyVars, channel, transformVars>>

Reservoir == Seq(0..(StreamLen - 1))

TypeOK ==
    /\ bytes \in Streams
    /\ pos \in 0..StreamLen
    /\ reservoir \in Reservoir
    /\ sending \in Reservoir
    /\ closed \in BOOLEAN /\ done \in BOOLEAN
    /\ channel \in Seq(Reservoir) /\ Len(channel) <= Depth
    /\ tstate \in Seq(Reservoir)
    /\ pcm \in Seq(Seq(Reservoir))

PipelineInit ==
    /\ bytes \in Streams
    /\ pos = 0
    /\ reservoir = <<>> /\ sending = <<>>
    /\ closed = FALSE /\ done = FALSE
    /\ channel = <<>>
    /\ tstate = <<>> /\ pcm = <<>>

-----------------------------------------------------------------------------
(* The entropy thread *)

Resync ==
    /\ ~closed /\ sending = <<>>
    /\ Resyncs(bytes, pos, StreamLen)
    /\ pos' = pos + 1
    /\ UNCHANGED <<bytes, reservoir, sending, closed, channel, transformVars>>

\* decode_frame_entropy fails: the frame is skipped.
BadFrame ==
    /\ ~closed /\ sending = <<>>
    /\ Frames(bytes, pos, StreamLen) /\ ~bytes[pos].good
    /\ pos' = pos + bytes[pos].size
    /\ UNCHANGED <<bytes, reservoir, sending, closed, channel, transformVars>>

\* The frame's work is ready to be sent; the scan moves on when it is sent.
GoodFrame ==
    /\ ~closed /\ sending = <<>>
    /\ Frames(bytes, pos, StreamLen) /\ bytes[pos].good
    /\ reservoir' = Append(reservoir, pos)
    /\ sending' = Work(reservoir, pos)
    /\ UNCHANGED <<bytes, pos, closed, channel, transformVars>>

\* tx.send blocks while the channel is full.
Room == Len(channel) < Depth

BugSent == IF Len(channel) < Depth - 1 THEN Append(channel, sending) ELSE channel

Sent == Append(channel, sending)

Send ==
    /\ sending # <<>>
    /\ Room
    /\ channel' = Sent
    /\ sending' = <<>>
    /\ pos' = pos + bytes[pos].size
    /\ UNCHANGED <<bytes, reservoir, closed, transformVars>>

BugHangsUp == FALSE

\* The loop is left; the thread ends, and with it goes tx.
HangsUp == Stops(bytes, pos, StreamLen)

Close ==
    /\ ~closed /\ sending = <<>>
    /\ HangsUp
    /\ closed' = TRUE
    /\ UNCHANGED <<bytes, pos, reservoir, sending, channel, transformVars>>

-----------------------------------------------------------------------------
(* The calling thread *)

\* The work at the head of the channel becomes PCM.
Transform ==
    /\ ~done
    /\ channel # <<>>
    /\ tstate' = Append(tstate, Head(channel))
    /\ pcm' = Append(pcm, tstate')
    /\ channel' = Tail(channel)
    /\ UNCHANGED <<bytes, entropyVars, done>>

\* `for ... in rx` ends when the channel is empty and its sender gone.
Finish ==
    /\ ~done
    /\ channel = <<>> /\ closed
    /\ done' = TRUE
    /\ UNCHANGED <<bytes, entropyVars, channel, tstate, pcm>>

Entropy == Resync \/ BadFrame \/ GoodFrame \/ Send \/ Close
Calling == Transform \/ Finish
PipelineNext == Entropy \/ Calling

\* The operating system runs both threads.
PipelineSpec ==
    /\ PipelineInit /\ [][PipelineNext]_pipelineVars
    /\ WF_pipelineVars(Entropy) /\ WF_pipelineVars(Calling)

-----------------------------------------------------------------------------
(* Properties *)

\* The reservoir without the frame that is still to be sent.
SentReservoir ==
    IF sending = <<>> THEN reservoir ELSE SubSeq(reservoir, 1, Len(reservoir) - 1)

\* The work in c, decoded in turn after the state t.
Ahead(t, c) == [i \in 1..Len(c) |-> t \o SubSeq(c, 1, i)]

\* "Output is identical to the serial path" (decode_pipelined): however the
\* threads interleave, what has come out and what is in the channel, decoded
\* in turn, is what the serial decoder has decoded when it has come as far.
Serial == INSTANCE Mp3Serial WITH
    reservoir <- SentReservoir,
    out <- pcm \o Ahead(tstate, channel)
SerialSpec == Serial!Spec

\* Neither thread waits for the other for ever, whatever the channel's depth.
Terminates == <>done

=============================================================================
