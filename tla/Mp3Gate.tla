-------------------------------- MODULE Mp3Gate --------------------------------
(***************************************************************************)
(* The two ways through crates/rusty_mp3/src/lib.rs beside each other, as  *)
(* its test pipelined_decode_matches_serial_exactly runs them: one stream  *)
(* is pushed through Mp3Decoder, here in packets cut anywhere, and then    *)
(* given to decode_pipelined.                                              *)
(***************************************************************************)
EXTENDS Mp3Pipeline

VARIABLES           \* of the push decoder, as in Mp3Decoder
    sent, pc, queue,
    dpos,           \* its pos
    dreservoir,     \* its reservoir
    dstate,         \* its tstate
    pushEof,        \* its eof
    returned        \* its delivered

pushVars == <<sent, pc, dpos, dreservoir, dstate, queue, pushEof, returned>>

\* The push decoder; the pipeline is the module extended.
Push == INSTANCE Mp3Decoder WITH
    pos <- dpos, reservoir <- dreservoir, tstate <- dstate,
    eof <- pushEof, delivered <- returned

GateInit == PipelineInit /\ Push!Init

Serially == Push!Next /\ UNCHANGED <<entropyVars, channel, transformVars>>

Pipelined ==
    /\ pc = "done"
    /\ PipelineNext
    /\ UNCHANGED pushVars

GateNext == Serially \/ Pipelined

GateVars == <<pipelineVars, pushVars>>

\* One thread drives the push decoder; the operating system runs both threads
\* of the pipeline.
GateSpec ==
    /\ GateInit /\ [][GateNext]_GateVars
    /\ WF_GateVars(Serially)
    /\ WF_GateVars(pc = "done" /\ Entropy /\ UNCHANGED pushVars)
    /\ WF_GateVars(pc = "done" /\ Calling /\ UNCHANGED pushVars)

-----------------------------------------------------------------------------
(* Properties *)

\* Wherever the packets are cut, the push decoder does what the serial scan of
\* the whole stream does (Mp3Decoder: "packets may split/join frames").
PushSerialSpec == Push!SerialSpec

\* Between two packets nothing that is complete waits (Mp3Decoder::push).
PushNothingWaits == Push!NothingWaits

-----------------------------------------------------------------------------
(* Values of the constants for TLC *)

H(size, fits, good) == [size |-> size, fits |-> fits, good |-> good]

\* Frames of two sizes, one that does not decode, one that cannot be true.
MCHeaders == {H(2, TRUE, TRUE), H(3, TRUE, TRUE), H(2, TRUE, FALSE), H(3, FALSE, FALSE)}

=============================================================================
