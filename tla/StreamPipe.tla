------------------------------ MODULE StreamPipe ------------------------------
(***************************************************************************)
(* What the transcode path of one stream promises, without its stages:     *)
(* frames are accepted for encoding in some order, their packets reach the *)
(* muxer in that same order, each with its own frame's timestamp, and the  *)
(* stream ends only when nothing accepted is still on its way.  A failure  *)
(* may cut the stream short at any point.                                  *)
(***************************************************************************)
EXTENDS Naturals, Sequences

VARIABLES
    accepted,       \* the frames handed to the encoder, in order
    muxed,          \* the packets written to the muxer, as frames, in order
    outcome         \* "running", "done" or "failed"

vars == <<accepted, muxed, outcome>>

Init ==
    /\ accepted = <<>>
    /\ muxed = <<>>
    /\ outcome = "running"

\* Some frame, whichever, is accepted after the others.
Accept ==
    /\ outcome = "running"
    /\ Len(accepted') = Len(accepted) + 1
    /\ \A i \in 1..Len(accepted) : accepted'[i] = accepted[i]
    /\ UNCHANGED <<muxed, outcome>>

\* The packet of the oldest frame not yet muxed, under that frame's timestamp.
Mux ==
    /\ outcome = "running"
    /\ Len(muxed) < Len(accepted)
    /\ muxed' = Append(muxed, accepted[Len(muxed) + 1])
    /\ UNCHANGED <<accepted, outcome>>

Finish ==
    /\ outcome = "running"
    /\ Len(muxed) = Len(accepted)
    /\ outcome' = "done"
    /\ UNCHANGED <<accepted, muxed>>

Fail ==
    /\ outcome = "running"
    /\ outcome' = "failed"
    /\ UNCHANGED <<accepted, muxed>>

Next == Accept \/ Mux \/ Finish \/ Fail

Spec == Init /\ [][Next]_vars

=============================================================================
