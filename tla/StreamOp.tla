------------------------------- MODULE StreamOp --------------------------------
(***************************************************************************)
(* What becomes of a selected stream (crates/rff/src/transcode.rs, enum    *)
(* StreamOp, made by build_op): its packets are copied, or decoded and     *)
(* encoded anew.  Both keep to the same trim window.                       *)
(***************************************************************************)
EXTENDS TranscodeOp

CONSTANTS
    CopyWindows,        \* the copies: [isVideo, trimming, start, end]
    CopyPts,            \* bound: timestamps of a copied stream are 0..CopyPts
    CopyPackets         \* bound: its packets

ASSUME CopyAssumption ==
    /\ CopyPts \in Nat /\ CopyPackets \in Nat
    /\ \A w \in CopyWindows :
          /\ {w.isVideo, w.trimming} \subseteq BOOLEAN
          /\ w.start \in Nat /\ w.end \in Nat \cup {None}

VARIABLES
    op,                 \* "Transcode" or "Copy"
    window,             \* the window of the copy
    started, sent, out  \* of CopyOp

\* With the fields of w for the constants of CopyOp.
Copy(w) == INSTANCE CopyOp WITH
    IsVideo <- w.isVideo, Trimming <- w.trimming, StartTicks <- w.start, EndTicks <- w.end,
    MaxPts <- CopyPts, MaxPackets <- CopyPackets

copyVars == <<window, started, sent, out>>
opVars == <<op, vars, copyVars>>

OpInit ==
    /\ op \in {"Transcode", "Copy"}
    /\ setup \in IF op = "Transcode" THEN Setups ELSE {CHOOSE s \in Setups : TRUE}
    /\ window \in IF op = "Copy" THEN CopyWindows ELSE {CHOOSE w \in CopyWindows : TRUE}
    /\ Init /\ \A w \in CopyWindows : w = window => Copy(w)!Init

Transcodes == op = "Transcode" /\ Next /\ UNCHANGED <<op, copyVars>>

Copies ==
    /\ op = "Copy"
    /\ \E w \in CopyWindows : w = window /\ Copy(w)!Next
    /\ UNCHANGED <<op, window, vars>>

OpNext == Transcodes \/ Copies

\* One thread runs the loops of a transcoded stream and nothing blocks it: it
\* takes its next step.
OpSpec == OpInit /\ [][OpNext]_opVars /\ WF_opVars(Transcodes)

-----------------------------------------------------------------------------
(* Properties *)

\* A copy is the window's packets from its first keyframe on (CopyOp).
CutIsExact == \A w \in CopyWindows : w = window => Copy(w)!CutIsExact

\* A copy splits no group of pictures that is presented in coding order (CopyOp).
NoGopIsSplitInOrder == \A w \in CopyWindows : w = window => Copy(w)!NoGopIsSplitInOrder

\* A transcoded stream ends, whatever its codecs hold back (TranscodeOp).
TranscodeEnds == op = "Transcode" => Terminates

-----------------------------------------------------------------------------
(* Values of the constants for TLC *)

Plain == [isVideo |-> TRUE, trimming |-> FALSE, trimStart |-> 0, trimEnd |-> None,
          cfr |-> FALSE, slotTicks |-> 1, limit |-> None,
          resamples |-> FALSE, atrim |-> FALSE]

\* Video in a window and under a limit; at a constant rate; all of it at once;
\* audio in a window that ends or not, resampled; audio through a filter.
MCSetups == {
    [Plain EXCEPT !.trimming = TRUE, !.trimStart = 1, !.trimEnd = 3, !.limit = 2],
    [Plain EXCEPT !.cfr = TRUE, !.slotTicks = 2],
    [Plain EXCEPT !.cfr = TRUE, !.slotTicks = 2, !.trimming = TRUE,
                  !.trimStart = 1, !.trimEnd = 4, !.limit = 2],
    [Plain EXCEPT !.isVideo = FALSE, !.trimming = TRUE, !.trimStart = 1,
                  !.trimEnd = 2, !.resamples = TRUE],
    [Plain EXCEPT !.isVideo = FALSE, !.trimming = TRUE, !.trimStart = 1],
    [Plain EXCEPT !.isVideo = FALSE, !.atrim = TRUE, !.resamples = TRUE]}

\* Copies of a part of a video stream, of all from some time on, of all of it;
\* and of a part of an audio stream.
MCCopyWindows == {
    [isVideo |-> TRUE, trimming |-> TRUE, start |-> 1, end |-> 3],
    [isVideo |-> TRUE, trimming |-> TRUE, start |-> 2, end |-> None],
    [isVideo |-> TRUE, trimming |-> FALSE, start |-> 0, end |-> None],
    [isVideo |-> FALSE, trimming |-> TRUE, start |-> 1, end |-> 2]}

=============================================================================
