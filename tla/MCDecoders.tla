------------------------------ MODULE MCDecoders -------------------------------
(***************************************************************************)
(* The decoders that hold something back: those of video (VideoDecoder),   *)
(* and the two ways through the MP3 decoder (Mp3Gate).                     *)
(***************************************************************************)
EXTENDS VideoDecoder, Mp3Gate

VARIABLE medium     \* of the stream to decode: "video" or "audio"

MCVars == <<medium, vars, GateVars>>

\* The decoders of the other medium lie idle.
MCInit ==
    /\ medium \in {"video", "audio"}
    /\ Init /\ GateInit
    /\ medium = "video" => bytes = [k \in DOMAIN bytes |-> Junk]
    /\ medium = "audio" => codec = "vp9"

VideoStep == medium = "video" /\ Next /\ UNCHANGED <<medium, GateVars>>
AudioStep(step) == medium = "audio" /\ step /\ UNCHANGED <<medium, vars>>

MCNext == VideoStep \/ AudioStep(GateNext)

\* The fairness of GateSpec.
MCSpec ==
    /\ MCInit /\ [][MCNext]_MCVars
    /\ WF_MCVars(AudioStep(Serially))
    /\ WF_MCVars(AudioStep(pc = "done" /\ Entropy /\ UNCHANGED pushVars))
    /\ WF_MCVars(AudioStep(pc = "done" /\ Calling /\ UNCHANGED pushVars))

\* Neither thread of the MP3 pipeline waits for the other for ever (Mp3Pipeline).
MP3Terminates == medium = "audio" => Terminates

=============================================================================
