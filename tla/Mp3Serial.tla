------------------------------- MODULE Mp3Serial -------------------------------
(***************************************************************************)
(* What decoding an MP3 stream means: the complete stream is scanned from  *)
(* front to back, and every frame found is decoded with the state that the *)
(* frames before it left behind.                                           *)
(*                                                                         *)
(* The bit reservoir stands for the frames that went into it, and the PCM  *)
(* of a frame for everything it depends on: the work of all frames up to   *)
(* it, which is what the overlap and the synthesis filter have seen.       *)
(***************************************************************************)
EXTENDS Mp3Bytes

VARIABLES
    bytes,          \* the stream
    pos,            \* where the scan stands
    reservoir,      \* the frames in the bit reservoir
    out,            \* the PCM of the frames decoded
    done

vars == <<bytes, pos, reservoir, out, done>>

Init ==
    /\ bytes \in Streams
    /\ pos = 0
    /\ reservoir = <<>>
    /\ out = <<>>
    /\ done = FALSE

Resync ==
    /\ ~done
    /\ Resyncs(bytes, pos, StreamLen)
    /\ pos' = pos + 1
    /\ UNCHANGED <<bytes, reservoir, out, done>>

\* A frame without usable side information leaves no trace.
BadFrame ==
    /\ ~done
    /\ Frames(bytes, pos, StreamLen) /\ ~bytes[pos].good
    /\ pos' = pos + bytes[pos].size
    /\ UNCHANGED <<bytes, reservoir, out, done>>

Decoded(work) ==
    Append(out, Append(IF out = <<>> THEN <<>> ELSE out[Len(out)], work))

GoodFrame ==
    /\ ~done
    /\ Frames(bytes, pos, StreamLen) /\ bytes[pos].good
    /\ pos' = pos + bytes[pos].size
    /\ reservoir' = Append(reservoir, pos)
    /\ out' = Decoded(Work(reservoir, pos))
    /\ UNCHANGED <<bytes, done>>

Finish ==
    /\ ~done
    /\ Stops(bytes, pos, StreamLen)
    /\ done' = TRUE
    /\ UNCHANGED <<bytes, pos, reservoir, out>>

Next == Resync \/ BadFrame \/ GoodFrame \/ Finish

Spec == Init /\ [][Next]_vars

=============================================================================
