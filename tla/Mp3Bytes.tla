------------------------------- MODULE Mp3Bytes --------------------------------
(***************************************************************************)
(* What both MP3 decoders of crates/rusty_mp3/src/lib.rs read of their     *)
(* input: the frame synchronisation of Mp3Decoder::parse_frames and of     *)
(* decode_pipelined, as predicates over a position and the bytes present.  *)
(*                                                                         *)
(* At each position of the stream there is junk or something that parses   *)
(* as a frame header.  Of that header the scan uses the frame's size,      *)
(* whether the side information fits into it, and whether the side         *)
(* information can be parsed.                                              *)
(***************************************************************************)
EXTENDS Integers, Sequences

CONSTANTS
    HeaderLen,      \* bytes of a frame header (4 in the code)
    StreamLen,      \* bound: bytes of the stream
    Headers         \* the headers considered: size, fits, good

Junk == [size |-> 0, fits |-> FALSE, good |-> FALSE]

ASSUME HeaderAssumption ==
    /\ HeaderLen \in Nat \ {0} /\ StreamLen \in Nat
    /\ Headers \subseteq [size : Nat, fits : BOOLEAN, good : BOOLEAN]
    /\ \A h \in Headers : h.size >= HeaderLen

Streams == [0..(StreamLen - 1) -> Headers \cup {Junk}]

\* With n bytes present, the scan can look for a header at pos.
Visible(pos, n) == pos + HeaderLen <= n

\* The frame whose header stands at pos is all there.
Whole(bytes, pos, n) == pos + bytes[pos].size <= n

\* The scan moves on by one byte: no header, or one that cannot be true.
Resyncs(bytes, pos, n) ==
    /\ Visible(pos, n)
    /\ bytes[pos] # Junk => Whole(bytes, pos, n) /\ ~bytes[pos].fits

\* The scan has found a frame.
Frames(bytes, pos, n) ==
    /\ Visible(pos, n)
    /\ bytes[pos] # Junk /\ Whole(bytes, pos, n) /\ bytes[pos].fits

\* The scan stops: too few bytes for a header, or for the frame it announces.
Stops(bytes, pos, n) == ~Resyncs(bytes, pos, n) /\ ~Frames(bytes, pos, n)

\* What the entropy stage makes of the frame at pos, after the frames whose
\* main data went into the bit reservoir before it.
Work(reservoir, pos) == Append(reservoir, pos)

=============================================================================
