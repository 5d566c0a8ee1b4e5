----------------------------- MODULE VideoDecoder ------------------------------
(***************************************************************************)
(* The video decoder of a stream, as the codec registry makes it           *)
(* (crates/rff-codec/src/lib.rs, CodecRegistry::find_decoder, called by    *)
(* crates/rff/src/transcode.rs, build_op): one of the three decoders that  *)
(* hold pictures back, chosen by the stream's codec.  They promise the     *)
(* same, that every picture comes out once and in its place.               *)
(***************************************************************************)
EXTENDS Integers, FiniteSets

CONSTANTS
    NSlots, PoolCap, MaxPackets, MaxFrames, MaxUnseen,          \* of Vp9Decoder
    MaxDpbFrames, MaxPoc, MaxPictures,                          \* of H264Reorder
    MaxPocLsb, Orderings, LatencyCountsAll,                     \* of H265Dpb
    StartPocs, MaxReach, MaxCoded, MaxOdd

ASSUME Vp9Assumption ==
    /\ NSlots \in Nat \ {0} /\ PoolCap \in Nat
    /\ MaxPackets \in Nat /\ MaxFrames \in Nat \ {0}
    /\ MaxUnseen \in 0..MaxFrames

ASSUME H264Assumption ==
    /\ MaxDpbFrames \in Nat \ {0}
    /\ MaxPoc \in Nat /\ MaxPictures \in Nat

\* The latency of a sequence is its reordering and more, or 0 for no limit.
ASSUME H265Assumption ==
    /\ MaxPocLsb \in Nat \ (0..3)
    /\ \A ord \in Orderings :
          /\ {ord.reorder, ord.latency} \subseteq Nat /\ ord.size \in Nat \ {0}
          /\ ord.latency = 0 \/ ord.latency >= ord.reorder
    /\ LatencyCountsAll \in BOOLEAN
    /\ StartPocs \subseteq 1..(MaxPocLsb - 1)
    /\ {MaxReach, MaxCoded, MaxOdd} \subseteq Nat

VARIABLES
    codec,                                                      \* the stream's codec
    vp9Pc, packets, vp9Queue, vp9Eof, slots, pool, due, out,    \* of Vp9Decoder
    h264Pc, dpbFrames, reorder, h264Queue, h264Eof, decoded, delivered,
    dpb, cur, pictures, firstInSequence, noRaslOutput, prevTid0Poc, pendingPts,
    output, eof, stream, odd                                    \* of H265Dpb

Vp9 == INSTANCE Vp9Decoder WITH pc <- vp9Pc, queue <- vp9Queue, eof <- vp9Eof
H264 == INSTANCE H264Reorder WITH pc <- h264Pc, queue <- h264Queue, eof <- h264Eof
H265 == INSTANCE H265Dpb

vp9Vars == <<vp9Pc, packets, vp9Queue, vp9Eof, slots, pool, due, out>>
h264Vars == <<h264Pc, dpbFrames, reorder, h264Queue, h264Eof, decoded, delivered>>
h265Vars == <<dpb, cur, pictures, firstInSequence, noRaslOutput, prevTid0Poc, pendingPts,
              output, eof, stream, odd>>
vars == <<codec, vp9Vars, h264Vars, h265Vars>>

Init ==
    /\ codec \in {"vp9", "h264", "hevc"}
    /\ Vp9!Init /\ H264!Init /\ H265!Init

Next ==
    \/ codec = "vp9" /\ Vp9!Next /\ UNCHANGED <<codec, h264Vars, h265Vars>>
    \/ codec = "h264" /\ H264!Next /\ UNCHANGED <<codec, vp9Vars, h265Vars>>
    \/ codec = "hevc" /\ H265!Next /\ UNCHANGED <<codec, vp9Vars, h264Vars>>

Spec == Init /\ [][Next]_vars

-----------------------------------------------------------------------------
(* Properties *)

\* Pictures decoded in coding order leave in display order: the H.264 wrapper's
\* reorder buffer and the H.265 picture buffer never put a picture out while
\* one that is displayed before it is held or still to be decoded, over every
\* reordering that a conforming stream may use.
LeavesInDisplayOrder == H264!LeavesInDisplayOrder /\ H265!LeavesInDisplayOrder

\* At the end of the stream every picture for output has left once: nothing that
\* was held, bumped, purged or flushed is lost or repeated, but what H.265 drops.
EveryPictureLeaves == H264!EveryPictureLeaves /\ H265!EveryPictureLeaves

\* An H.265 picture leaves with the timestamp of its packet (H265Dpb).
OwnStamp == H265!OwnStamp

\* A pooled VP9 plane buffer is held by no reference slot (Vp9Decoder).
PoolIsDead == Vp9!PoolIsDead

\* The VP9 decoder is an order-preserving pipe (Vp9Decoder).
PipeSpec == Vp9!PipeSpec

-----------------------------------------------------------------------------
(* Values of the constants for TLC *)

\* Sequences that reorder past one picture, in a buffer that this fills; and
\* past two, of which none waits for more than two others.
MCOrderings == {[reorder |-> 1, latency |-> 0, size |-> 2], [reorder |-> 2, latency |-> 2, size |-> 4]}

\* One of them is to leave early, in a sequence with a latency limit.
MCLatencyOrdering == {[reorder |-> 2, latency |-> 2, size |-> 4]}

=============================================================================
