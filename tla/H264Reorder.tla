------------------------------ MODULE H264Reorder ------------------------------
(***************************************************************************)
(* The reorder buffer of the H.264 decoder (crates/rff-codec-h264/src/     *)
(* lib.rs, H264Decoder) behind the receive loop of the transcode engine:   *)
(* pictures come out of the bitstream decoder in decoding order and leave  *)
(* in display order.                                                       *)
(*                                                                         *)
(* A picture is <<sequence, picture order count>>; an IDR picture begins a *)
(* sequence, and with it may come an SPS that sizes the picture buffer.    *)
(* The bitstream decoder is external and yields a picture for the unit     *)
(* that completes it.  The stream conforms to H.264: no picture is         *)
(* reordered past more pictures than the buffer of its sequence holds.     *)
(***************************************************************************)
EXTENDS Ordering, SequencesExt

CONSTANTS
    MaxDpbFrames,   \* MAX_DPB_FRAMES (16 in the code)
    MaxPoc,         \* bound: picture order counts are 0..MaxPoc
    MaxPictures     \* bound: pictures of the stream

Picture == (1..MaxPictures) \X (0..MaxPoc)

\* Display order: by sequence, then by picture order count.
Before(p, q) == p[1] < q[1] \/ (p[1] = q[1] /\ p[2] < q[2])

VARIABLES
    pc,             \* "demux", "units", "pull" or "done": where the loops stand
    dpbFrames,      \* dpb_frames
    reorder,        \* reorder; its pictures are of one sequence and differ in
                    \* their counts, so that their order in it is of no account
    queue,          \* queue
    eof,            \* eof
    decoded,        \* history: the pictures decoded, in decoding order
    delivered       \* history: the pictures received by the loop

vars == <<pc, dpbFrames, reorder, queue, eof, decoded, delivered>>

TypeOK ==
    /\ pc \in {"demux", "units", "pull", "done"}
    /\ dpbFrames \in 1..MaxDpbFrames
    /\ reorder \subseteq Picture /\ Cardinality(reorder) <= dpbFrames
    /\ queue \in Seq(Picture) /\ delivered \in Seq(Picture)
    /\ decoded \in Seq(Picture)
    /\ eof \in BOOLEAN

Init ==
    /\ pc = "demux"
    /\ dpbFrames = MaxDpbFrames
    /\ reorder = {} /\ queue = <<>>
    /\ eof = FALSE
    /\ decoded = <<>> /\ delivered = <<>>

\* sort_by_key(poc).
Rising(pictures) == {pair \in pictures \X pictures : pair[1][2] < pair[2][2]}
ByPoc(pictures) == InOrder(pictures, Rising(pictures))

\* The sequence of the last picture decoded, 0 before the first.
Sequence == IF decoded = <<>> THEN 0 ELSE Last(decoded)[1]

\* send_packet: the loop over the packet's units begins.
SendPacket ==
    /\ pc = "demux"
    /\ pc' = "units"
    /\ UNCHANGED <<dpbFrames, reorder, queue, eof, decoded, delivered>>

BugOverfull(held, room) == Cardinality(held) >= room

\* The buffer holds more than it may.
Overfull(held, room) == Cardinality(held) > room

\* bump(): the picture with the lowest count goes out.
Lowest(held) == CHOOSE p \in held : \A q \in held : p[2] <= q[2]

\* A picture joins those held; one too many, and one is bumped.
Hold(picture, before, room, out) ==
    LET held == before \cup {picture}
    IN  /\ IF Overfull(held, room)
           THEN /\ queue' = Append(out, Lowest(held))
                /\ reorder' = held \ {Lowest(held)}
           ELSE /\ queue' = out
                /\ reorder' = held
        /\ decoded' = Append(decoded, picture)

BugDrained == queue

\* drain(): every buffered picture, in display order.
Drained == queue \o ByPoc(reorder)

\* An IDR picture: what is buffered belongs to the sequence before it.
IdrUnit(room) ==
    /\ pc = "units"
    /\ Len(decoded) < MaxPictures
    /\ dpbFrames' = room
    /\ Hold(<<Sequence + 1, 0>>, {}, room, Drained)
    /\ UNCHANGED <<pc, eof, delivered>>

\* Another picture of the sequence.
Unit(poc) ==
    /\ pc = "units"
    /\ Len(decoded) < MaxPictures
    /\ Sequence > 0 /\ poc > 0
    /\ <<Sequence, poc>> \notin ToSet(decoded)
    /\ Cardinality({p \in ToSet(decoded) : Before(<<Sequence, poc>>, p)}) <= dpbFrames
    /\ Hold(<<Sequence, poc>>, reorder, dpbFrames, queue)
    /\ UNCHANGED <<pc, dpbFrames, eof, delivered>>

\* The packet has no more units; its pictures are pulled.
UnitsDone ==
    /\ pc = "units"
    /\ pc' = "pull"
    /\ UNCHANGED <<dpbFrames, reorder, queue, eof, decoded, delivered>>

\* receive_frame returns a picture.
Deliver ==
    /\ pc = "pull"
    /\ queue # <<>>
    /\ delivered' = Append(delivered, Head(queue))
    /\ queue' = Tail(queue)
    /\ UNCHANGED <<pc, dpbFrames, reorder, eof, decoded>>

\* receive_frame returns Again or Eof.
Hungry ==
    /\ pc = "pull"
    /\ queue = <<>>
    /\ pc' = IF eof THEN "done" ELSE "demux"
    /\ UNCHANGED <<dpbFrames, reorder, queue, eof, decoded, delivered>>

\* The input ends: flush() drains the buffer, and the last pictures are pulled.
Flush ==
    /\ pc = "demux"
    /\ queue' = Drained
    /\ reorder' = {}
    /\ eof' = TRUE
    /\ pc' = "pull"
    /\ UNCHANGED <<dpbFrames, decoded, delivered>>

Next ==
    \/ SendPacket
    \/ \E room \in 1..MaxDpbFrames : IdrUnit(room)
    \/ \E poc \in 1..MaxPoc : Unit(poc)
    \/ UnitsDone \/ Deliver \/ Hungry \/ Flush

Spec == Init /\ [][Next]_vars

-----------------------------------------------------------------------------
(* Properties *)

\* "returns pictures in decode order; they leave here in display order"
\* (H264Decoder.reorder): for every conforming stream, however its pictures
\* are reordered and its sequences sized, no picture leaves before one that is
\* displayed earlier - neither one still held nor one not decoded yet.
LeavesInDisplayOrder ==
    LET left == delivered \o queue
    IN  \A j, k \in 1..Len(left) : j < k => Before(left[j], left[k])

\* Each decoded picture leaves once: when the stream is done all of them have.
EveryPictureLeaves ==
    pc = "done" => /\ ToSet(delivered) = ToSet(decoded)
                   /\ Len(delivered) = Len(decoded)

=============================================================================
