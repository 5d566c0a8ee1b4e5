------------------------------ MODULE Vp9Decoder ------------------------------
(***************************************************************************)
(* The VP9 decoder (crates/rusty_vp9/src/lib.rs, Vp9Decoder) behind the    *)
(* receive loop of the transcode engine (crates/rff/src/transcode.rs,      *)
(* process_packet and the first half of TranscodeOp::finish).              *)
(*                                                                         *)
(* A packet may be a superframe: several coded frames, of which only the   *)
(* last displayable one is output.  The decoder queues the coded frames    *)
(* and decodes one per call.  A coded frame is reduced to whether it is    *)
(* displayable, the reference slots it refreshes and, for                  *)
(* show_existing_frame, the slot it shows again.  Pictures live in the     *)
(* reference slots; their plane buffers are pooled when the last slot lets *)
(* go of them.  A buffer stands for the picture it holds.                  *)
(***************************************************************************)
EXTENDS Ordering, SequencesExt

CONSTANTS
    NSlots,         \* reference slots (8 in the code)
    PoolCap,        \* plane_pool keeps this many buffers (2 in the code)
    MaxPackets,     \* bound: packets of the stream
    MaxFrames,      \* bound: coded frames of a packet
    MaxUnseen       \* bound: coded frames of a packet that are not output

Slots == 1..NSlots
Empty == 0                              \* a slot without a picture
Buffers == 1..(NSlots + PoolCap + 1)

\* shows = 0: an ordinary frame; otherwise the slot of show_existing_frame.
CodedFrame ==
    [displayable : BOOLEAN, refresh : SUBSET Slots, shows : {0}]
        \cup [displayable : {TRUE}, refresh : {{}}, shows : Slots]

\* peek_displayable: the frames with show_frame or show_existing_frame set.
Displayable(frames) == {i \in DOMAIN frames : frames[i].displayable}

BugOutputFrame(frames) ==
    IF Displayable(frames) = {} THEN 0 ELSE Min(Displayable(frames))

\* The last displayable frame of a packet, or 0.
OutputFrame(frames) ==
    IF Displayable(frames) = {} THEN 0 ELSE Max(Displayable(frames))

Unseen(frames) == Len(frames) - (IF OutputFrame(frames) = 0 THEN 0 ELSE 1)

VARIABLES
    pc,         \* "demux", "pull", "done" or "failed": where the loop stands
    packets,    \* packets sent so far
    queue,      \* queue: coded frames waiting, each with its packet and place
    eof,        \* flush() was called
    slots,      \* ref_frames
    pool,       \* plane_pool
    due,        \* history: <<packet, place>> of every frame that must be output
    out         \* history: <<packet, place>> of every frame that was output

vars == <<pc, packets, queue, eof, slots, pool, due, out>>

Queued == [coded : CodedFrame, from : (1..MaxPackets) \X (1..MaxFrames),
           display : BOOLEAN]

TypeOK ==
    /\ pc \in {"demux", "pull", "done", "failed"}
    /\ packets \in 0..MaxPackets
    /\ queue \in Seq(Queued)
    /\ eof \in BOOLEAN
    /\ slots \in [Slots -> Buffers \cup {Empty}]
    /\ pool \in Seq(Buffers) /\ Len(pool) <= PoolCap
    /\ due \in Seq((1..MaxPackets) \X (1..MaxFrames))
    /\ out \in Seq((1..MaxPackets) \X (1..MaxFrames))

Init ==
    /\ pc = "demux"
    /\ packets = 0
    /\ queue = <<>>
    /\ eof = FALSE
    /\ slots = [i \in Slots |-> Empty]
    /\ pool = <<>>
    /\ due = <<>>
    /\ out = <<>>

\* send_packet: the superframe is split and its frames are queued.
Push(frames) ==
    /\ pc = "demux"
    /\ packets < MaxPackets
    /\ packets' = packets + 1
    /\ LET last == OutputFrame(frames)
       IN  queue' = queue \o
               [i \in DOMAIN frames |->
                   [coded |-> frames[i], from |-> <<packets + 1, i>>, display |-> i = last]]
    /\ due' = IF Displayable(frames) = {} THEN due
              ELSE Append(due, <<packets + 1, Max(Displayable(frames))>>)
    /\ pc' = "pull"
    /\ UNCHANGED <<eof, slots, pool, out>>

\* The input ends: finish() flushes the decoder and pulls once more.
Flush ==
    /\ pc = "demux"
    /\ eof' = TRUE
    /\ pc' = "pull"
    /\ UNCHANGED <<packets, queue, slots, pool, due, out>>

-----------------------------------------------------------------------------
(* next_frame, and what the receive loop does with its result *)

\* Again and Eof end the receive loop.
LoopEnds == pc' = IF eof THEN "done" ELSE "demux"

\* Pictures none of whose holders survives the refresh; into_inner succeeds
\* for them, at the last of their slots.
BugRetired(refresh) == {slots[i] : i \in refresh} \ {Empty}

Retired(refresh) ==
    {b \in {slots[i] : i \in refresh} \ {Empty} :
        \A i \in Slots : slots[i] = b => i \in refresh}

LastHolder(b) == Max({i \in Slots : slots[i] = b})

\* The buffers pooled on the way, in slot order, while there is room.
BySlot(buffers) == {pair \in buffers \X buffers : LastHolder(pair[1]) < LastHolder(pair[2])}

Reclaimed(refresh, room) ==
    LET order == InOrder(Retired(refresh), BySlot(Retired(refresh)))
    IN  SubSeq(order, 1, IF Len(order) < room THEN Len(order) ELSE room)

\* A frame is decoded into the buffer popped from the pool, or a fresh one,
\* and takes over the slots it refreshes.
Decode(refresh) ==
    LET rest == IF pool = <<>> THEN pool ELSE Front(pool)
        used == {slots[i] : i \in Slots} \cup ToSet(pool)
        buf == IF pool = <<>> THEN CHOOSE b \in Buffers : b \notin used ELSE Last(pool)
    IN  /\ slots' = [i \in Slots |-> IF i \in refresh THEN buf ELSE slots[i]]
        /\ pool' = rest \o Reclaimed(refresh, PoolCap - Len(rest))

\* The picture of the queue's head, decoded or found in its slot.
Picture(coded) ==
    IF coded.shows = 0
    THEN Decode(coded.refresh)
    ELSE slots[coded.shows] # Empty /\ UNCHANGED <<slots, pool>>

\* The loop asks for more as long as it gets frames.
AfterShown == pc' = pc

\* A picture is returned, and the loop goes on.
Show ==
    /\ pc = "pull"
    /\ queue # <<>>
    /\ Head(queue).display /\ Head(queue).coded.displayable
    /\ Picture(Head(queue).coded)
    /\ out' = Append(out, Head(queue).from)
    /\ queue' = Tail(queue)
    /\ AfterShown
    /\ UNCHANGED <<packets, eof, due>>

\* A hidden frame, or a lower layer of its superframe: next_frame returns
\* Again, whatever else is queued.
Hide ==
    /\ pc = "pull"
    /\ queue # <<>>
    /\ ~(Head(queue).display /\ Head(queue).coded.displayable)
    /\ Picture(Head(queue).coded)
    /\ queue' = Tail(queue)
    /\ LoopEnds
    /\ UNCHANGED <<packets, eof, due, out>>

\* Nothing is queued: Again, or Eof after the flush.
Hungry ==
    /\ pc = "pull"
    /\ queue = <<>>
    /\ LoopEnds
    /\ UNCHANGED <<packets, queue, eof, slots, pool, due, out>>

\* The frame cannot be decoded, or shows a slot that is empty.
Reject ==
    /\ pc = "pull"
    /\ queue # <<>>
    /\ queue' = Tail(queue)
    /\ pc' = "failed"
    /\ UNCHANGED <<packets, eof, slots, pool, due, out>>

PacketsOf(n) == {frames \in [1..n -> CodedFrame] : Unseen(frames) <= MaxUnseen}

Next ==
    \/ \E n \in 1..MaxFrames : \E frames \in PacketsOf(n) : Push(frames)
    \/ Flush
    \/ Show \/ Hide \/ Hungry \/ Reject

Spec == Init /\ [][Next]_vars

-----------------------------------------------------------------------------
(* Properties *)

\* "exactly one frame per packet - the last displayable one" (push), and
\* "Returns Again when more packets are needed" (Decoder::receive_frame): when
\* the stream ends, every packet that has a displayable frame has had it
\* output, in order.
EveryShownFrameComesOut == pc = "done" => out = due

\* The same, step by step: the decoder and its loop are an order-preserving
\* pipe from the frames that must be output to those that were.
Pipe == INSTANCE StreamPipe WITH
    accepted <- due,
    muxed <- out,
    outcome <- IF pc \in {"done", "failed"} THEN pc ELSE "running"
PipeSpec == Pipe!Spec

\* A pooled buffer is dead: no reference slot holds its picture, and the pool
\* never holds it twice.  Decoding into it cannot overwrite a reference.
PoolIsDead ==
    /\ \A i \in Slots, k \in 1..Len(pool) : slots[i] # pool[k]
    /\ \A j, k \in 1..Len(pool) : pool[j] = pool[k] => j = k

=============================================================================
