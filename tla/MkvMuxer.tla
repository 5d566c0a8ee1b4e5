------------------------------- MODULE MkvMuxer -------------------------------
(***************************************************************************)
(* The two Matroska muxers (crates/rff-format-mkv/src/mux.rs).             *)
(* MkvStreamingMuxer, for files, writes the header when every codec        *)
(* configuration is known, interleaves the blocks of the tracks through    *)
(* queues, writes them into clusters and goes back to patch sizes it did   *)
(* not know; MkvMuxer, for pipes, keeps the blocks and lays all of it out  *)
(* at the trailer.                                                         *)
(*                                                                         *)
(* A file is a sequence of EBML elements, each counted as one byte: a size *)
(* is the number of elements inside, a position that of elements before.   *)
(* Times are in milliseconds, of which a second has Ms.                    *)
(***************************************************************************)
EXTENDS Mp4Timing
LOCAL INSTANCE FiniteSetsExt
LOCAL INSTANCE SequencesExt
LOCAL INSTANCE Functions

CONSTANTS
    Ms,                     \* 1000
    KeySpan, ClusterSpan,   \* 1 s and 5 s, of starts_cluster
    RelMin,                 \* i16::MIN
    MaxInterleave, MaxInterleaveBytes

VARIABLES
    kind,           \* "stream" (MkvStreamingMuxer) or "buffered" (MkvMuxer)
    stage,          \* "new", "open", "pump", "flush" (both in pump), "closing",
                    \* "done", "failed" or "cut"
    plans,          \* TrackPlan of each stream: [media, harvest, private, pending, scale]
    queues,         \* per track, the blocks that wait: [key, seq, block]
    maxKey,         \* max_key_ms; NoTs before any
    seq,            \* the blocks queued so far
    blocks,         \* of MkvMuxer: every block
    seg             \* the file: [elems, cluster, cues, end]

muxVars == <<kind, stage, plans, queues, maxKey, seq, blocks, seg>>

Unknown == -1                       \* the size of all ones
NoCluster == [ts |-> 0, at |-> 0]
NoFile == [elems |-> <<>>, cluster |-> NoCluster, cues |-> <<>>, end |-> 0]
Torn == [id |-> "torn"]             \* the beginning of an element, at the end of a file
SegmentAt == 2                      \* its place, and all positions count from there

MuxInit(k, streams) ==
    /\ kind = k
    /\ stage = "new"
    /\ plans = [t \in DOMAIN streams |->
                  [media |-> streams[t].media, harvest |-> streams[t].harvest, scale |-> streams[t].scale,
                   private |-> streams[t].harvest = "no",
                   pending |-> IF streams[t].harvest = "vorbis" THEN 3 ELSE 0]]
    /\ queues = [t \in DOMAIN streams |-> <<>>]
    /\ maxKey = NoTs
    /\ seq = 0
    /\ blocks = <<>>
    /\ seg = NoFile

-----------------------------------------------------------------------------
(* prepare_block *)

\* A tick count as milliseconds, half a tick added and cut off.
ToMs(scale, v) ==
    LET n == v * Ms + scale \div 2 IN IF n < 0 THEN -((-n) \div scale) ELSE n \div scale

\* What a packet tells of its codec's configuration: H.264 both parameter sets
\* in one packet, AV1 its sequence header, a new Vorbis stream three packets.
Harvested(plan, x) ==
    CASE plan.harvest = "avc" -> [plan EXCEPT !.private = @ \/ x.sets = {"sps", "pps"}]
      [] plan.harvest = "av1" -> [plan EXCEPT !.private = @ \/ x.sets # {}]
      [] plan.pending > 0     -> [plan EXCEPT !.pending = @ - 1, !.private = plan.pending = 1]
      [] OTHER                -> plan

\* Packet i of track t as a block.
PrepareBlock(t, i, x) ==
    [track |-> t, index |-> i,
     ts |-> ToMs(plans[t].scale, IF x.pts # NoTs THEN x.pts ELSE IF x.dts # NoTs THEN x.dts ELSE 0),
     dts |-> IF x.dts = NoTs THEN NoTs ELSE ToMs(plans[t].scale, x.dts),
     duration |-> ToMs(plans[t].scale, AtLeast(x.duration, 0)),
     key |-> plans[t].media = "audio" \/ x.key, size |-> x.size]

-----------------------------------------------------------------------------
(* Clusters and blocks, in both muxers *)

IsSub(b) == plans[b.track].media = "subtitle"
VideoKey(b) == plans[b.track].media = "video" /\ b.key

BugStartsCluster(cts, b) == b.ts - cts >= ClusterSpan

StartsCluster(cts, b) == b.ts - cts >= IF VideoKey(b) THEN KeySpan ELSE ClusterSpan

BugTooEarly(cts, b) == FALSE

\* Too far before its cluster for the 16 bits of a relative timestamp.
TooEarly(cts, b) == b.ts >= 0 /\ b.ts - cts < RelMin

\* Only the streaming muxer meets blocks that are out of order.
NewCluster(w, b) ==
    \/ w.cluster = NoCluster
    \/ kind = "stream" /\ TooEarly(w.cluster.ts, b)
    \/ StartsCluster(w.cluster.ts, b)

Clamped(rel) == IF rel < RelMin THEN RelMin ELSE IF rel > -RelMin - 1 THEN -RelMin - 1 ELSE rel

\* A SimpleBlock, or a BlockGroup with a duration and without a keyframe flag.
Block(b, cts) ==
    [id |-> "block", track |-> b.track, index |-> b.index, rel |-> Clamped(b.ts - cts),
     key |-> b.key /\ ~IsSub(b), duration |-> IF IsSub(b) THEN b.duration ELSE 0]

BugCloseCluster(w) ==
    IF w.cluster = NoCluster THEN w
    ELSE [w EXCEPT !.elems[w.cluster.at].size = Len(w.elems), !.cluster = NoCluster]

\* The size of the open cluster is patched.
CloseCluster(w) ==
    IF w.cluster = NoCluster THEN w
    ELSE [w EXCEPT !.elems[w.cluster.at].size = Len(w.elems) - w.cluster.at, !.cluster = NoCluster]

\* A cluster of unknown size, remembered with its position for the cues.
OpenCluster(w, ts) ==
    [w EXCEPT !.cues = Append(@, [ts |-> ts, pos |-> Len(w.elems) - SegmentAt]),
              !.elems = @ \o <<[id |-> "cluster", size |-> Unknown], [id |-> "timestamp", ts |-> ts]>>,
              !.cluster = [ts |-> ts, at |-> Len(w.elems) + 1]]

\* The block goes into the open cluster.
PutBlock(w, b) ==
    [w EXCEPT !.elems = Append(@, Block(b, w.cluster.ts)),
              !.end = AtLeast(b.ts + b.duration, @)]

WriteBlock(w, b) ==
    PutBlock(IF NewCluster(w, b) THEN OpenCluster(CloseCluster(w), AtLeast(b.ts, 0)) ELSE w, b)

-----------------------------------------------------------------------------
(* MkvStreamingMuxer: header and queues *)

\* Every configuration that packets can still reveal has been revealed.
HeaderReady == \A t \in DOMAIN plans : plans[t].private

\* The header, with placeholders for what is not known yet.
FileHeader ==
    [NoFile EXCEPT !.elems =
        << [id |-> "ebml"], [id |-> "segment", size |-> Unknown], [id |-> "seekhead", cues |-> 0],
           [id |-> "info", duration |-> 0],
           [id |-> "tracks", private |-> [t \in DOMAIN plans |-> plans[t].private]] >>]

Queued == UNION {Range(queues[t]) : t \in DOMAIN queues}
Heads == {queues[t][1] : t \in {u \in DOMAIN queues : queues[u] # <<>>}}

\* The queues hold more than they should, in bytes or in time.
OverCap ==
    \/ MapThenSumSet(LAMBDA e : e.block.size, Queued) > MaxInterleaveBytes
    \/ \E e \in Heads : maxKey - e.key > MaxInterleave

\* An H.264 track of which blocks are there and no parameter sets.
MissingConfig(written) ==
    \E t \in DOMAIN plans : plans[t].harvest = "avc" /\ ~plans[t].private /\ written[t] # <<>>

HeaderWritten == seg.elems # <<>>

Fail == stage' = "failed" /\ UNCHANGED <<kind, plans, queues, maxKey, seq, blocks, seg>>

WriteHeader ==
    /\ stage = "new"
    /\ stage' = "open"
    /\ seg' = IF kind = "stream" /\ HeaderReady THEN FileHeader ELSE seg
    /\ UNCHANGED <<kind, plans, queues, maxKey, seq, blocks>>

\* The i-th packet of track t: a setup header, or a block for the queue.
EnqueuePacket(t, i, x) ==
    /\ kind = "stream" /\ stage = "open"
    /\ stage' = "pump"
    /\ plans' = [plans EXCEPT ![t] = Harvested(@, x)]
    /\ IF plans[t].pending > 0 THEN UNCHANGED <<queues, maxKey, seq>>
       ELSE \E b \in {PrepareBlock(t, i, x)} :
              \E key \in {IF b.dts # NoTs THEN b.dts ELSE b.ts} :
                /\ queues' = [queues EXCEPT ![t] = Append(@, [key |-> key, seq |-> seq + 1, block |-> b])]
                /\ maxKey' = IF maxKey = NoTs THEN key ELSE AtLeast(key, maxKey)
                /\ seq' = seq + 1
    /\ UNCHANGED <<kind, blocks, seg>>

\* The rest is pump.  It starts with the header, if that can be written.
WriteFileHeader ==
    /\ stage \in {"pump", "flush"} /\ ~HeaderWritten
    /\ stage = "flush" \/ HeaderReady \/ OverCap
    /\ ~MissingConfig(queues)
    /\ seg' = FileHeader
    /\ UNCHANGED <<kind, stage, plans, queues, maxKey, seq, blocks>>

HeaderRefused ==
    /\ stage \in {"pump", "flush"} /\ ~HeaderWritten
    /\ stage = "flush" \/ HeaderReady \/ OverCap
    /\ MissingConfig(queues)
    /\ Fail

BugHoldsBack == FALSE

\* Something may still come that is earlier than all that is queued.  Subtitles
\* are sparse and hold nothing back.
HoldsBack ==
    /\ \E t \in DOMAIN queues : queues[t] = <<>> /\ plans[t].media # "subtitle"
    /\ stage = "pump" /\ ~OverCap

Before(e, f) == e.key < f.key \/ (e.key = f.key /\ e.seq < f.seq)

\* The earliest block leaves its queue and is written.
WriteQueued ==
    /\ stage \in {"pump", "flush"} /\ HeaderWritten /\ ~HoldsBack
    /\ \E t \in DOMAIN queues :
          /\ queues[t] # <<>>
          /\ \A e \in Heads : e = queues[t][1] \/ Before(queues[t][1], e)
          /\ ~(plans[t].harvest = "avc" /\ ~plans[t].private)
          /\ queues' = [queues EXCEPT ![t] = Tail(@)]
          /\ seg' = WriteBlock(seg, queues[t][1].block)
    /\ UNCHANGED <<kind, stage, plans, maxKey, seq, blocks>>

\* It is of an H.264 track that still has no parameter sets.
BlockRefused ==
    /\ stage \in {"pump", "flush"} /\ HeaderWritten /\ ~HoldsBack
    /\ \E t \in DOMAIN queues :
          /\ queues[t] # <<>>
          /\ \A e \in Heads : e = queues[t][1] \/ Before(queues[t][1], e)
          /\ plans[t].harvest = "avc" /\ ~plans[t].private
    /\ Fail

PumpEnds ==
    /\ \/ stage = "pump" /\ ~HeaderWritten /\ ~HeaderReady /\ ~OverCap
       \/ stage \in {"pump", "flush"} /\ HeaderWritten /\ (HoldsBack \/ Queued = {})
    /\ stage' = IF stage = "pump" THEN "open" ELSE "closing"
    /\ UNCHANGED <<kind, plans, queues, maxKey, seq, blocks, seg>>

-----------------------------------------------------------------------------
(* MkvStreamingMuxer: trailer *)

\* write_trailer: everything is pumped, and then:
FlushQueues ==
    /\ kind = "stream" /\ stage = "open"
    /\ stage' = "flush"
    /\ UNCHANGED <<kind, plans, queues, maxKey, seq, blocks, seg>>

PutCues(w) == [w EXCEPT !.elems = Append(@, [id |-> "cues", points |-> w.cues])]

PatchSize(w) == [w EXCEPT !.elems[SegmentAt].size = Len(w.elems) - SegmentAt]

BugPatchHeader(w) == [w EXCEPT !.elems[SegmentAt + 1].cues = Len(w.elems) - SegmentAt,
                               !.elems[SegmentAt + 2].duration = w.end]

\* The duration and the place of the cues, which are the last element.
PatchHeader(w) == [w EXCEPT !.elems[SegmentAt + 1].cues = Len(w.elems) - SegmentAt - 1,
                            !.elems[SegmentAt + 2].duration = w.end]

Finished(w) == PatchHeader(PatchSize(PutCues(CloseCluster(w))))

FinishFile ==
    /\ stage = "closing"
    /\ stage' = "done"
    /\ seg' = Finished(seg)
    /\ UNCHANGED <<kind, plans, queues, maxKey, seq, blocks>>

-----------------------------------------------------------------------------
(* MkvMuxer *)

BufferPacket(t, i, x) ==
    /\ kind = "buffered" /\ stage = "open"
    /\ plans' = [plans EXCEPT ![t] = Harvested(@, x)]
    /\ blocks' = IF plans[t].pending > 0 THEN blocks ELSE Append(blocks, PrepareBlock(t, i, x))
    /\ UNCHANGED <<kind, stage, queues, maxKey, seq, seg>>

BlocksOf(t) == SelectSeq(blocks, LAMBDA b : b.track = t)

\* The decode times of a track's blocks: their own if all have one and they
\* never go back, else made up from their timestamps.
DecodeKeys(dts, ts) ==
    IF \A i \in 1..Len(dts) : dts[i] # NoTs /\ (i > 1 => dts[i - 1] <= dts[i])
    THEN dts ELSE Derived(ts)

TrackKeys(t) == DecodeKeys(Field(BlocksOf(t), "dts"), Field(BlocksOf(t), "ts"))

\* How many blocks of its track are among the first n.
PlaceInTrack(n) == Len(SelectSeq(SubSeq(blocks, 1, n), LAMBDA b : b.track = blocks[n].track))

BugSorted == blocks

\* The blocks in the order of decoding; those of the same time as they came.
Sorted ==
    LET keyed == [n \in 1..Len(blocks) |->
                    [key |-> TrackKeys(blocks[n].track)[PlaceInTrack(n)], seq |-> n, block |-> blocks[n]]]
    IN  Field(SortSeq(keyed, Before), "block")

\* The whole file, made in one go.
LaidOut == Finished(FoldLeft(WriteBlock, FileHeader, Sorted))

Refusal == MissingConfig([t \in DOMAIN plans |-> BlocksOf(t)])

WriteOut ==
    /\ kind = "buffered" /\ stage = "open"
    /\ IF Refusal THEN Fail
       ELSE /\ stage' = "done"
            /\ seg' = LaidOut
            /\ UNCHANGED <<kind, plans, queues, maxKey, seq, blocks>>

-----------------------------------------------------------------------------
(* The process may die, or the disk be full, between any two writes. *)

FilesLeft ==
    CASE stage \in {"open", "pump", "flush"} /\ kind = "stream" -> {seg.elems}
      [] stage = "closing" ->
            {f.elems : f \in {CloseCluster(seg), PutCues(CloseCluster(seg)),
                              PatchSize(PutCues(CloseCluster(seg)))}}
      [] stage = "open" /\ ~Refusal -> {SubSeq(f, 1, n) : f \in {LaidOut.elems}, n \in 0..Len(LaidOut.elems)}
      [] OTHER -> {}

\* With the last element there in part.
TornOf(files) ==
    {Append(Front(f), Torn) : f \in {g \in files : g # <<>> /\ Last(g).id = "block"}}

CutOff ==
    /\ stage' = "cut"
    /\ \E f \in FilesLeft \cup TornOf(FilesLeft) : seg' = [seg EXCEPT !.elems = f]
    /\ UNCHANGED <<kind, plans, queues, maxKey, seq, blocks>>

=============================================================================
