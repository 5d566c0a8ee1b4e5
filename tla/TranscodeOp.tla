----------------------------- MODULE TranscodeOp ------------------------------
(***************************************************************************)
(* The transcode path of one stream (crates/rff/src/transcode.rs):         *)
(* decode -> trim -> constant-frame-rate stage -> encode -> mux, for one   *)
(* stream from its first packet to the end of its input.                   *)
(*                                                                         *)
(* The loops of the code are unrolled: `pc` says which loop the thread is  *)
(* in and `stage` from where, so that the steps of one loop interleave     *)
(* with what the codecs decide to release.                                 *)
(*                                                                         *)
(* Decoder and encoder are external.  They obey the contract of rff-codec  *)
(* (send, then receive until Again or Eof): a decoder holds frames back    *)
(* for as long as it likes until it is flushed, then it gives them all;    *)
(* an encoder does the same with packets, one per frame and in order, and  *)
(* stamps a packet with its frame's timestamp or not at all.               *)
(*                                                                         *)
(* Times are in ticks of the input stream; one slot of the CFR grid lasts  *)
(* SlotTicks of them.  A frame is its identity and its timestamp.          *)
(***************************************************************************)
EXTENDS Ordering, SequencesExt

CONSTANTS
    Setups,         \* the ways in which build_op may set a stream up
    MaxPackets,     \* bound: packets of the input
    MaxPts,         \* bound: timestamps are drawn from 0..MaxPts
    None            \* absent timestamp, limit, end or frame

ASSUME SetupAssumption == \A s \in Setups :
    /\ s.isVideo \in BOOLEAN /\ s.trimming \in BOOLEAN /\ s.cfr \in BOOLEAN
    /\ s.resamples \in BOOLEAN /\ s.atrim \in BOOLEAN
    /\ s.cfr => s.isVideo
    /\ s.resamples \/ s.atrim => ~s.isVideo
    /\ s.trimStart \in Nat /\ s.trimEnd \in Nat \cup {None}
    /\ s.slotTicks \in Nat \ {0}
    /\ s.limit \in Nat \cup {None}

ASSUME NumberAssumption == None \notin Int /\ MaxPackets \in Nat /\ MaxPts \in Nat

Ids == 0..MaxPackets            \* 0 is the resampler's tail
Frame == [id : Ids, pts : Int \cup {None}]
NoFrame == [id |-> 0, pts |-> None]

VARIABLES
    setup,          \* the member of Setups this stream runs under
    pc,             \* which loop of the code is running
    stage,          \* who called it: the packet loop or a step of `finish`
    read,           \* packets read from the demuxer
    decBuf,         \* frames the decoder has and was not asked for yet
    decEof,         \* decoder.flush() was called
    clock,          \* audio_clock_samples, in ticks (one frame is one tick)
    nextSlot,       \* FpsConv.next_slot
    last,           \* FpsConv.last, or NoFrame
    due,            \* frames on their way to emit()
    videoSent,      \* video_frames_sent
    pendingPts,     \* pending_pts
    encBuf,         \* frames the encoder holds
    encEof,         \* encoder.flush() was called
    muxed,          \* packets written to the muxer, as [id, pts]
    report,         \* TranscodeReport
    decoded,        \* history: frames the decoder has handed out
    accepted        \* history: frames handed to the encoder

decVars == <<decBuf, decEof, decoded, read>>
cfrVars == <<nextSlot, last>>
encVars == <<encBuf, encEof, pendingPts, accepted, videoSent>>
outVars == <<muxed>>
vars == <<setup, pc, stage, clock, due, report, decVars, cfrVars, encVars, outVars>>

\* The fields of `setup`, fixed for the life of the stream.
IsVideo == setup.isVideo        \* the stream is a video stream
Trimming == setup.trimming      \* -ss / -t / -to were given
TrimStart == setup.trimStart    \* start of the trim window
TrimEnd == setup.trimEnd        \* its end, exclusive, or None
Cfr == setup.cfr                \* -r was given: the CFR stage is in place
SlotTicks == setup.slotTicks    \* ticks of one output frame under -r
Limit == setup.limit            \* -frames:v, or None
Resamples == setup.resamples    \* an audio resampler is in place
Atrim == setup.atrim            \* the -af chain may swallow whole frames

Stages == {"stream", "flush", "held", "tail", "end"}
Steps == {"demux", "decode", "emit", "drain", "held", "tail", "flush",
          "done", "failed"}

TypeOK ==
    /\ setup \in Setups
    /\ pc \in Steps
    /\ stage \in Stages
    /\ read \in 0..MaxPackets
    /\ decBuf \in Seq(Frame) /\ decEof \in BOOLEAN
    /\ clock \in Nat
    /\ nextSlot \in Nat /\ last \in Frame
    /\ due \in Seq(Frame)
    /\ videoSent \in Nat /\ (Limit # None => videoSent <= Limit)
    /\ pendingPts \in Seq(Int \cup {None})
    /\ encBuf \in Seq(Frame) /\ encEof \in BOOLEAN
    /\ muxed \in Seq(Frame)
    /\ report \in [decoded : Nat, written : Nat]
    /\ decoded \in Seq(Frame)
    /\ accepted \in Seq(Frame)

Init ==
    /\ setup \in Setups
    /\ pc = "demux"
    /\ stage = "stream"
    /\ read = 0
    /\ decBuf = <<>> /\ decEof = FALSE
    /\ clock = 0
    /\ nextSlot = 0 /\ last = NoFrame
    /\ due = <<>>
    /\ videoSent = 0
    /\ pendingPts = <<>>
    /\ encBuf = <<>> /\ encEof = FALSE
    /\ muxed = <<>>
    /\ report = [decoded |-> 0, written |-> 0]
    /\ decoded = <<>>
    /\ accepted = <<>>

-----------------------------------------------------------------------------
(* The packet loop: read_packet, process_packet. *)

\* A packet is read and sent to the decoder; frames are then pulled from it.
ReadPacket(pts) ==
    /\ pc = "demux"
    /\ read < MaxPackets
    /\ read' = read + 1
    /\ decBuf' = Append(decBuf, [id |-> read + 1, pts |-> pts])
    /\ pc' = "decode"
    /\ UNCHANGED <<setup, stage, clock, due, report, decEof, decoded, cfrVars,
                   encVars, outVars>>

\* read_packet returns Eof: finish() begins by flushing the decoder.
EndOfInput ==
    /\ pc = "demux"
    /\ decEof' = TRUE
    /\ stage' = "flush"
    /\ pc' = "decode"
    /\ UNCHANGED <<setup, clock, due, report, decBuf, decoded, read, cfrVars,
                   encVars, outVars>>

-----------------------------------------------------------------------------
(* handle_frame *)

NeedsTime == Trimming \/ Cfr

\* A frame's start time; audio without timestamps runs on the sample clock.
FrameTime(f) ==
    IF ~NeedsTime THEN None
    ELSE IF f.pts # None THEN f.pts
    ELSE IF IsVideo THEN None
    ELSE clock

Keeps(t) ==
    Trimming => /\ TrimStart <= t
                /\ TrimEnd # None => t < TrimEnd

ShiftTicks == IF Trimming THEN TrimStart ELSE 0

Shifted(f) ==
    IF f.pts = None THEN f ELSE [f EXCEPT !.pts = @ - ShiftTicks]

BugSlotsBefore(t) ==
    IF t >= nextSlot * SlotTicks THEN (t \div SlotTicks) - nextSlot + 1 ELSE 0

\* How many slots of the grid begin strictly before time t and are not filled.
SlotsBefore(t) ==
    IF t > nextSlot * SlotTicks
    THEN ((t - 1) \div SlotTicks) - nextSlot + 1
    ELSE 0

BugInSlot(f, slot) == f

\* The frame re-stamped with the slot it is shown in.
InSlot(f, slot) == [f EXCEPT !.pts = slot]

\* FpsConv.push: the held frame fills every slot that begins before t, then
\* the new frame is held in its place.
Conform(f, t) ==
    LET n == IF last = NoFrame THEN 0 ELSE SlotsBefore(t)
    IN  /\ due' = [i \in 1..n |-> InSlot(last, nextSlot + i - 1)]
        /\ nextSlot' = nextSlot + n
        /\ last' = f

\* A frame leaves the decoder; the report counts it.
NoteDecoded ==
    /\ decoded' = Append(decoded, Head(decBuf))
    /\ report' = [report EXCEPT !.decoded = @ + 1]
    /\ decBuf' = Tail(decBuf)

BugClockAfter(kept) == IF IsVideo \/ ~kept THEN clock ELSE clock + 1

\* The sample clock counts all audio, kept or dropped.
ClockAfter(kept) == IF IsVideo THEN clock ELSE clock + 1

\* The decoder hands out a frame that lies outside the trim window.
DropFrame ==
    /\ pc = "decode"
    /\ decBuf # <<>>
    /\ NeedsTime
    /\ LET t == FrameTime(Head(decBuf)) IN t # None /\ ~Keeps(t)
    /\ NoteDecoded
    /\ clock' = ClockAfter(FALSE)
    /\ UNCHANGED <<setup, pc, stage, due, decEof, read, cfrVars, encVars, outVars>>

\* The decoder hands out a frame that is kept: it is shifted, goes through the
\* CFR stage if there is one, and what is due goes on to emit().
HandleFrame ==
    /\ pc = "decode"
    /\ decBuf # <<>>
    /\ LET f == Head(decBuf)
           t == FrameTime(f)
       IN  /\ NeedsTime => t # None
           /\ NeedsTime => Keeps(t)
           /\ IF Cfr
              THEN Conform(Shifted(f), t - ShiftTicks)
              ELSE /\ due' = <<Shifted(f)>>
                   /\ UNCHANGED cfrVars
    /\ NoteDecoded
    /\ clock' = ClockAfter(TRUE)
    /\ pc' = "emit"
    /\ UNCHANGED <<setup, stage, decEof, read, encVars, outVars>>

\* A video frame that must be placed in time and has no timestamp: an error.
Untimed ==
    /\ pc = "decode"
    /\ decBuf # <<>>
    /\ NeedsTime
    /\ FrameTime(Head(decBuf)) = None
    /\ NoteDecoded
    /\ pc' = "failed"
    /\ UNCHANGED <<setup, stage, clock, due, decEof, read, cfrVars, encVars, outVars>>

BugAfterDecoder == "demux"

\* Where the frame loop returns to.
AfterDecoder == IF stage = "stream" THEN "demux" ELSE "held"

\* receive_frame returns Again or Eof.  Before the flush a decoder may keep
\* frames back; afterwards it says Eof only when it has none left.
DecoderEmpty ==
    /\ pc = "decode"
    /\ decEof => decBuf = <<>>
    /\ pc' = AfterDecoder
    /\ UNCHANGED <<setup, stage, clock, due, report, decVars, cfrVars, encVars, outVars>>

-----------------------------------------------------------------------------
(* emit *)

BugUnderLimit == (IsVideo /\ Limit # None) => videoSent <= Limit

UnderLimit == (IsVideo /\ Limit # None) => videoSent < Limit

\* The frame passes the -frames:v gate and goes to the encoder; a video frame
\* leaves its timestamp in the queue.
EmitFrame ==
    /\ pc = "emit"
    /\ due # <<>>
    /\ UnderLimit
    /\ videoSent' = IF IsVideo /\ Limit # None THEN videoSent + 1 ELSE videoSent
    /\ pendingPts' = IF IsVideo THEN Append(pendingPts, Head(due).pts) ELSE pendingPts
    /\ encBuf' = Append(encBuf, Head(due))
    /\ accepted' = Append(accepted, Head(due))
    /\ due' = Tail(due)
    /\ pc' = "drain"
    /\ UNCHANGED <<setup, stage, clock, report, encEof, decVars, cfrVars, outVars>>

\* The audio filters leave nothing of the frame.
FilterOut ==
    /\ pc = "emit"
    /\ due # <<>>
    /\ Atrim
    /\ due' = Tail(due)
    /\ UNCHANGED <<setup, pc, stage, clock, report, decVars, cfrVars, encVars, outVars>>

\* Past the limit a frame is dropped.
OverLimit ==
    /\ pc = "emit"
    /\ due # <<>>
    /\ ~UnderLimit
    /\ due' = Tail(due)
    /\ UNCHANGED <<setup, pc, stage, clock, report, decVars, cfrVars, encVars, outVars>>

\* Nothing (more) is due: back to the decoder, or on to the next step of finish.
EmittedAll ==
    /\ pc = "emit"
    /\ due = <<>>
    /\ pc' = CASE stage \in {"stream", "flush"} -> "decode"
               [] stage = "held" -> "tail"
               [] OTHER -> "flush"
    /\ UNCHANGED <<setup, stage, clock, due, report, decVars, cfrVars, encVars, outVars>>

-----------------------------------------------------------------------------
(* drain *)

BugPoppedPts(stamped) ==
    IF IsVideo /\ pendingPts # <<>> /\ ~stamped THEN Tail(pendingPts) ELSE pendingPts

\* One timestamp leaves the queue with every packet, needed or not.
PoppedPts(stamped) ==
    IF IsVideo /\ pendingPts # <<>> THEN Tail(pendingPts) ELSE pendingPts

\* The timestamp under which the packet of frame f is muxed.
PacketPts(f, stamped) ==
    IF stamped \/ ~IsVideo THEN f.pts
    ELSE IF pendingPts = <<>> THEN None ELSE Head(pendingPts)

\* The encoder has a packet ready: it is stamped, if the
\* encoder did not do it, and muxed.
MuxPacket(stamped) ==
    /\ pc = "drain"
    /\ encBuf # <<>>
    /\ pendingPts' = PoppedPts(stamped)
    /\ muxed' = Append(muxed, [Head(encBuf) EXCEPT !.pts = PacketPts(Head(encBuf), stamped)])
    /\ encBuf' = Tail(encBuf)
    /\ report' = [report EXCEPT !.written = @ + 1]
    /\ UNCHANGED <<setup, pc, stage, clock, due, encEof, accepted, videoSent, decVars,
                   cfrVars>>

\* receive_packet returns Again or Eof.
EncoderEmpty ==
    /\ pc = "drain"
    /\ encEof => encBuf = <<>>
    /\ pc' = IF stage = "end" THEN "done" ELSE "emit"
    /\ UNCHANGED <<setup, stage, clock, due, report, decVars, cfrVars, encVars, outVars>>

-----------------------------------------------------------------------------
(* finish, after the decoder is drained *)

\* FpsConv.finish: the held frame takes the next slot.
ReleaseHeld ==
    /\ pc = "held"
    /\ IF Cfr /\ last # NoFrame
       THEN /\ due' = <<InSlot(last, nextSlot)>>
            /\ nextSlot' = nextSlot + 1
            /\ last' = NoFrame
       ELSE UNCHANGED <<due, cfrVars>>
    /\ stage' = "held"
    /\ pc' = "emit"
    /\ UNCHANGED <<setup, clock, report, decVars, encVars, outVars>>

\* The resampler's tail, if it has one, is encoded as a last, untimed frame.
FlushResampler ==
    /\ pc = "tail"
    /\ stage' = "tail"
    /\ \/ /\ Resamples
          /\ encBuf' = Append(encBuf, NoFrame)
          /\ accepted' = Append(accepted, NoFrame)
          /\ pc' = "drain"
          /\ UNCHANGED <<encEof, pendingPts, videoSent>>
       \/ /\ pc' = "flush"
          /\ UNCHANGED encVars
    /\ UNCHANGED <<setup, clock, due, report, decVars, cfrVars, outVars>>

BugFlushEncoder ==
    /\ pc = "flush"
    /\ stage' = "end"
    /\ pc' = "drain"
    /\ UNCHANGED <<setup, clock, due, report, decVars, cfrVars, encVars, outVars>>

FlushEncoder ==
    /\ pc = "flush"
    /\ encEof' = TRUE
    /\ stage' = "end"
    /\ pc' = "drain"
    /\ UNCHANGED <<setup, clock, due, report, decVars, cfrVars, encBuf, pendingPts,
                   accepted, videoSent, outVars>>

\* The demuxer, a codec, a filter or the muxer returns an error; the job ends.
Fail ==
    /\ pc \in {"demux", "decode", "emit", "drain", "tail"}
    /\ pc' = "failed"
    /\ UNCHANGED <<setup, stage, clock, due, report, decVars, cfrVars, encVars, outVars>>

-----------------------------------------------------------------------------

Next ==
    \/ \E pts \in (0..MaxPts) \cup {None} : ReadPacket(pts)
    \/ EndOfInput
    \/ DropFrame \/ HandleFrame \/ Untimed \/ DecoderEmpty
    \/ EmitFrame \/ FilterOut \/ OverLimit \/ EmittedAll
    \/ \E stamped \in BOOLEAN : MuxPacket(stamped)
    \/ EncoderEmpty
    \/ ReleaseHeld \/ FlushResampler \/ FlushEncoder
    \/ Fail

Spec == Init /\ [][Next]_vars

-----------------------------------------------------------------------------
(* Properties *)

Running == pc \notin {"done", "failed"}

\* The decoded frames the trim window should keep: a frame without timestamp
\* starts where the frames before it, kept or not, end.
TrueTime(i) == IF decoded[i].pts # None THEN decoded[i].pts ELSE i - 1
InWindow(i) ==
    Trimming => /\ TrimStart <= TrueTime(i)
                /\ TrimEnd # None => TrueTime(i) < TrimEnd
Kept == Ascending({i \in 1..Len(decoded) : InWindow(i)})

WindowStart == IF Trimming THEN TrimStart ELSE 0

\* The frames of the window, at their distance from its start.
Wanted ==
    [k \in 1..Len(Kept) |->
        LET f == decoded[Kept[k]]
        IN  IF f.pts = None THEN f ELSE [f EXCEPT !.pts = @ - WindowStart]]

Truncated(s) ==
    IF Limit = None \/ ~IsVideo \/ Len(s) <= Limit THEN s ELSE SubSeq(s, 1, Limit)

\* The tail of the resampler, which comes last, is not one of the decoded frames.
HasTail == accepted # <<>> /\ Last(accepted).id = 0
AcceptedFrames == IF HasTail THEN Front(accepted) ELSE accepted

\* "Decoded frames before this point are dropped; timestamps are shifted so
\* the output starts at zero" (OutputSpec.trim_start): when the stream ends,
\* the encoder was given exactly the frames of the window, in order, up to the
\* -frames:v limit, whatever the codecs held back and whatever had timestamps.
WindowExact ==
    (pc = "done" /\ ~Cfr /\ ~Atrim) => AcceptedFrames = Truncated(Wanted)

\* Under -r the output ticks in slots and leaves none out: the n-th frame
\* handed to the encoder is that of slot n - 1.
CfrTimeline == Cfr => \A i \in 1..Len(accepted) : accepted[i].pts = i - 1

OutTime(k) == TrueTime(Kept[k]) - WindowStart

\* The frame a viewer should see in slot s: the latest one that has started
\* when the slot begins, and the first one before any has.
Started(s) == {k \in 1..Len(Kept) : OutTime(k) <= s * SlotTicks}
ShownIn(s) == decoded[Kept[IF Started(s) = {} THEN 1 ELSE Max(Started(s))]].id

Monotone == \A k \in 1..(Len(Kept) - 1) : OutTime(k) <= OutTime(k + 1)

\* FpsConv.push: for input in presentation order every slot shows the latest
\* frame that has started, and at the end of the stream the last frame is in
\* the last slot: no gap is left open and no frame is shown too early.
CfrShowsLatest ==
    (Cfr /\ pc # "failed" /\ Monotone) =>
        /\ \A i \in 1..Len(accepted) : accepted[i].id = ShownIn(i - 1)
        /\ (pc = "done" /\ Kept # <<>> /\ Limit = None) =>
               Last(accepted).id = decoded[Last(Kept)].id

\* `drain` stamps packets from a queue kept beside the encoder: every muxed
\* packet carries the timestamp of the very frame it encodes.
StampsMatch ==
    \A i \in 1..Len(muxed) : muxed[i] = accepted[i]

\* The stream implements the abstract pipe: packets in the order of their
\* frames, under their timestamps, and none missing when it is done.
Pipe == INSTANCE StreamPipe WITH
    outcome <- IF Running THEN "running" ELSE pc
PipeSpec == Pipe!Spec

\* The loops come to an end: the input is finite and the flushes drain.
Terminates == <>~Running

=============================================================================
