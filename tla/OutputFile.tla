------------------------------ MODULE OutputFile ------------------------------
(***************************************************************************)
(* One output of a job (crates/rff/src/transcode.rs makes its muxer by     *)
(* the name of the output): an HLS playlist with segments, an MP4 or       *)
(* Matroska file - seekable, or a pipe - or a DASH manifest with           *)
(* fragments.  A muxer gets write_header, packets, and write_trailer; an   *)
(* MP4 or Matroska file is then read back, also when it was cut off.       *)
(***************************************************************************)
EXTENDS HlsSegmenter

CONSTANTS
    Streams,        \* of an MP4 or DASH output: [audio, scale, extradata]
    Inputs,         \* the packets of its streams: a sequence of samples of each
    Max32, MovieScale, SegSeconds,
    MkvOutputs,     \* Matroska files: [streams, input]
    Ms, KeySpan, ClusterSpan, RelMin, MaxInterleave, MaxInterleaveBytes

ASSUME OutputAssumption ==
    /\ Max32 \in Nat \ {0} /\ MovieScale \in Nat \ {0} /\ SegSeconds \in Nat \ {0}
    /\ \A t \in DOMAIN Streams : Streams[t].scale \in Nat \ {0}
    /\ \A i \in Inputs : DOMAIN i = DOMAIN Streams
    /\ \A m \in MkvOutputs : DOMAIN m.input = DOMAIN m.streams

\* The relative timestamps of a cluster have room for more than the queues hold.
ASSUME MkvAssumption ==
    /\ Ms \in Nat \ {0} /\ {KeySpan, MaxInterleaveBytes} \subseteq Nat
    /\ KeySpan <= ClusterSpan /\ ClusterSpan <= MaxInterleave /\ MaxInterleave < -RelMin

VARIABLES
    format,         \* "hls", "mp4", "dash" or "mkv"
    input, fed,     \* the packets of each stream, and how many were handed over
    kind, stage, tracks, packets, lastTrack, file,      \* of Mp4Muxer
    source, opened, locs, next, cur, at, got,           \* of Mp4Demuxer
    written, manifest,                                  \* of DashMuxer
    plans, queues, maxKey, seq, blocks, seg,            \* of MkvMuxer
    pos, segEnd, within                                 \* of MkvDemuxer

hlsVars == vars
mp4Vars == <<kind, packets, lastTrack, file>>
readVars == <<source, opened, locs, next, cur, at, got>>
dashVars == <<written, manifest>>
muxVars == <<stage, tracks, fed>>
mkvVars == <<plans, queues, maxKey, seq, blocks, seg, pos, segEnd, within>>
outputVars == <<hlsVars, format, input, muxVars, mp4Vars, readVars, dashVars, mkvVars>>

Mp4 == INSTANCE Mp4Demuxer WITH NoTs <- NoPts
Dash == INSTANCE DashMuxer WITH NoTs <- NoPts
Mkv == INSTANCE MkvDemuxer WITH NoTs <- NoPts

OutputInit ==
    /\ format \in {"hls", "mp4", "dash", "mkv"}
    /\ \E m \in IF format = "mkv" THEN MkvOutputs ELSE {CHOOSE m \in MkvOutputs : TRUE} :
       \E k \in IF format \in {"mp4", "mkv"} THEN {"stream", "buffered"} ELSE {"stream"} :
          /\ input \in CASE format = "mkv" -> {m.input}
                         [] format = "hls" -> {CHOOSE i \in Inputs : TRUE}
                         [] OTHER -> Inputs
          /\ Mp4!MuxInit(k, Streams)
          /\ Mkv!MuxInit(k, m.streams)
    /\ fed = [t \in DOMAIN input |-> 0]
    /\ Init
    /\ Mp4!DemuxInit
    /\ Mkv!DemuxInit
    /\ Dash!DashInit

HlsOutput ==
    /\ format = "hls"
    /\ Next
    /\ UNCHANGED <<format, input, muxVars, mp4Vars, readVars, dashVars, mkvVars>>

\* The next packet of stream t is handed over; the streams come in any order.
Feed(t) ==
    /\ fed[t] < Len(input[t])
    /\ fed' = [fed EXCEPT ![t] = @ + 1]

Mp4Output ==
    /\ format = "mp4"
    /\ \/ Mp4!WriteHeader /\ UNCHANGED fed
       \/ \E t \in DOMAIN Streams : Feed(t) /\ Mp4!WritePacket(t, input[t][fed'[t]])
       \/ Mp4!WriteTrailer /\ UNCHANGED fed
       \/ Mp4!CutOff /\ UNCHANGED fed
    /\ UNCHANGED <<hlsVars, format, input, readVars, dashVars, mkvVars>>

ReadBack ==
    /\ format = "mp4"
    /\ Mp4!OpenFile \/ Mp4!ReadPacket \/ Mp4!EndOfFile
    /\ UNCHANGED <<hlsVars, format, input, muxVars, mp4Vars, dashVars, mkvVars>>

DashOutput ==
    /\ format = "dash"
    /\ \/ Dash!WriteHeader /\ UNCHANGED fed
       \/ \E t \in DOMAIN Streams : Feed(t) /\ Dash!WritePacket(t, input[t][fed'[t]])
       \/ Dash!WriteTrailer /\ UNCHANGED fed
       \/ Dash!CutOff /\ UNCHANGED fed
    /\ UNCHANGED <<hlsVars, format, input, mp4Vars, readVars, mkvVars>>

\* `kind' and `stage' belong to the MKV muxer too, `opened' and `got' to its reader.
MkvOutput ==
    /\ format = "mkv"
    /\ \/ /\ \E t \in DOMAIN input :
                Feed(t) /\ (Mkv!EnqueuePacket(t, fed'[t], input[t][fed'[t]])
                            \/ Mkv!BufferPacket(t, fed'[t], input[t][fed'[t]]))
       \/ /\ Mkv!WriteHeader \/ Mkv!WriteFileHeader \/ Mkv!HeaderRefused \/ Mkv!WriteQueued
             \/ Mkv!BlockRefused \/ Mkv!PumpEnds \/ Mkv!FlushQueues \/ Mkv!FinishFile
             \/ Mkv!WriteOut \/ Mkv!CutOff
          /\ UNCHANGED fed
    /\ UNCHANGED <<hlsVars, format, input, tracks, packets, lastTrack, file, readVars, dashVars,
                   pos, segEnd, within>>

MkvReadBack ==
    /\ format = "mkv"
    /\ Mkv!Demux
    /\ UNCHANGED <<hlsVars, format, input, muxVars, mp4Vars, source, locs, next, cur, at, dashVars,
                   plans, queues, maxKey, seq, blocks, seg>>

OutputNext == HlsOutput \/ Mp4Output \/ ReadBack \/ DashOutput \/ MkvOutput \/ MkvReadBack

OutputSpec == OutputInit /\ [][OutputNext]_outputVars

-----------------------------------------------------------------------------
(* Properties *)

Sent(t) == SubSeq(input[t], 1, fed[t])
Stamps(t, f) == [i \in 1..fed[t] |-> input[t][i][f]]

\* The packets of stream t that were read, in order.
GotOf(t) == SelectSeq(got, LAMBDA p : p.track = t)

\* The packets the muxer can time: each has a pts, and they are not all equal.
TimedStream(t) == Mp4!DecodeTimes(Stamps(t, "pts"), Stamps(t, "dts")) # <<>>

\* The samples that are shown: those timed at 0 or later.
ShownOf(t) == {i \in 1..fed[t] : TimedStream(t) => Stamps(t, "pts")[i] >= 0}

\* The file as it is read: the packets of each stream that are shown come back,
\* each once, in the order they were sent, whole and with their keyframe flags.
SamplesComeBack ==
    (format = "mp4" /\ opened = "eof") =>
        \A t \in DOMAIN Streams :
            /\ \A k \in 1..Len(GotOf(t)) :
                /\ GotOf(t)[k].whole
                /\ GotOf(t)[k].key = input[t][GotOf(t)[k].index].key
                /\ k > 1 => GotOf(t)[k].index = GotOf(t)[k - 1].index + 1
            /\ ShownOf(t) \subseteq {GotOf(t)[k].index : k \in 1..Len(GotOf(t))}

Earliest(times) == CHOOSE p \in times : \A q \in times : p <= q

\* Where the presentation of a stream starts: at the first pts, or at 0 if
\* packets are timed before it; or at the first dts, should that be later still.
\* The reader starts video at the first picture it shows, so that one with no
\* picture at the very start comes out early by less than a picture.
Origin(t) ==
    LET pts == Stamps(t, "pts")
        dts == Mp4!DecodeTimes(pts, Stamps(t, "dts"))
        start == Mp4!AtLeast(Earliest({pts[i] : i \in 1..fed[t]}), 0)
    IN  IF start <= dts[1] THEN dts[1]
        ELSE IF Streams[t].audio THEN start
        ELSE Earliest({pts[i] : i \in ShownOf(t)})

\* Streams that can be timed come back with their presentation times, as far
\* apart as they were and counted from where the presentation starts.
TimesComeBack ==
    (format = "mp4" /\ opened = "eof") =>
        \A t \in DOMAIN Streams : TimedStream(t) =>
            \A k \in 1..Len(GotOf(t)) :
                LET p == GotOf(t)[k]
                IN  p.index \in ShownOf(t) =>
                        p.pts = Stamps(t, "pts")[p.index] - Origin(t)

\* A file that was cut off is refused, and one that opens is read to its end.
NeverMisread ==
    /\ opened # "error"
    /\ stage = "done" => opened # "refused"

-----------------------------------------------------------------------------
(* Matroska *)

SetupHeaders(t) == IF plans[t].harvest = "vorbis" THEN 3 ELSE 0
Blocks == SelectSeq(seg.elems, LAMBDA e : e.id = "block")
BlocksOf(t) == SelectSeq(Blocks, LAMBDA e : e.track = t)

\* The block a packet makes, with its times in milliseconds.
Prepared(t, i) == Mkv!PrepareBlock(t, i, input[t][i])

\* Of each stream all packets that are in the file as a whole are read, in the
\* order they were sent - of a file that was finished, all that were sent - with
\* their keyframe flags and within a millisecond of their times.
BlocksComeBack ==
    (format = "mkv" /\ opened = "eof") =>
        \A t \in DOMAIN input :
            /\ Len(GotOf(t)) = Len(BlocksOf(t))
            /\ stage = "done" => Len(GotOf(t)) = Mkv!AtLeast(fed[t] - SetupHeaders(t), 0)
            /\ \A k \in 1..Len(GotOf(t)) :
                  LET p == GotOf(t)[k]
                      x == input[t][p.index]
                      exact == Ms * (IF x.pts = NoPts THEN 0 ELSE x.pts)
                  IN  /\ p.index = SetupHeaders(t) + k
                      /\ plans[t].media = "video" => p.key = x.key
                      /\ p.pts * plans[t].scale - exact \in (-plans[t].scale)..(2 * plans[t].scale)

\* The key by which a packet is interleaved.
Key(t, i) == IF Prepared(t, i).dts = NoPts THEN Prepared(t, i).ts ELSE Prepared(t, i).dts

\* The packets that become blocks.
Stored == UNION {{<<t, i>> : i \in (SetupHeaders(t) + 1)..fed[t]} : t \in DOMAIN input}

\* The streams advance together: none goes back, and all of them fit the queues.
Orderly ==
    LET keys == {Key(p[1], p[2]) : p \in Stored}
    IN  /\ \A p, q \in Stored : (p[1] = q[1] /\ p[2] < q[2]) => Key(p[1], p[2]) <= Key(q[1], q[2])
        /\ \A j, k \in keys : k - j <= MaxInterleave
        /\ MapThenSumSet(LAMBDA p : input[p[1]][p[2]].size, Stored) <= MaxInterleaveBytes

\* "Blocks are then interleaved by timestamp across tracks" (mux.rs:912): in what
\* order ever the packets of several streams were handed over, their blocks are
\* in the order of decoding, in the file of either muxer.  Subtitles, which
\* nothing waits for, may be late.
Interleaved ==
    (format = "mkv" /\ opened = "eof" /\ Orderly) =>
        \A j, k \in 1..Len(Blocks) : (j < k /\ plans[Blocks[k].track].media # "subtitle") =>
            Key(Blocks[j].track, Blocks[j].index) <= Key(Blocks[k].track, Blocks[k].index)

\* Each cue is the place and the time of a cluster, and each cluster has one; it
\* ends where the next begins.  The cues are where the seek head says, the
\* segment is as long as the file, and its duration that of all blocks.
CuesFindClusters ==
    (format = "mkv" /\ stage = "done") =>
        LET f == seg.elems
            clusters == {i \in 1..Len(f) : f[i].id = "cluster"}
            place(p) == Mkv!SegmentAt + p + 1
            points == f[Len(f)].points
            ends == {Prepared(p[1], p[2]).ts + Prepared(p[1], p[2]).duration : p \in Stored}
        IN  /\ Len(f) = place(f[3].cues) /\ f[Len(f)].id = "cues"
            /\ Len(f) = Mkv!SegmentAt + f[2].size
            /\ clusters = {place(points[n].pos) : n \in 1..Len(points)}
            /\ \A n \in 1..Len(points) : f[place(points[n].pos) + 1].ts = points[n].ts
            /\ \A i \in clusters : i + f[i].size + 1 \in clusters \cup {Len(f)}
            /\ f[4].duration \in {0} \cup ends /\ \A e \in ends : e <= f[4].duration

\* A keyframe of video that is far enough from the start of its cluster is the
\* start of one, so that a player can seek to it.
ClustersStartAtKeys ==
    format = "mkv" =>
        \A i \in 1..Len(Blocks) :
            Blocks[i].key /\ plans[Blocks[i].track].media = "video" => Blocks[i].rel < KeySpan

\* "the file would be undecodable; refuse rather than write it silently broken"
\* (mux.rs:743): a finished file has the codec configuration of every H.264 track
\* of which it has blocks.
BrokenIsRefused ==
    (format = "mkv" /\ stage = "done") =>
        \A t \in DOMAIN plans : plans[t].harvest = "avc" /\ BlocksOf(t) # <<>> =>
            seg.elems[5].private[t]

-----------------------------------------------------------------------------
(* Of all kinds of output *)

\* What was written is what is read, from a seekable file and from a pipe, or
\* else the file is refused.
ReadsBack == SamplesComeBack /\ TimesComeBack /\ NeverMisread /\ BlocksComeBack /\ Interleaved

\* Segments of either kind tile the timeline, and a playlist or manifest is
\* written last: its durations are those of the segments, the samples of the
\* fragments are shown when their packets were stamped (HlsSegmenter, DashMuxer).
SegmentsTile ==
    DurationsTile /\ Dash!ManifestTiles /\ Dash!ShownAsStamped /\ CuesFindClusters

\* Segments of either kind start at a keyframe of the video and end at the next
\* that is due (HlsSegmenter, DashMuxer), and clusters as ClustersStartAtKeys says.
SegmentsCutWhereDue == CutsWhereDue /\ Dash!FragmentsCutWhereDue /\ ClustersStartAtKeys

-----------------------------------------------------------------------------
(* Values of the constants for TLC *)

\* A track of video at 3 ticks a second, and one of audio at 2.
MCStreams == <<[audio |-> FALSE, scale |-> 3, extradata |-> FALSE],
               [audio |-> TRUE, scale |-> 2, extradata |-> FALSE]>>

Both == {"sps", "pps"}

\* Video of up to four pictures that last two ticks each: in display order, with
\* B-pictures, with pictures before the first keyframe; starting before, at and
\* after 0; decode times right, late, missing or all equal; a pts missing.
Orders == {<<>>, <<0>>, <<0, 1, 2>>, <<0, 2, 1>>, <<1, 0, 2>>, <<0, 3, 1, 2>>}
Starts == {-4, 0, 3}

Decode(i, shift, mode) ==
    CASE mode = "none"  -> NoPts
      [] mode = "equal" -> 0
      [] mode = "late"  -> 2 * i + shift
      [] OTHER          -> 2 * i - 4 + shift

\* Whatever is decoded before a keyframe is shown before it.
KeySets(order) ==
    {keys \in {{}, {1}, {1, Len(order)}, DOMAIN order} :
        /\ keys \subseteq DOMAIN order
        /\ \A k \in keys : \A i \in 1..(k - 1) : order[i] < order[k]}

Video(order, shift, mode, keys, gap) ==
    [i \in 1..Len(order) |->
        [pts |-> IF i = gap THEN NoPts ELSE 2 * order[i] + shift,
         dts |-> Decode(i, shift, mode), key |-> i \in keys, size |-> 10 * i,
         sets |-> IF i = 1 THEN Both ELSE {}]]

Videos ==
    UNION {{Video(order, shift, mode, keys, 0) :
                shift \in Starts, mode \in {"given", "none"}, keys \in KeySets(order)} :
            order \in Orders}
    \cup {Video(order, shift, "late", {1}, 0) : order \in {<<0, 1, 2>>, <<0, 2, 1>>}, shift \in {0, 3}}
    \cup {Video(<<0, 2, 1>>, 0, mode, {1}, gap) : mode \in {"given", "equal"}, gap \in {0, 2}}
    \cup {[Video(<<0, 1>>, 0, "given", {1}, 0) EXCEPT ![1].sets = {"sps"}, ![2].sets = {"pps"}]}

Audio(n, start) ==
    [i \in 1..n |-> [pts |-> 2 * i + start, dts |-> NoPts, key |-> TRUE, size |-> 7, sets |-> {}]]

Audios == {Audio(0, 0), Audio(2, -4), Audio(2, -3)}

MCInputs == {<<v, a>> : v \in Videos, a \in Audios}

-----------------------------------------------------------------------------
(* Matroska: a millisecond and a half in a tick of video, three quarters in one
   of audio *)

MCRelMin == -12

Stream(media, scale, harvest) == [media |-> media, scale |-> scale, harvest |-> harvest]
H264 == Stream("video", 2, "avc")

Pic(pts, dts, key, sets) ==
    [pts |-> pts, dts |-> dts, key |-> key, size |-> 2, sets |-> sets, duration |-> 2]
Sound(pts, size) ==
    [pts |-> pts, dts |-> NoPts, key |-> FALSE, size |-> size, sets |-> {}, duration |-> 4]

\* In order; with a B-picture; decoded from before time 0; parameter sets that
\* come late, or in two packets and so never; a film that starts late.
Films ==
    { <<Pic(0, NoPts, TRUE, Both), Pic(2, NoPts, FALSE, {}), Pic(3, NoPts, TRUE, Both)>>,
      <<Pic(0, -2, TRUE, Both), Pic(4, 0, FALSE, {}), Pic(2, 2, FALSE, {})>>,
      <<Pic(-4, NoPts, TRUE, Both), Pic(1, NoPts, FALSE, {}), Pic(-1, NoPts, FALSE, {})>>,
      <<Pic(0, NoPts, FALSE, {}), Pic(1, NoPts, TRUE, Both)>>,
      <<Pic(0, NoPts, TRUE, {"sps"}), Pic(NoPts, NoPts, FALSE, {"pps"})>>,
      <<Pic(18, NoPts, TRUE, Both), Pic(20, NoPts, FALSE, {})>> }

\* None; a packet every three milliseconds; one that is as large as the queue.
Sounds == { <<>>, <<Sound(0, 1), Sound(4, 1), Sound(8, 1)>>, <<Sound(0, 1), Sound(3, 9)>>,
            <<Sound(0, 1), Sound(7, 1), Sound(14, 1), Sound(21, 1)>> }

MCMkvOutputs ==
    {[streams |-> <<H264, Stream("audio", 4, "no")>>, input |-> <<v, a>>] : v \in Films, a \in Sounds}
    \cup {[streams |-> <<H264, Stream("subtitle", 4, "no")>>,
           input |-> <<v, <<Sound(5, 1)>> >>] : v \in Films}
    \cup {[streams |-> <<Stream("video", 2, "av1"), Stream("audio", 4, "vorbis")>>,
           input |-> << <<Pic(0, NoPts, TRUE, {"sequence"}), Pic(14, NoPts, TRUE, {})>>,
                        <<Sound(0, 1), Sound(0, 1), Sound(0, 1), Sound(0, 1), Sound(4, 1)>> >>]}
\* A film that starts later than the queues wait, beside sound.
MCLateFilm ==
    {[streams |-> <<H264, Stream("audio", 4, "no")>>,
      input |-> << <<Pic(18, NoPts, TRUE, Both)>>, <<Sound(0, 1), Sound(7, 1), Sound(14, 1), Sound(21, 1)>> >>]}
MCNoInputs == {<< <<>>, <<>> >>}
=============================================================================
