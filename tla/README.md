# A verification project for remade_ffmpeg_rs

TLA+ models of the stateful core of `remade_ffmpeg_rs` (a media toolkit in the
manner of FFmpeg: demux, decode, filter, encode, mux), the TLC configurations
that check them, and TLAPS proofs about eight of the parts. Paths below are relative
to `src/crates/` unless they say otherwise.

Most of the repository is signal processing and byte layout: large pure functions,
which have reference vectors and fuzzers. What those hardly reach is the thin
layer that holds the parts together: queues beside queues, stages that hold data
back and must be flushed in order, timestamps that are rebased on their way,
loops that stop on `Again`, sessions and receivers on a network that loses and
reorders, tables written after the data they index, files that are cut off, two
threads and a channel. That layer is what is modelled.

## 1. The system

| Part | Where | State it keeps | Operations |
|---|---|---|---|
| job | `rff/src/transcode.rs`, `run` | demuxers, selection, per-input operation tables, muxer | open inputs, select streams, plan, create the output, drive each input, trailer |
| transcode operation | same, `TranscodeOp`, `Trim`, `FpsConv` | decoder, encoder, sample clock, frame-rate slot and held frame, `pending_pts`, resampler, counters | `handle_frame`, `emit`, `conform`, `drain`, `finish` |
| stream copy | same, `CopyOp` | `started` | `process` |
| VP9 decoder | `rusty_vp9/src/lib.rs` | queue of coded frames, 8 reference slots, plane pool | `push`, `next_frame`, `flush` |
| H.264 decoder wrapper | `rff-codec-h264/src/lib.rs` | reorder buffer, buffer size, output queue | `send_packet`, `receive_frame`, `flush` |
| H.265 decoder | `rusty_h265/src/decoder.rs`, `rff-codec-hevc` | picture buffer with reference marks, picture order count, pending timestamp, output queue | `decode_packet`, `next_frame`, `flush` |
| MP3 decoder | `rusty_mp3/src/lib.rs` | byte buffer, bit reservoir, overlap and filter state, queue; in the pipelined form a second thread and a channel | `push`, `next_frame`, `flush`, `decode_pipelined` |
| RTP receiver | `rff-io/src/rtp.rs` | last sequence number, frame under assembly, fragment, quantisation tables, statistics, records | `push_packet`, `finish`, `read` |
| RTP demuxer | `rff-format-rtp/src/lib.rs` | first and last timestamp, number of wraps | `read_header`, `read_packet` |
| UDP input and output | `rff-io/src/udp.rs` | datagram being filled, datagram being served | `write`, `flush`, drop, `read` |
| MPEG-TS | `rff-format-ts/src/{lib,mux}.rs` | program tables, one unit under assembly per PID, packets found in the header scan | `read_header`, `read_packet`, `write_packet` |
| RTMP publisher | `rff-io/src/rtmp.rs` | session phase, chunk reader with one partial message per chunk stream, bytes of FLV not yet forwarded | `connect`, `write`, `pump`, `flush` |
| FLV muxer | `rff-format-flv/src/mux.rs` | size of the previous tag | `write_header`, `write_packet` |
| HTTP input | `rff-io/src/lib.rs` | redirects left, chunk under way | `fetch`, `read` |
| HLS input | `rff-format-hls/src/input.rs` | nesting depth, list of segments, segment being read | `resolve`, `read` |
| HLS muxer | `rff-format-hls/src/lib.rs` | current segment, its start, last reference timestamp, names, durations | `write_header`, `write_packet`, `write_trailer` |
| MP4 and DASH | `rff-format-mp4/src/{lib,dash}.rs` | sample sizes and offsets, pending packets, in-band parameter sets; read side: sample index, merge of tracks, position | `write_header`, `write_packet`, `write_trailer`, `read_header`, `read_packet` |
| Matroska | `rff-format-mkv/src/{mux,lib}.rs` | track plans, interleave queues, open cluster, cues; read side: segment end, cluster under way | `write_header`, `write_packet`, `pump`, `write_trailer`, `read_header`, `read_packet` |
| other containers | `rff-format-*` | offsets, pages | `read_packet`, `write_packet`, ... |
| other codecs | `rff-codec-*`, `rusty_*` | one frame or one queue between send and receive; encoder look-ahead | send, receive, flush |
| filters, resampler | `rff-filter`, `rff-resample` | FIR history, resampler phase | apply, finish |
| front ends | `rff-cli`, `rff-server`, `rff-ui` | nothing that outlives a job | parse, run one job |

How they interact. `run` drives everything from one thread. A packet read from a
demuxer goes to the operation of its stream: it is skipped, copied (`CopyOp`), or
sent to the decoder, whose frames are pulled until it answers `Again` or `Eof`.
Each frame passes trim window, timestamp shift and frame-rate conversion, may be
swallowed by a filter, and goes to the encoder, whose packets are pulled in the
same way and written to the muxer all streams share. At the end of an input the
operations are finished in turn: decoder, frame rate, resampler, encoder. Inputs
are read one after another. An error anywhere ends the job without a trailer.
Demuxers and muxers stand on readers and writers: a file, a pipe, or a session
(`rff-io`) chosen by the scheme of the address, which hides datagrams, chunks,
redirects and replies behind `Read` and `Write`. Outside this thread there are
the peers on the network and the worker threads inside some codecs; of these
the two stages of `decode_pipelined` are the ones that exchange data while they
run.

What is hard, and what would make each part correct:

- **transcode operation**: five buffers in a row, each with its own delay.
  Correct when exactly the frames of the window come out, each packet with the
  timestamp of its own frame, and nothing stays in a buffer at the end.
- **frame-rate conversion**: exact boundaries, gaps and bursts. Correct when the
  output has no hole and every slot shows the latest frame.
- **stream copy**: works on packets in decoding order, promises something about
  pictures in presentation order.
- **job**: selection, planning and driving use three different orders of streams.
  Correct when every packet reaches the output it was selected for, the output
  is touched only after planning, and success means that everything was written.
- **video decoders**: pictures leave in another order than they came, while
  buffers are recycled, sequences restart, pictures are skipped or damaged, and
  `Again` means two things. Correct when each picture that should be shown
  leaves once, in display order, with its own timestamp.
- **MP3**: frames straddle packets and depend on their predecessors; two threads.
- **RTP**: loss, duplication, reordering, tables that persist between frames, two
  counters that wrap. Correct when what comes out is whole and what arrived
  intact comes out.
- **UDP and MPEG-TS**: datagrams that share no boundary with units of the stream,
  an end that is only silence. Correct when a unit is never put together from two,
  and intact ones come out with their timestamps.
- **RTMP**: replies among other messages, in chunks of a size that changes under
  way; a server that says nothing. Correct when replies are found, tags are
  forwarded once and whole, and no wait is for ever.
- **HTTP and HLS input**: redirects, playlists in playlists, bodies that break off.
- **HLS and DASH output**: lists that must stay aligned over failures; boundaries
  that depend on packets of one stream among those of all.
- **MP4**: everything a reader needs is derived at the trailer from what was seen:
  decode times invented where there are none, offsets and edit list from those,
  chunk tables from the order of writing. Correct when what was written is what
  is read.
- **Matroska**: blocks wait in queues until the earliest is known and until every
  codec has told its configuration, or until the queues are full; sizes, cues and
  duration are patched in later. Correct when the blocks are in the order of decoding,
  whatever order they came in, the cues find the clusters, and a file that is cut
  off gives back what is in it.

`PROJECT.json` lists every part under `components` and each hazard, at its line,
under `hazards`, with the properties that would catch it or the reason there is
none.

## 2. The modules

| Module | Models | Composition |
|---|---|---|
| `StreamPipe` | the abstract promise of a stream: accepted in order, muxed in order with its own timestamp, done only when empty, may fail anywhere | refined by `TranscodeOp` and `Vp9Decoder` |
| `TranscodeOp` | one transcoded stream from packet to packet | decoder and encoder are FIFO buffers with any delay |
| `CopyOp` | one copied stream | |
| `StreamOp` | what `build_op` makes of a stream | one of the two above |
| `Transcode` | a whole job over several inputs and streams | uses of a transcoded stream only that it is a pipe |
| `Vp9Decoder` | VP9 queue, slots and pool with the engine's receive loop | |
| `H264Reorder` | display reordering with the engine's receive loop | |
| `H265Dpb` | H.265 random access, picture order counts, picture buffer, bumping, pending timestamps | |
| `VideoDecoder` | the decoder the registry makes for a stream | one of the three above |
| `Mp3Bytes` | frame sync as predicates on a position | extended by the next three |
| `Mp3Serial` | decoding a whole stream at once, as a specification | refined by the next two |
| `Mp3Decoder` | the push decoder, packets cut anywhere, behind the engine | |
| `Mp3Pipeline` | `decode_pipelined`: two threads and a bounded channel | |
| `Mp3Gate` | both decoders on one stream, one after the other, as the repository's own test runs them | composes the two above |
| `MCDecoders` | a stream of video or of sound to decode | one of `VideoDecoder` and `Mp3Gate` |
| `RtpReceiver` | the network and the sequence numbers | extended by the next two |
| `RtpH264`, `RtpJpeg` | the two depayloaders | |
| `RtpClock` | the 32-bit timestamp, unwrapped | |
| `RtpInput` | an `rtp://` input from datagrams to timestamps | composes the four above |
| `UdpLink` | writer, network, reader | |
| `TsDemuxer` | tables, header scan, reassembly of units | |
| `TsOverUdp` | a muxer's units over the link to the demuxer | composes the two above |
| `RtmpPublisher` | FLV tags and their timestamps; session, chunk reader and pump, with the server | |
| `HttpBody` | fetch, redirects, body | extended by the next |
| `HlsInput` | playlists to one stream of segments | |
| `NetworkIo` | a job on the network | one of `TsOverUdp`, `RtmpPublisher`, `HlsInput` by its scheme |
| `HlsSegmenter` | the HLS muxer | takes any sequence of packets |
| `Mp4Timing` | the timing plan: decode times, durations, offsets, edit | used by the next and by `DashMuxer` |
| `Mp4Muxer` | the seekable and the buffered MP4 muxer, to the trailer or cut off | |
| `Mp4Index` | the sample index a reader builds from the tables, as operators | |
| `Mp4Demuxer` | walk to `moov`, merge of tracks, reader position | over what `Mp4Muxer` wrote |
| `DashMuxer` | fragments and manifest | |
| `MkvMuxer` | the seekable and the buffered Matroska muxer, to the trailer or cut off | extends `Mp4Timing`, of which it takes the derived decode times |
| `MkvDemuxer` | the walk over elements | over what `MkvMuxer` wrote |
| `Ordering` | sorting a finite set, by counting what is before an element | used where the code sorts or the properties speak of an order |
| `OutputFile` | an output of a job | one of `HlsSegmenter`, `Mp4Muxer` with `Mp4Demuxer`, `DashMuxer`, `MkvMuxer` with `MkvDemuxer` |

A stream, an input or an output is one of several things, by codec, scheme or
name; the modules `StreamOp`, `VideoDecoder`, `RtpInput`, `NetworkIo` and
`OutputFile` make that choice where the code makes it, so that one run covers
all alternatives, and leave the state of the others idle. `MCDecoders` does the same
for the two kinds of decoders.

Values that a `.cfg` cannot spell out (streams of packets, jobs, setups) stand at the
end of the module that has the constant, or, where they are long, in `MCNetworkIo`
(scripts of servers, webs). The `*Proofs` modules hold the
theorems (section 4), and `SequenceFacts` what they need of sequences, sorting and
induction. Operators whose names begin with `Bug` are plausible mistakes
in the definition that follows them. No specification uses them; they are there
to show that a property would notice.

### State and actions against the code

A variable has the name of its field (`pendingPts` is `pending_pts`), with its
comment saying which; variables called *history* are not in the code and are read
by properties and by the bounds only. An action is one handler or one turn of a
loop. `pc`, `phase` and `stage` say where in the loops the program stands.

*TranscodeOp.* `setup` is what `build_op` makes of the options: the kind of stream,
its window, rate, limit and what audio conversion there is. It is chosen among the
constant `Setups` at the start and never changes; `IsVideo`, `Limit` and so on are
its fields. `ReadPacket` is the send in `process_packet`, `DropFrame`,
`HandleFrame`, `Untimed` and `DecoderEmpty` are the outcomes of one turn of the
receive loop (`handle_frame` and `frame_time` inside it), `EmitFrame`,
`FilterOut` and `OverLimit` those of `emit` on a frame that is due, `MuxPacket`
and `EncoderEmpty` a turn of `drain`, and `EndOfInput`, `ReleaseHeld`,
`FlushResampler` and `FlushEncoder` the four parts of `finish`. Time is counted
in ticks of the stream, and the start of the window is a whole number of them, so
that `shift_ticks` has nothing to round; an audio frame is one tick long, so that
the window keeps or drops it as a whole where the code may cut it. The tolerance of
1e-9 seconds in `keeps` and `push` stands for the exact comparison. `FpsConv`
counts slots with a division where the code has a loop.

*CopyOp.* `Forward` and `Drop` are the two results of `process`. The stream is
external: closed groups of pictures in decoding order, every picture with the
pictures it is predicted from.

*Transcode.* `job`, chosen among the constant `Jobs`, is what a `TranscodeSpec`
says: inputs with their streams, `-map` entries, requested codecs, overlay.
`OpenInput`, `Select`, `BuildOp` (one selected stream at a time),
`PlanDone`, `DecodeOverlay`, `CreateSink`, `WriteHeader` are `run` up to the
header; `ReadPacket`, `EndOfInput`, `FlushStream`, `NextInput` and
`WriteTrailer` are its loop. A transcoded stream may release any number of its
held packets when one more is read and releases all at its finish; a copied one
releases each at once. Which codec applies when none is given is part of the
field `recoded`.

*Vp9Decoder.* `Push` splits a superframe and marks the last displayable frame,
`Show`, `Hide`, `Hungry` and `Reject` are the results of `next_frame`.
`Retired` and `Reclaimed` walk the reference slots and hand a buffer to the pool
when the last slot lets go of it.

*H264Reorder.* `SendPacket`, `IdrUnit`, `Unit`, `UnitsDone` are `send_packet`
over the units of a packet, `Deliver` and `Hungry` `receive_frame`, `Flush`
`flush`. The order of pictures in the stream is external: any order that the
buffer size of its sequence allows. Errors of the bitstream decoder end the
job and are left out.

*H265Dpb.* A packet is one coded picture or an end-of-sequence unit; the encoder
is the environment and codes any picture that `Conforms`, the constraints H.265
puts on reordering, buffer size and latency, relative to the `Orderings` a
parameter set may name. Decoding a packet is one action: start of a sequence,
skipped leading pictures, picture order count, reference marking and missing
references, bumping, and the timestamp the picture takes. `MaxOdd` bounds the
pictures whose packet has no timestamp or whose slice does not parse.

*MP3.* A byte position holds junk or something that parses as a header. The
reservoir is the list of frames whose data went into it, so that the output says
with which state a frame was decoded; an output element also records what the
transform stage had seen.

*RTP.* A sender sends a fixed stream; the network decides which packets are lost or
doubled, and lets a packet overtake `window` others. A NAL unit or a scan is the
sequence of packets its pieces come from, so that a foreign or a missing piece
shows; a JPEG also names the start its quantisation tables came with. A STAP-A
packet is one piece. Reading is one thread: the demuxer pulls records, the reader
asks the socket when it has none. `RtpClock` takes a frame sent at any sender's
time within half a range of the last one, as far as the timestamps allow to tell.

*UDP and MPEG-TS.* One element of a sequence is a TS packet of 188 bytes; `Pack` is
the seven that fit a datagram. A TS packet is a table, or the n-th piece of a
unit. `handed` is the history of what `UdpWriter::write` was given: the next packet, and
the same one again when the send was interrupted (`WriteTsInterrupted`) after the code has
made it pending, because the muxer writes with `write_all`. Any other failure of a send
ends the job (`WriteTsFails`), and `Drop` sends what is pending or nothing. The
network repeats a datagram as often as `Copies` says and lets `Window` later ones overtake. A read that times out is an action of its own, because it
is how the stream ends.

*RtmpPublisher.* What the server sends is chosen at the start (`Scripts`), as
messages; the chunks they travel in interleave as RTMP lets them, and TCP hands
them over in portions of any size. `inbox` is what arrived. The muxer's bytes are
tokens, so that a tag cut in two or sent twice shows. A deadline that expires, a
server that closes and one that stalls once the session is live (`prompt`) are
actions. A reply that names no number gives the transaction id, which the code
takes for one (`LastNumber`); a command message of less than three bytes makes the
thread panic (`"panicked"`). A portion that holds more than a reply is dropped with its
reader (`torn`).

*HttpBody and HlsInput.* The web is a constant: for each URL a body in chunks, a
playlist, or a redirect. An exchange that fails and a connection that breaks
inside a body are actions. Whether a body's end is known from its length (`sized`) is
the server's choice: one that is not can still be cut after its last unit. After a
failed read the connection may deliver again to a demuxer that tries once more
(`ReadFails`). Relative addresses resolve against the URL asked for.

*HlsSegmenter.* `write_packet` is one of `Roll`, `OpenUntimed`, `Extend`;
`OpenFails` is an error of `File::create` after the old segment was closed,
`WriteFails` one of the underlying writes. Timestamps and durations are integers;
a negative distance falls back to the target as in the code.

*MP4 and DASH.* A packet is its timestamps, keyframe flag, size, and which
parameter sets it brings. The file is kept as its top-level boxes, the places of
the samples and the tables of `moov`; run-length tables stay as the runs they are
written as, and a chunk is the run of samples of one track that lie together.
`WriteHeader`, `WritePacket`, `WriteTrailer` are the muxer's handlers, `CutOff` the
process that dies or the disk that fills between any two. `OpenFile` is
`read_header` (walk, index, edit list), `ReadPacket` and `EndOfFile` are
`read_packet`. Times are integers, so the rescalings between track and
movie timescale round as in the code.

*Matroska.* The file is its sequence of EBML elements, each counted as one byte, so
that a size is a number of elements and a position the elements before it;
those with unknown size or a placeholder keep it until they are patched. A call of
`pump` is several actions: `WriteFileHeader` or `HeaderRefused`, then one `WriteQueued`
or `BlockRefused` for each block that leaves a queue, then `PumpEnds`, so that `CutOff`
can come between any two writes; a block that was being written is then there in
part (`Torn`). A track says what its codec still has to tell (`harvest`), and
`private` whether it has. `MkvMuxer` (the buffered one) is `BufferPacket` and
`WriteOut`. An action of the demuxer is a turn of the loop in `next_packet`; every
element of a header is read in `OpenFile`.

## 3. The runs

| Run | Checks | Distinct states |
|---|---|---|
| `op_setups` | one stream, transcoded or copied: exactly the window comes out, under the limit; the rate has no hole and shows the latest frame; packets carry their own timestamp; the transcoded stream is a `StreamPipe`; it ends; a copy is the window from its first keyframe on and splits no group in presentation order | 448 k |
| `jobs` | planning before touching, routing, delivery, termination | 13 k |
| `decoders` | video: each picture leaves once, in display order, under its own timestamp; pooled buffers are dead; VP9 is a `StreamPipe`. MP3: both decoders refine the serial one and agree; nothing waits; both end | 976 k |
| `rtp` | whole NAL units and JPEGs, nothing else lost, resynchronisation, losses reported, pts is elapsed time | 419 k |
| `network` | intact units come out with their timestamps, nothing is spliced but where the start of a unit was lost; what the writer is given goes out, in order; tags are forwarded, and replies found by a reader that lacks nothing; the HLS stream is the playlist; every wait ends, but for one | 430 k |
| `outputs` | HLS segments partition the packets; segments and fragments tile the timeline and start at keyframes where due; the playlist is complete; an MP4 file reads back as it was written or is refused; Matroska blocks come back in decoding order, clusters and cues agree | 582 k |
| `hls_rollover` | *violated*: a segment rolls over at a keyframe past the target | |
| `vp9_layers` | *violated*: every frame to be shown comes out | |
| `hevc_latency` | *violated*: pictures of a stream with a latency limit leave in display order | |
| `mkv_late` | *violated*: a finished Matroska file has the configuration of its H.264 track | |
| `udp_interrupted` | *violated*: what the reader serves is what arrived | |
| `rtmp_replies` | *violated*: a reply that the server gives is heard | |

Type invariants (`TypeOK`) stand where a proof rests on them or where a bound of
the code is part of them; `op_setups` checks the one of a transcoded stream.
Each property of a passing run has a mutant in `PROJECT.json`: with the named
definition replaced by its `Bug` form, TLC finds the property violated. Every
configuration is of a system that stops (the input ends, the job is done), so
deadlock checking is off; that the programs with loops reach their end, not a
stop halfway, is what `TranscodeEnds`, `NetworkEnds` and the `Terminates`
properties say.

### Bounds, and why they are enough

- `op_setups`: three packets, timestamps 0..4 or none, in six setups. A window of
  video from 1 to 3 has frames before it, at both ends, inside and after; the audio
  window from 1 to 2 has them by the sample clock alone; a gap of two slots and a
  burst need three frames. Decoder and encoder may hold all of them back, so every
  delay is there. The sixth setup lets a filter swallow any frame. A copy has three
  packets: a keyframe, a picture that refers to it and one between them.
- `jobs`: two inputs with up to two streams and three packets each: a stream
  of each kind before and after another in its input, and in the output.
- `decoders`, video: VP9: two coded frames per packet, one of them unseen, over three
  packets, is the worst case the queue survives (three per packet, `vp9_layers`,
  the least one it does not); two slots let a picture be in none, one or both,
  with the code's pool of two. H.264: a buffer of two, which may shrink to one,
  and five pictures over two or more sequences. H.265: four coded pictures, counted
  modulo 8 from 6 on, so that the count wraps at once; one ordering reorders past
  one picture in a buffer this fills, one past two with a latency limit; one
  picture may be odd. `hevc_latency` takes five pictures, the least that shows it.
- `decoders`, MP3: six bytes with headers of two bytes and frames of two or three:
  three whole frames, a cut one, a damaged one, junk between, and packets that end
  inside a header and inside a frame. The channel holds one, so it is both full and
  empty on the way.
- `rtp`: thirteen packets of four frames with every shape of packet and every
  subset of them lost; two NAL units fill a frame, so that one frame is under the
  limit, one at it and one over it, and the fourth frame is presented before the third, as
  a B picture is. Two frames over a network that also repeats
  and swaps neighbours. Nine JPEG packets lost and swapped, six of them also
  repeated. Sequence numbers run modulo 32 from 28 and so wrap inside the run; an
  orderly network loses no burst of half the space (`ShortBursts`), which in the code
  is 2^15 packets and would be taken for a reordering. A range of 16 and a clock to 40 is two wraps.
- `network`: UDP: two TS packets fill a datagram where seven do, so that units begin
  and end inside one; timestamps modulo 8 with one beyond; header scans of three and
  four packets, shorter than a stream that keeps its parameters back. One send is
  interrupted (`MaxRetries`); the theorems are for any number. RTMP: chunks
  of two units each way, set to four or to one by some servers, messages of up to five; up to
  three messages answer `connect`, a short one among them. HTTP: a playlist behind a redirect, one in
  another, an empty segment, a missing one, a circle of redirects and a playlist
  that names itself; two redirects and three levels are allowed where the code
  allows more.
- `outputs`: HLS: four packets make three segments; timestamps 0..4 with a target of
  2 make a segment that is exactly, less than and more than due. MP4 and DASH: 61
  videos of up to four pictures, in display order, with B pictures, with
  pictures shown before the first keyframe; starting before, at and after 0; with
  decode times given, late, missing, all equal; a pts missing. Beside each no audio,
  or audio that starts before 0 at a distance that is and is not a whole number of
  movie ticks. Every interleaving of the two. Sizes differ, so that a wrong offset
  shows; `Max32` is so small that some files are over it. Matroska: a tick of video is
  a millisecond and a half and one of sound three quarters, so that both are rounded;
  queues hold nine milliseconds and eight bytes, clusters six milliseconds, relative
  timestamps go back twelve. Films in order and with a B picture, from before time 0,
  with parameter sets that come late or never together, and later than the queues
  wait; sound that fits the queues, that is larger, that runs far ahead; subtitles;
  AV1 with a fresh Vorbis stream. The code's own values (10 s, 64 MiB, 5 s, 32.7 s)
  keep the same order, which `MkvAssumption` states.

### Fairness

`StreamOp` (for its transcoded streams; a copy has no loop), `Transcode` and
`Mp3Decoder` (in `MCDecoders`) are single threads in which nothing blocks for ever but
the input, whose end is part of the model: weak fairness of the next step, which
never forces `ReadPacket` over `EndOfInput`; the bound on packets does that, as the
end of a file does. `Mp3Pipeline` has weak fairness for each of its two threads,
which is what an operating system gives them; a thread blocked in `send` or `recv`
is not enabled. `NetworkIo` has weak fairness for the job's own thread only: the
receiver of UDP, the publisher, the reader of the playlist. The network and the
servers have none: they may lose everything, stop or stay silent, and it is the
socket's time-out, a step of the job's thread that is enabled while it waits, that
ends the wait. One wait has no time-out: the RTMP socket is armed for reading only, so that
a server that is connected and stops reading holds `write_all` for ever
(`rff-io/src/rtmp.rs:238`). Fairness of the publisher is therefore that of
`Publisher /\ Timely`, which asks nothing of the sending of a tag to a server that
stalls, and `NetworkEnds` says that a publishing job ends or stays just there. The other modules state safety only and assume none. No strong
fairness is used.

### What the violated runs show

The violated runs are disagreements between a text in the repository and its
code, quoted in `PROJECT.json` under `findings`:

1. `hls_rollover`: a segment opened by a packet that is not a timed packet of the
   reference stream never gets a start and never rolls over. What does hold is in
   `SegmentsCutWhereDue`: once a segment has a start, it ends at the next keyframe
   that is due.
2. `vp9_layers`: `next_frame` answers `Again` with frames still queued; the receive
   loop stops on it. With one hidden frame per packet the loop catches up with the
   next packet, or at the flush for the last (`PipeSpec` with `MaxUnseen = 1`); with
   two it does not.
3. `hevc_latency`: `finish_picture` adds one to the latency of every waiting picture,
   where H.265 C.5.2.3 counts for a waiting picture only those that follow it in
   output order. A conforming stream with a latency limit comes out in the wrong
   order. `LatencyCountsAll` says which of the two counts a stream keeps to; with
   the decoder's own, `LeavesInDisplayOrder` holds.
4. `mkv_late`: when sound alone fills the queues of the streaming Matroska muxer before
   the first picture, the header is forced out without the parameter sets of H.264.
   The test that refuses an undecodable file looks at what is queued then, and the
   later one in `write_block` at what is known by then: the sets come with the first
   picture, nothing writes them into the header, and the job ends well.
5. `rtmp_replies`: `await_result` makes a reader for each reply and drops it with what it
   has read and not returned. When the portion that ends the reply to `connect` also holds the
   beginning of what follows, the next reader starts in the middle of a message and the
   reply to `createStream`, though given, goes unheard for ten seconds. `RepliesAreFound`
   is what holds when nothing that matters was dropped (`torn`).
6. `udp_interrupted`: a `recv` that fails with anything but a time-out leaves the
   buffer enlarged, and the next read serves bytes no datagram held: the demuxer
   loses the sync. In `network` this happens too, and `IntactUnitsComeOut` is
   about the streams to which it did not.

### What the passing runs show against the text

In five places a passing property says the contrary of a text, because the code does.
They are under `findings` as well, each with the property that says so:

- `SentIsWritten`: a send that is interrupted leaves its packet pending, and `write_all`
  gives it again: the packet goes out twice (`rff-io/src/udp.rs:114`), where a test compares
  what was sent with what was written. What holds is that everything handed over goes
  out in order, each packet at least once.
- `RepliesAreFound`: a reply to `createStream` that names no stream sends media to
  stream 2, its transaction id (`rtmp.rs:267`), where the head of the file has 1.
- `RepliesAreFound`: a command message of less than three bytes is not passed over, it
  makes the thread panic (`rtmp.rs:270`).
- `NetworkEnds`: the wait without limit described under Fairness (`rtmp.rs:238`), where the head of the
  file says that the connection never stalls.
- `NothingElseIsLost`: after a loss inside an access unit the rest of it is emitted
  (`rff-io/src/rtp.rs:228`), where the head of the file says that the frame is dropped;
  a comment at the place itself says what the code does.

The first has another side: `SplicesOnlyHeadless` lets a piece be in a unit twice.

### Other known limits

The models show more places where the passing properties are as strong as the
code allows and no stronger:

- `Transcode`: a stream mapped twice is written once, in the later of the two
  outputs; the first is announced and stays empty (`transcode.rs:954`).
  `EveryOutputServed` says so. Without `-map` subtitle streams are selected too
  (line 1049), although the comment above speaks of video and audio.
- `CopyOp`: with B pictures the end of the window can take a P picture and leave the
  B picture that needs it (line 341): `NoGopIsSplit` fails, and
  `NoGopIsSplitInOrder` is what holds.
- `H265Dpb`: a timestamp left pending by a picture that could not be decoded may go
  to the next packet without one; `OwnStamp` is about the pictures that are
  stamped. After a panic was caught, the wrapper does not feed the container's
  parameter sets again (`rff-codec-hevc/src/lib.rs:106`).
- `RtpClock` with `ReturnsToFirst = TRUE`: a frame that has the first frame's timestamp
  right after the first wrap hides that wrap (`rff-format-rtp/src/lib.rs:102`). With
  `MaxLead > 0`: a frame from before the first one, across the wrap, is put a whole
  range into the future (line 108). `PtsIsElapsed` fails in both cases; `rtp`
  and the theorem exclude them.
- `RtpH264`: `NalsAreWhole` is about NAL units, not frames (see above), and about
  networks that keep the order: a repeated or late middle fragment is appended (line 278). A late packet moves
  the last sequence number back, so that the next in order is counted as lost (line
  185): losses are reported, and sometimes more than there were.
- `TsDemuxer`: a read error is the end of the input, so that a connection that breaks
  ends the job as if it were complete; a playlist cut off by the server is accepted as
  far as it came, and relative addresses in it resolve against the address from before
  a redirect. A unit above 65,535 bytes has its length field clamped (`mux.rs:180`),
  which the demuxer reads as unbounded.
- `RtpJpeg`: a packet that starts a JPEG carries scan data, as RFC 2435 has it; a start
  without any (`rff-io/src/rtp.rs:525`) would be neither a frame nor counted as dropped.
- `RtmpPublisher`: timestamps beyond 2^24 - 1 ms (4 h 39 min) are all sent as that
  value (`rff-io/src/rtmp.rs:225`, where a comment says so).
- Matroska: parameter sets that come in two packets are never found (`mux.rs:599`);
  sets after the first are dropped from the packets (line 590) and not kept. The
  buffered muxer does not start a cluster for a block that is too early for the one that is
  open (line 771), where the streaming one does (line 1096). A block in a group
  (subtitles) has no keyframe flag. `BlocksComeBack` allows the millisecond that
  `to_ms` rounds by. `Interleaved` is about streams that advance together: what the
  queues cannot hold, and subtitles, may be late.
- MP4: only the first in-band SPS and PPS are kept. DASH has no counterpart of the
  refusal of a track without configuration, although `dash.rs:59-60` speaks of the
  same refusal. Video with no picture at the very start comes out early by less than
  a picture (`Origin`); the audio lead-in that is kept before an edit is limited to a
  second; the start of an edit is clamped to 32 bits. Excluded from the inputs: a
  decode time after the presentation time where both are given and sound, and
  pictures shown before the keyframe they are decoded after.

## 4. The proofs

All theorems are checked by `tlapm` to the last leaf, for every value of the
constants that meets the `ASSUME`s of the module: the bounds of section 3 are not
in them. Of the passing runs' safety properties they state all but those listed at the
end of this section.

The prover cannot instantiate the library's induction rules. The proofs go
by induction all the same: `SequenceFacts` derives from the well-foundedness of `<` that
a set of numbers has a least element (`LeastElement`), and from that induction and
recursion up to a number as statements about sets. With these it proves what
`FlattenSeq` makes of one more sequence and that `InOrder` lists a set in the order of a
relation, each element once; both are lemmas on which the theorems below rest. Sorting is for this
reason defined by counting, in `Ordering`.

**`HlsSegmenterProofs`**. `TypeCorrect` and `PlaylistIsComplete`: the playlist is made by
zipping durations with names, so the property is about two lists that are extended in
different places. `Aligned` says that there are as many durations as files, less one
while a segment is open, and that every file but the open one is closed;
`PlaylistWritten` carries this past the trailer. `OpenFails` is why the two cases (with
and without an open segment) are needed: it closes one and opens none.
`NothingIsLost`, `SegmentsTileTheTimeline`, `SegmentsAreCutWhereDue`: on top of that,
`SegInv`: the files one after another are what was sent; a segment is never
empty and the start that is kept is that of its first packet (`MeasuredFromStart`);
within it no keyframe is due (`EndsInTime`); and the durations tile (`DurationsTile`).
The last two theorems are the HLS part of `SegmentsTile` and `SegmentsCutWhereDue` of
`OutputFile`.

**`StreamOpProofs`**, on a transcoded stream, for every set of setups.

- `TypeCorrect`, `PacketsCarryTheirStamp`, `ImplementsPipe`: a packet is stamped from a
  queue, so the queue has to be known. `IInv` says that `pending_pts` mirrors the
  encoder's buffer (`QueueMirrors`), that what was accepted is what was muxed followed
  by what is in the encoder (`Accounted`), and that the last drain follows the flush
  (`Flushed`, `Drained`), from which "done" implies "empty". The refinement maps
  `MuxPacket` to `Mux`, `EmitFrame` and a resampler tail to `Accept`, the last
  `EncoderEmpty` to `Finish`, `Fail` and `Untimed` to `Fail`, and everything else to a
  stutter.
- `WindowIsGiven`, `SlotsAreFilled`, `SlotsShowTheLatest`: `LoopsNest` says which loop may
  be left when, `Identified` what the counters count. Then by induction on the frames
  decoded: what was accepted and is due is what the window keeps of them, up to the
  limit (`WindowSoFar`); the slots accepted and due are numbered without a hole
  (`SlotsSoFar`); each shows the latest frame that has started, and the one held is the
  latest (`ShownSoFar`, for input in presentation order, without which "latest" means
  nothing). One frame that fills many slots is the hard step: `SlotCount` and
  `QuotientReaches` say where the division puts the boundary.

They rest on one assumption that the model makes of encoders: packets come out in
the order of their frames, one each.

**`StreamOpProofs`**, on a copied stream. `CopiesAreExact`, `CopiesSplitNoGop`, for every set of windows.
`CopyInv`: a copy of video has started exactly when a keyframe of the window was sent
(`StartsAtKey`); what is muxed lists, ascending, the packets of the window from the first
such keyframe on, each at its distance from the start (`CutSoFar`); groups of pictures
are closed (`GopsAreClosed`, which is what the external stream is). `StreamsAreTranscoded`
carries the six theorems about transcoded streams over to the specification the run checks.

**`TranscodeProofs`**. `TypeCorrect`, `PlansFirst`, `RoutesAsSelected`, `ServesEveryOutput`,
for every set of jobs. Selection, table of operations and driving order streams in three
ways. The invariant says how far the plan is in each phase (`PlanInv`); that the table
has, for a stream, the last of the outputs it was selected for (`OpsInv`: a stream
selected twice is where the table and the selection differ); what may be held when
(`DriveInv`); and that the packets read and not held are those written, in order
(`WrittenInv`).

**`Mp3GateProofs`**. `PipelineIsSerial`, `PushIsSerial`: the two threads, and the push
decoder, refine the serial decoder, for every capacity of the channel, every stream and
every cut. For the threads: what waits to be sent is the work of the good frame at the
scan's position, already in the reservoir (`SendingInv`), and the threads end in the order
scan, channel, transform (`EndInv`). The refinement takes the step of the serial decoder
when the transform takes a frame's work. For the push decoder: the scan stands still
whenever the caller has the turn, since what stops it among the bytes pushed so far is
an incomplete frame or the end (`PushInv`); from this also `NothingCompleteWaits`.
`GateIsSerial` is the first where one follows the other, as `decoders` checks it.

**`VideoDecoderProofs`**.

- `PooledIsDead`, for any number of slots and any cap of the pool: `Reclaimed` walks the
  slots in order, so the proof is an induction over them.
- `Vp9IsAPipe`, under `MaxUnseen <= 1`: at most one queued frame is not shown, and it
  is of the packet just pushed, whose pull ends with it (`PipeInv`). The hypothesis is
  the one `vp9_layers` shows to be needed.
- `H264InDisplayOrder`, `H264EveryPictureLeaves`, for every buffer size and stream: what
  is held is of the current sequence and displayed after what left (`HeldFollow`); every
  picture has left or is held (`AllAccounted`); once a picture of the sequence has left, the
  buffer stays full until the sequence ends (`FullWhenBumped`). Without the last
  the first two are not inductive: from a buffer that is not full, a picture displayed
  before one that has left could still come, within what the stream allows. They are
  stated for streams with `codec = "h264"`.

**`RtpInputProofs`**, for any sender, stream, number space and limits. `NalUnitsAreWhole`,
`OnlyLossLoses`, `FramesAreWhole`, `StepIsRegained`, `LossCounts` from `InputInv`, which
has four parts.

- `NetInv`: what an orderly network (nothing repeated, nothing overtaken) has done is over
  up to the last packet; from `ShortBursts`, the sequence numbers tell what is missing.
- `H264Inv`, on any network: the last packets that are the beginning of a NAL unit are in
  the fragments (`BegunIsHeld`), whatever came before. This gives resynchronisation.
- `WholeInv`, on an orderly network: the fragments are nothing but such a beginning
  (`FragmentIsWhole`), records rise and none is of the timestamp under assembly
  (`UnitIsLatest`, `RecordsInOrder`), and what arrived is out or about to be
  (`NoneIsLost`).
- `JpegInv`: the same for frames (`ScanIsFrame`, `OpenedIsHeld`), and that the tables are
  the last that came (`TablesAreLatest`) and, if order was kept, those of the frame
  (`TablesFit`).

The hypothesis of an orderly network is in the properties themselves (`Orderly`);
section 3 says what happens on others. `SenderAssumption` says what a sender's stream is:
fragments of a NAL unit and of a scan one after another, one timestamp to a frame.
`PtsIsTheElapsedTime` is about `RtpClock`, under the two conditions
without which it is not true (`~ReturnsToFirst`, `MaxLead = 0`): `wraps` and `last_ts`
are quotient and remainder of the sender's clock (`ClockInv`). The step is the lemma
`Unwrapped`: of two clocks less than half a range apart the remainders decide how
the quotients differ, by just the comparisons in `pts_of`.

**`NetworkIoProofs`**, on a job's network, whatever its scheme.

- `WrittenIsSent`, for every `Pack` and any number of interrupted sends: what was sent, put
  together, and what is pending are what the writer was handed (`SendInv`), and that is the
  muxer's output with some packets repeated in their place (`HandedOver`: all that was
  written was handed over, and of the rest at most the next). The rest of the proof is
  that nothing but the writer touches any of them, however datagrams are lost,
  repeated or overtaken.
- `OnlyHeadlessAreSpliced`, for every program, loss, repetition and order of arrival (the
  property speaks of arrival in order): the muxer's output is ordered, by unit and by piece in
  it (`OutputClimbs`), not strictly once a packet was handed over twice (`UpTo`); by
  `SentIsWritten` so is what was sent, and what is received of it (`DatagramsClimb`,
  `WireInv`); what has come before
  is before what is still buffered (`InOrderInv`). The pieces of a unit in progress, of one
  that is ready and of one that was returned are ordered in the same way, and no piece among
  them is of another unit whose head arrived (`Headed`, `SpliceInv`): that head would have
  closed the unit, as it came first. Of the PIDs only that there are finitely many is used
  (they have 13 bits): at the end of the input the units in progress are listed.
- `IntactUnitsArrive`, for every program, `Pack`, bounds of `read_header`, and everything the
  network does: until `read_packet` ends, what was received is what the demuxer has taken and
  what is buffered (`Took`), and for every PID the units that came whole out of it are
  the undamaged ones of what was taken, but for the one that is in progress (`Parsed`). That one
  is everything since the last head (`Growing`); a packet continues it, completes it at its
  declared length, or begins the next and closes it (`Fed`). Of a unit that has no declared length,
  as of video, the end is known only from the next head or the end of the input, which is why the
  property calls it undamaged when one of these follows its last piece. A unit that was spliced
  is returned too, but is not whole, so both sides of the equality leave it out. The
  places of a list that grows at its end are in lemmas of `SequenceFacts` (`PickedLater`,
  `PickedLast`).
- `TagsReachTheServer`, for every job, server, chunk size and division of the writes: what is
  pending and what is unwritten are together the FLV stream from some tag on (`More`), and
  the messages sent are those of the tags before it (`TagInv`) - of exactly as many
  while the server listens, so that at the end none is missing. `pump` waits for the size that
  follows a tag and takes it with the tag, so the stream is cut after that size and not
  before it; `MoreIsFramed` is the step. That a message's chunks are the data of its tag
  is `PiecesJoin` of `SequenceFacts`. Stated of tags below 2^24 bytes, the range of the size
  field of a tag and of a message; a larger one is cut off by both and is not modelled.
- `StreamsArePlaylists`, for every web of redirects, playlists and chunked bodies, and every
  limit of redirects and depth: the whole stream is what is past, what is left of the segment
  that is asked for or read, and the segments after it (`Streams`); what was read is part of what is
  past, in its order (`PartOf`), and all of it as long as nothing failed. A segment behind redirects
  has the same content at each of them, with as many redirects less (`ContentsFollow`);
  that is why a redirect followed in the middle of a stream changes nothing. A connection
  that is down is a known failure (`HlsInv`: `broken`), although the reader cannot tell an
  early end from a proper one.

Where a run checks a property in a module that composes the one the theorem is about,
it is the same definition: `PlaylistComplete` and `NothingLostAcrossSegments` in
`OutputFile`, which extends `HlsSegmenter`; `PtsIsElapsed` in `RtpInput`, which
extends `RtpClock`.

Proving changed the models in a few places. `NothingElseIsLost` ordered records by
timestamp, which a sender of B pictures refutes and the run's sender could not;
it now orders them by their first packet. Bursts of half the number space, which the run's
streams were too short for, had to be excluded by name (`ShortBursts`), and what a stream
may be had to be said (`H264Stream`, `JpegStream`). `StreamIsThePlaylist` told the places of
units by their values, and followed one redirect of a segment; it is now about places (`AtPlaces`) and
follows as many redirects as the code does (`EndOf`). `IntactUnitsComeOut` is about places, too,
and `UnitAssumption` says that `None` is not a unit in progress. `SentIsWritten` said that
every packet goes out once, which held only because every failed send ended the job; it
is now about what the writer is handed. `torn` told of a chunk size
above the first only: a server that sets one below it before its reply has the new reader
misread a message longer than that size, as `RepliesAreFound` now allows for and the run's
servers do.

Only model-checked:

- liveness (`TranscodeEnds`, `NetworkEnds`, `Terminates`, `MP3Terminates`), which needs fairness and
  `ENABLED` and is out of the prover's reach;
- the replies an RTMP publisher waits for (`RepliesAreFound`), for which no inductive
  invariant is written yet;
- H.265 (`LeavesInDisplayOrder`, `EveryPictureLeaves`, `OwnStamp` of it): bumping is right
  because of what the bitstream's constraints say together, over all pictures that
  are still to come, and the invariant has to quantify over those;
- MP4, DASH and Matroska (`ReadsBack`; `SegmentsTile` and `SegmentsCutWhereDue` of them):
  a round trip through tables of runs and sums of sizes, two components each.

## 5. Not modelled

- Pixel, sample and entropy coding, filters and resampling: pure functions. They
  are by far the greatest part of the lines (VP9, AAC, FLAC, WebP, PNG, H.264
  encoders and decoders), and the reason why the models stand for a small share of
  them. The models take from them that a filter may swallow a frame, that a
  resampler has a tail, and that codecs hold data back.
- Byte layouts of containers, and probing: what a box, a tag, a PES header says is a
  record, and the bits it is written in are left to the round trips of the tests.
- Codec selection when none is requested (abstracted into `recoded`), and options.
- Aggregation packets of RTP H.264 piece by piece.
- Long-term reference pictures, decoding of slices and the wavefront threads of the
  H.265 decoder.
- The H.264 encoder wrapper: it emits no B pictures, so its queue is a FIFO, which
  `TranscodeOp` has; PNG, Vorbis and AAC join the results of scoped threads in the
  order they were started, over pure functions, which leaves nothing to interleave.
- Edit lists and fragments of MP4 files by other programs; reading DASH (there is no
  reader).
- Matroska files by other programs (damaged framing and the resynchronisation after it,
  lacing, elements of unknown size before the last), a header that was cut in the middle
  of an element, discard padding and default durations.
- Ogg, WAV, AVI and the other containers: planned below as far as they keep state.
- Front ends: they keep nothing between jobs.

## 6. Plan

Order of work: first the path every job takes (`TranscodeOp`, `Transcode`), then
what is at its ends and fails in its own ways (outputs, RTP, the decoders), then the
network sessions. Done: all modules of section 2.

Next modules:

1. `OggMuxer`: pages, granule positions, the end-of-stream flag of each logical stream.
2. `Mp4Index` for edit lists with several edits and empty ones.
3. A run of `RtpReceiver` with a small `SeqSpace` for bursts of half the sequence space.

Next theorems:

1. `RtmpPublisher`: `RepliesAreFound`.
2. `DashMuxer`: the fragments tile the timeline and start at keyframes.
3. `H265Dpb`: `EveryPictureLeaves` and `OwnStamp`, then display order.

## 7. Running it

    tlc -workers 2 -config StreamOp_setups.cfg StreamOp
    tlapm StreamOpProofs.tla

The other runs are listed in `PROJECT.json` with module and configuration. Each takes
between a few seconds and three minutes. The proofs of a module take seconds to a few minutes,
those of `RtpInputProofs` about ten, of `NetworkIoProofs` about sixteen.
