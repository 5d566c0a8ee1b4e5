------------------------------- MODULE Mp4Muxer -------------------------------
(***************************************************************************)
(* The two MP4 muxers (crates/rff-format-mp4/src/lib.rs): Mp4StreamMuxer   *)
(* writes each sample into the file as it comes and goes back to size      *)
(* `mdat`; Mp4Muxer, for pipes, keeps every packet until the trailer and   *)
(* interleaves them by decode time.                                        *)
(*                                                                         *)
(* The file is kept as its top-level boxes (`headers`, with size 0 for "to *)
(* the end of the file"), the places of the samples in it and the tables   *)
(* of `moov`.  Offsets and sizes are in bytes; Max32 is the greatest value *)
(* of a 32-bit field, MovieScale the movie timescale.                      *)
(***************************************************************************)
EXTENDS Mp4Timing
LOCAL INSTANCE FiniteSetsExt
LOCAL INSTANCE Functions
LOCAL INSTANCE SequencesExt

CONSTANTS
    Max32,          \* u32::MAX
    MovieScale      \* ticks of the movie timescale per second

VARIABLES
    kind,           \* "stream" (Mp4StreamMuxer) or "buffered" (Mp4Muxer)
    stage,          \* "new", "open", "done", "refused" or "cut"
    tracks,         \* TrackOut of each stream: its samples, chunks, config
    packets,        \* the buffered packets: <<track, sample>>
    lastTrack,      \* track of the last sample written, 0 before
    file            \* [headers, len, media, moov]

muxVars == <<kind, stage, tracks, packets, lastTrack, file>>

FtypLen == 24
HeaderLen == 8
MoovLen == 100      \* any length will do

NoMoov == <<>>
EmptyFile == [headers |-> {}, len |-> 0, media |-> <<>>, moov |-> NoMoov]
Header(type, at, size) == [type |-> type, at |-> at, size |-> size]
Ftyp == Header("ftyp", 0, FtypLen)

MuxInit(k, streams) ==
    /\ kind = k
    /\ stage = "new"
    /\ tracks = [t \in DOMAIN streams |->
                    [audio |-> streams[t].audio, scale |-> streams[t].scale,
                     config |-> streams[t].extradata, samples |-> <<>>, chunks |-> <<>>]]
    /\ packets = <<>>
    /\ lastTrack = 0
    /\ file = EmptyFile

-----------------------------------------------------------------------------
(* write_header, write_packet *)

\* `free`, the room of a long `mdat` header, and an `mdat` to the end of file.
WriteHeader ==
    /\ stage = "new"
    /\ stage' = "open"
    /\ file' = IF kind = "buffered" THEN file
               ELSE [file EXCEPT
                        !.headers = {Ftyp, Header("free", FtypLen, HeaderLen),
                                     Header("mdat", FtypLen + HeaderLen, 0)},
                        !.len = FtypLen + 2 * HeaderLen]
    /\ UNCHANGED <<kind, tracks, packets, lastTrack>>

BothSets == {"sps", "pps"}

\* The sample enters the tables.  The first packet with both parameter sets in
\* it gives the configuration box, if the stream came without.
Pushed(track, s) ==
    [track EXCEPT !.samples = Append(@, s), !.config = @ \/ s.sets = BothSets]

BugPlace(chunks, offset, contiguous) ==
    IF chunks # <<>>
    THEN [chunks EXCEPT ![Len(chunks)].count = @ + 1]
    ELSE Append(chunks, [offset |-> offset, count |-> 1])

\* A sample right after one of its own track extends that chunk.
Place(chunks, offset, contiguous) ==
    IF contiguous /\ chunks # <<>>
    THEN [chunks EXCEPT ![Len(chunks)].count = @ + 1]
    ELSE Append(chunks, [offset |-> offset, count |-> 1])

Stored(t, i, at, size) == [track |-> t, index |-> i, at |-> at, size |-> size]

WriteSample(t, s) ==
    /\ stage = "open" /\ kind = "stream"
    /\ tracks' = [tracks EXCEPT ![t] = [Pushed(@, s) EXCEPT
                    !.chunks = Place(@, file.len, lastTrack = t)]]
    /\ file' = [file EXCEPT
                    !.media = Append(@, Stored(t, Len(tracks[t].samples) + 1, file.len, s.size)),
                    !.len = @ + s.size]
    /\ lastTrack' = t
    /\ UNCHANGED <<kind, stage, packets>>

Buffer(t, s) ==
    /\ stage = "open" /\ kind = "buffered"
    /\ packets' = Append(packets, <<t, s>>)
    /\ UNCHANGED <<kind, stage, tracks, lastTrack, file>>

WritePacket(t, s) == WriteSample(t, s) \/ Buffer(t, s)

-----------------------------------------------------------------------------
(* write_trailer *)

\* The runs of equal values in a sequence, each [count, value].
Runs(seq) ==
    FoldLeft(LAMBDA runs, v :
                IF runs # <<>> /\ Last(runs).value = v
                THEN [runs EXCEPT ![Len(runs)].count = @ + 1]
                ELSE Append(runs, [count |-> 1, value |-> v]),
             <<>>, seq)

BugChunkRuns(chunks) ==
    LET first == {c \in 1..Len(chunks) : c = 1 \/ chunks[c].count # chunks[c - 1].count}
    IN  [i \in 1..Cardinality(first) |->
            [first |-> i, count |-> chunks[SetToSortSeq(first, <)[i]].count]]

\* stsc: the chunks from which on the number of samples per chunk is another.
ChunkRuns(chunks) ==
    LET first == {c \in 1..Len(chunks) : c = 1 \/ chunks[c].count # chunks[c - 1].count}
    IN  [i \in 1..Cardinality(first) |->
            LET c == SetToSortSeq(first, <)[i] IN [first |-> c, count |-> chunks[c].count]]

BugOffsets(offsets) == [c \in 1..Len(offsets) |-> offsets[c] % (Max32 + 1)]

\* stco, or co64 once a chunk starts past 32 bits.
Offsets(offsets) ==
    IF \E c \in 1..Len(offsets) : offsets[c] > Max32
    THEN offsets
    ELSE [c \in 1..Len(offsets) |-> offsets[c] % (Max32 + 1)]

\* One edit from the start of the presentation to its end.
EditOf(plan, scale) ==
    IF plan.start > 0
    THEN <<[duration |-> (plan.presentation * MovieScale) \div scale, media |-> plan.start]>>
    ELSE <<>>

\* The `trak` box, as far as the demuxer reads it back.
Trak(track, plan) ==
    [audio |-> track.audio, scale |-> track.scale, edits |-> EditOf(plan, track.scale),
     config |-> track.config,
     stts |-> Runs(plan.durations), ctts |-> Runs(plan.offsets),
     stsc |-> ChunkRuns(track.chunks),
     stsz |-> Field(track.samples, "size"),
     stco |-> Offsets(Field(track.chunks, "offset")),
     stss |-> {i \in 1..Len(track.samples) : track.samples[i].key}]

Moov(ts) == [t \in DOMAIN ts |-> Trak(ts[t], TimingPlan(ts[t]))]

\* A video track needs its configuration box; without one the file would open
\* and decode to nothing.
RequireConfigs(ts) ==
    \A t \in DOMAIN ts : ts[t].audio \/ ts[t].samples = <<>> \/ ts[t].config

BugSized(f, end) ==
    [f EXCEPT !.headers =
        {h \in @ : h.type # "mdat"} \cup
        {Header("mdat", FtypLen + HeaderLen, (end - FtypLen - HeaderLen) % (Max32 + 1))}]

\* finish_mdat: the 32-bit size is filled in, or `free` and `mdat` become one
\* `mdat` with a 64-bit size.
Sized(f, end) ==
    LET others == {h \in f.headers : h.type \notin {"free", "mdat"}}
        size   == end - (FtypLen + HeaderLen)
    IN  [f EXCEPT !.headers =
            IF size <= Max32
            THEN others \cup {Header("free", FtypLen, HeaderLen),
                              Header("mdat", FtypLen + HeaderLen, size)}
            ELSE others \cup {Header("mdat", FtypLen, end - FtypLen)}]

WithMoov(f, ts) ==
    [f EXCEPT !.headers = @ \cup {Header("moov", f.len, MoovLen)},
              !.len = @ + MoovLen, !.moov = Moov(ts)]

\* The tracks with the buffered packets in them.
Gathered ==
    FoldLeft(LAMBDA ts, p : [ts EXCEPT ![p[1]] = Pushed(@, p[2])], tracks, packets)

\* The samples of a track, each with when it is decoded: in seconds, here times
\* the product of all scales.
Entries(ts, t) ==
    LET starts == Sums(TimingPlan(ts[t]).durations)
        unit == FoldFunctionOnSet(LAMBDA a, b : a * b, 1,
                                  [u \in DOMAIN ts |-> ts[u].scale], DOMAIN ts \ {t})
    IN  {[track |-> t, index |-> i, start |-> starts[i] * unit] :
            i \in 1..Len(ts[t].samples)}

\* The stable sort by start; the entries came track by track.
Before(a, b) ==
    \/ a.start < b.start
    \/ a.start = b.start /\ a.track < b.track
    \/ a.start = b.start /\ a.track = b.track /\ a.index < b.index

\* Every sample in the order it is written.
Interleaved(ts) == SetToSortSeq(UNION {Entries(ts, t) : t \in DOMAIN ts}, Before)

\* The bytes of the samples before each, in the order they are written.
BytesBefore(ts, order) ==
    Sums([i \in 1..Len(order) |-> ts[order[i].track].samples[order[i].index].size])

\* Each track's chunks: its samples that are written one after the other.
Placed(ts, order, from, before) ==
    LET Add(tracksSoFar, i) ==
            [tracksSoFar EXCEPT ![order[i].track].chunks =
                Place(@, from + before[i], i > 1 /\ order[i - 1].track = order[i].track)]
    IN  FoldLeft(Add, ts, [i \in 1..Len(order) |-> i])

\* The file of Mp4Muxer: `mdat` with its size and the samples, and `moov`.
LaidOut(ts, order, before, header) ==
    WithMoov([headers |-> {Ftyp, Header("mdat", FtypLen, header + Last(before))},
              len |-> FtypLen + header + Last(before),
              media |-> [i \in 1..Len(order) |->
                            Stored(order[i].track, order[i].index, FtypLen + header + before[i],
                                   before[i + 1] - before[i])],
              moov |-> NoMoov],
             Placed(ts, order, FtypLen + header, before))

\* A body too long for a 32-bit size takes the long header.
HeaderOf(body) == IF body + HeaderLen > Max32 THEN 2 * HeaderLen ELSE HeaderLen

BufferedFile(ts) ==
    LET Written(order, before) == LaidOut(ts, order, before, HeaderOf(Last(before)))
        Ordered(order) == Written(order, BytesBefore(ts, order))
    IN  Ordered(Interleaved(ts))

\* The file that the trailer leaves, but for the size of `mdat` in a file that
\* was written sample by sample.
WholeFile(ts) == IF kind = "stream" THEN WithMoov(file, ts) ELSE BufferedFile(ts)

\* The tracks are complete but a configuration is missing: an error, no `moov`.
Refuse ==
    /\ ~RequireConfigs(Gathered)
    /\ stage' = "refused"
    /\ UNCHANGED <<kind, tracks, packets, lastTrack, file>>

Finish ==
    /\ RequireConfigs(Gathered)
    /\ stage' = "done"
    /\ tracks' = Gathered
    /\ packets' = <<>>
    /\ file' = IF kind = "stream" THEN Sized(WholeFile(tracks'), file.len)
                                  ELSE WholeFile(tracks')
    /\ UNCHANGED <<kind, lastTrack>>

WriteTrailer == stage = "open" /\ (Refuse \/ Finish)

\* A write fails, or the process ends, on the way: between two packets, at any
\* box that the trailer writes, or with `moov` there but `mdat` without its size.
CutOff ==
    /\ stage = "open"
    /\ stage' = "cut"
    /\ tracks' = Gathered
    /\ packets' = <<>>
    /\ \/ UNCHANGED file
       \/ /\ RequireConfigs(tracks')
          /\ \E whole \in {WholeFile(tracks')} :
                \E len \in {whole.len} \cup {h.at + HeaderLen : h \in whole.headers} :
                    file' = [whole EXCEPT !.len = len]
    /\ UNCHANGED <<kind, lastTrack>>

=============================================================================
