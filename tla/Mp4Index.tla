------------------------------- MODULE Mp4Index -------------------------------
(***************************************************************************)
(* The sample index the MP4 demuxer builds from a `trak` box               *)
(* (crates/rff-format-mp4/src/lib.rs, build_samples and fix_index): where  *)
(* each sample is, when it is decoded and shown, and which samples an edit *)
(* list leaves.                                                            *)
(*                                                                         *)
(* A `trak` is [audio, scale, edits, stts, ctts, stsc, stsz, stco, stss];  *)
(* its edit list has at most one edit, that is not empty: what the muxers  *)
(* of Mp4Muxer write.                                                      *)
(***************************************************************************)
EXTENDS Integers, Sequences
LOCAL INSTANCE FiniteSetsExt
LOCAL INSTANCE SequencesExt

CONSTANT MovieScale

\* From a value on, one element after the other added: where each begins.
LOCAL Sums(from, seq) ==
    FoldLeft(LAMBDA sums, n : Append(sums, Last(sums) + n), <<from>>, seq)

\* The sequence that the runs stand for.
Expanded(runs) ==
    FoldLeft(LAMBDA seq, r : seq \o [i \in 1..r.count |-> r.value], <<>>, runs)

BugSamplesInChunk(stsc, c) == stsc[IF c <= Len(stsc) THEN c ELSE Len(stsc)].count

\* stsc: an entry holds from its first chunk to that of the next entry.
SamplesInChunk(stsc, c) ==
    LET upTo == {i \in 1..Len(stsc) : stsc[i].first <= c}
    IN  IF upTo = {} THEN 0 ELSE stsc[Max(upTo)].count

\* Where each sample is: chunk by chunk, the samples of a chunk back to back.
Places(trak) ==
    LET bytes == Sums(0, trak.stsz)
        Chunk(places, c) ==
            LET done == Len(places)
                n == Min({SamplesInChunk(trak.stsc, c), Len(trak.stsz) - done})
            IN  places \o [i \in 1..n |-> trak.stco[c] + bytes[done + i] - bytes[done + 1]]
    IN  FoldLeft(Chunk, <<>>, [c \in 1..Len(trak.stco) |-> c])

\* av_rescale: a * b / c to the nearest, here of what is not negative.
Rescale(a, b, c) == (a * b + c \div 2) \div c

\* A negative composition offset shifts the index; the last two entries of the
\* table do not count for it.
DtsShift(trak) ==
    Max({0} \cup {-trak.ctts[e].value : e \in 1..(Len(trak.ctts) - 2)})

BugEditStart(ts, key, offsets, reordered, target) == Max({1} \cup {i \in DOMAIN ts : ts[i] <= target})

\* edit_start: the last keyframe at or before the target - the first of those
\* at the same time, and with reordered pictures one that is also shown by then;
\* failing that any sample, failing that the first.
EditStart(ts, key, offsets, reordered, target) ==
    LET Found(any) ==
            LET fits   == {i \in DOMAIN ts : ts[i] <= target /\ (any \/ i \in key)}
                first  == Min({i \in fits : ts[i] = ts[Max(fits)]})
                shown  == {i \in 1..first : i \in key /\ ts[i] + offsets[i] <= target}
            IN  IF fits = {} THEN {}
                ELSE IF reordered THEN (IF shown = {} THEN {} ELSE {Max(shown)})
                ELSE {first}
    IN  CHOOSE i \in DOMAIN ts :
            IF Found(FALSE) # {} THEN i \in Found(FALSE)
            ELSE IF Found(TRUE) # {} THEN i \in Found(TRUE)
            ELSE i = 1

(* fix_index.  `x` is the index before: its timestamps `ts`, which are the   *)
(* decode times less `shift`, and the composition `offsets`; `edit` is the   *)
(* part of the media that is presented, [media, end].                        *)

Cts(x, i) == x.ts[i] + x.shift + x.offsets[i]
CtsEnd(x, edit, i) ==
    Cts(x, i) + (IF i < Len(x.ts) THEN x.ts[i + 1] - x.ts[i] ELSE edit.end - edit.media)

Shown(x, edit) == {i \in DOMAIN x.ts : Cts(x, i) >= edit.media /\ Cts(x, i) < edit.end}

\* An audio sample that the edit starts in the middle of.
Straddling(trak, x, edit) ==
    {i \in DOMAIN x.ts : trak.audio /\ Cts(x, i) < edit.media /\ CtsEnd(x, edit, i) > edit.media}

\* Where the replay begins; for audio with a second of lead-in.
From(trak, x, edit) ==
    EditStart(x.ts, trak.stss, x.offsets, trak.ctts # <<>>,
              (IF trak.audio THEN Max({edit.media - trak.scale, x.ts[1]}) ELSE edit.media) - x.shift)

BugTo(trak, x, edit, from) ==
    Min({Len(x.ts)} \cup {i \in from..Len(x.ts) :
        CtsEnd(x, edit, i) >= edit.end /\ (i \in trak.stss \/ trak.audio)})

\* Where it stops: at a keyframe past the end of the edit.  With reordered
\* pictures those after it may still belong to the edit: the next one stops it.
To(trak, x, edit, from) ==
    LET past == {i \in from..Len(x.ts) :
                    CtsEnd(x, edit, i) >= edit.end /\ (i \in trak.stss \/ trak.audio)}
        stops == IF trak.ctts # <<>> /\ ~trak.audio /\ past # {} THEN past \ {Min(past)} ELSE past
    IN  Min({Len(x.ts)} \cup stops)

\* The counter runs from the first sample that is not discarded; those before
\* it are timed backwards from there.
Counted(x, edit, straddling, begin, i) ==
    IF begin = {} THEN -x.shift
    ELSE x.ts[i] - x.ts[Min(begin)] - x.shift +
         (IF Min(begin) \in straddling THEN Cts(x, Min(begin)) - edit.media ELSE 0)

\* The earliest time a picture is shown at, by a minimum that starts over
\* whenever it has gone negative.
EarliestOf(times) ==
    FoldLeft(LAMBDA least, pts : IF least < 0 THEN pts ELSE Min({least, pts}), -1, times)

\* A video track is moved for its earliest picture to be shown at 0.
Corrected(trak, x, shown, index) ==
    LET shownAt == [k \in 1..Len(index) |-> index[k].dts + x.offsets[index[k].index] + x.shift]
        times == SelectSeq([k \in 1..Len(index) |->
                                <<index[k].index \in shown, shownAt[k]>>], LAMBDA p : p[1])
        earliest == EarliestOf([k \in 1..Len(times) |-> times[k][2]])
    IN  IF trak.audio \/ earliest <= 0 THEN index
        ELSE [k \in 1..Len(index) |-> [index[k] EXCEPT !.dts = @ - earliest]]

Replayed(trak, x, edit, shown, straddling, from, to) ==
    Corrected(trak, x, shown,
        [k \in 1..(to - from + 1) |->
            [index |-> from + k - 1,
             dts |-> Counted(x, edit, straddling, (shown \cup straddling) \cap from..to, from + k - 1)]])

\* The samples the edit leaves, [index, dts] in order.
FixIndex(trak, x, edit) ==
    LET Part(from) == Replayed(trak, x, edit, Shown(x, edit), Straddling(trak, x, edit),
                               from, To(trak, x, edit, from))
    IN  Part(From(trak, x, edit))

EditRange(trak) ==
    LET edit == trak.edits[1]
    IN  [media |-> edit.media, end |-> edit.media + Rescale(edit.duration, trak.scale, MovieScale)]

(* build_samples *)

\* The index of a track: rebuilt by the edit list, or where `advanced`, FFmpeg's
\* advanced_editlist, is off moved by its start (time_offset).
IndexOf(trak, x, advanced) ==
    IF trak.edits = <<>> \/ ~advanced \/ x.ts = <<>>
    THEN [i \in 1..Len(x.ts) |->
            [index |-> i,
             dts |-> x.ts[i] - (IF trak.edits = <<>> \/ advanced THEN 0 ELSE trak.edits[1].media)]]
    ELSE FixIndex(trak, x, EditRange(trak))

Located(trak, t, places, x, index) ==
    [k \in 1..Len(index) |->
        LET i == index[k].index
        IN  [track |-> t, index |-> i, at |-> places[i], size |-> trak.stsz[i],
             dts |-> index[k].dts, key |-> i \in trak.stss,
             pts |-> IF trak.ctts # <<>> THEN index[k].dts + x.shift + x.offsets[i]
                                         ELSE index[k].dts]]

\* The samples of track t in the order they are read.
BuildSamples(trak, t, advanced) ==
    LET WithTimes(x) == Located(trak, t, Places(trak), x, IndexOf(trak, x, advanced))
        shift == DtsShift(trak)
        times == Sums(-shift, Expanded(trak.stts))
    IN  WithTimes([ts |-> Front(times), shift |-> shift,
                   offsets |-> IF trak.ctts # <<>> THEN Expanded(trak.ctts)
                               ELSE [i \in 1..Len(trak.stsz) |-> 0]])

\* parse_moov: the tracks merged in file order, each in its own order.
Merged(indexes) ==
    LET Step(m, k) ==
            LET left == {t \in DOMAIN indexes : m.next[t] <= Len(indexes[t])}
                at(t) == indexes[t][m.next[t]].at
                t == CHOOSE t \in left : \A u \in left :
                        at(t) < at(u) \/ (at(t) = at(u) /\ t <= u)
            IN  [next |-> [m.next EXCEPT ![t] = @ + 1],
                 samples |-> Append(m.samples, indexes[t][m.next[t]])]
        all == Last(Sums(0, [t \in 1..Len(indexes) |-> Len(indexes[t])]))
    IN  FoldLeft(Step, [next |-> [t \in DOMAIN indexes |-> 1], samples |-> <<>>],
                 [k \in 1..all |-> k]).samples

\* The advanced edit list is off from the first track without `stts` entries on.
Index(moov) ==
    Merged([t \in 1..Len(moov) |->
        BuildSamples(moov[t], t, \A u \in 1..t : moov[u].stts # <<>>)])

=============================================================================
