------------------------------ MODULE Mp4Demuxer ------------------------------
(***************************************************************************)
(* The MP4 demuxer (crates/rff-format-mp4/src/lib.rs) over a file that the *)
(* muxers of Mp4Muxer wrote, to the end or not.  A seekable file is read   *)
(* sample by sample and the reader only seeks where the next sample is not *)
(* already under it; a stream is buffered whole.                           *)
(***************************************************************************)
EXTENDS Mp4Muxer
LOCAL INSTANCE FiniteSetsExt
LOCAL INSTANCE SequencesExt

VARIABLES
    source,     \* "seekable" or "stream", once opened
    opened,     \* "no", "yes", "refused", "eof" or "error"
    locs,       \* the sample table (`samples`)
    next,       \* the next of them (`pos`), from 1
    cur,        \* where the demuxer takes its reader to be, or Unknown
    at,         \* where the reader is
    got         \* history: the packets read, with the bytes they were given

demuxVars == <<source, opened, locs, next, cur, at, got>>

Unknown == -1
Unopened == ""

I == INSTANCE Mp4Index

DemuxInit ==
    /\ source = Unopened
    /\ opened = "no"
    /\ locs = <<>>
    /\ next = 1
    /\ cur = Unknown
    /\ at = 0
    /\ got = <<>>

-----------------------------------------------------------------------------
(* read_header *)

\* The box that starts at a place, if its header is there.
BoxesAt(pos) == {h \in file.headers : h.at = pos /\ pos + HeaderLen <= file.len}

\* Where a box ends; size 0 is to the end of the file.
End(h) == IF h.size = 0 THEN file.len ELSE h.at + h.size

\* The boxes are walked from the front; one that overruns the file ends it.
\* No file has more than four.
Reached ==
    FoldLeft(LAMBDA places, k :
                places \cup {End(h) : h \in {b \in UNION {BoxesAt(p) : p \in places} :
                                                End(b) <= file.len}},
             {0}, <<1, 2, 3, 4>>)

FoundMoov ==
    \E p \in Reached : \E h \in BoxesAt(p) : h.type = "moov" /\ End(h) <= file.len

OpenFile ==
    /\ stage \in {"done", "cut", "refused"}
    /\ opened = "no"
    /\ IF FoundMoov
       THEN opened' = "yes" /\ locs' = I!Index(file.moov)
       ELSE opened' = "refused" /\ UNCHANGED locs
    /\ source' \in {"seekable", "stream"}
    /\ UNCHANGED <<next, cur, at, got>>

-----------------------------------------------------------------------------
(* read_packet *)

BugSeeks(loc) == IF cur = Unknown THEN loc.at ELSE at

\* Where the reader is for the next sample: it seeks if need be.
Seeks(loc) == IF cur # loc.at THEN loc.at ELSE at

\* The packet made of the bytes from a place on: whole if they are its sample's.
Packet(loc, from) ==
    [track |-> loc.track, index |-> loc.index, pts |-> loc.pts, dts |-> loc.dts,
     key |-> loc.key,
     whole |-> \E m \in Range(file.media) :
        m.track = loc.track /\ m.index = loc.index /\ m.at = from /\ m.size = loc.size]

Deliver(loc, from) ==
    /\ got' = Append(got, Packet(loc, from))
    /\ next' = next + 1
    /\ at' = from + loc.size
    /\ cur' = IF source = "seekable" THEN from + loc.size ELSE cur
    /\ UNCHANGED opened

\* An error where the sample runs past the end of the file.
ReadPacket ==
    /\ opened = "yes"
    /\ next <= Len(locs)
    /\ LET from == Seeks(locs[next])
       IN  IF from + locs[next].size <= file.len
           THEN Deliver(locs[next], from)
           ELSE opened' = "error" /\ UNCHANGED <<next, cur, at, got>>
    /\ UNCHANGED <<source, locs>>

EndOfFile ==
    /\ opened = "yes"
    /\ next > Len(locs)
    /\ opened' = "eof"
    /\ UNCHANGED <<source, locs, next, cur, at, got>>

=============================================================================
