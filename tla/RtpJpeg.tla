-------------------------------- MODULE RtpJpeg --------------------------------
(***************************************************************************)
(* JpegDepayloader (crates/rff-io/src/rtp.rs): RFC 2435 packets, each with *)
(* its offset into the scan, are assembled into one JPEG per frame.        *)
(*                                                                         *)
(* The scan is abstracted to the packets its pieces came from, one unit of *)
(* offset each: a packet that is not odd carries some of the scan.  (A     *)
(* sender could also start a frame with a packet of headers alone.  Given  *)
(* up before any of its scan came, such a frame is not counted as dropped: *)
(* the code asks for a scan that is not empty.)                            *)
(***************************************************************************)
EXTENDS RtpReceiver

CONSTANTS
    Stream,         \* the sender's packets: timestamp, offset, marker, shape
    MaxScan         \* MAX_FRAME, in packets

\* What brings the quantisation tables of a frame: its start ("new", or a
\* standard set by number, "std"), an earlier one ("kept"), nothing ("bad").
\* "odd" packets are too short, of an unsupported type or without a size.
Shapes == {"new", "std", "kept", "bad", "odd", "more"}

VARIABLES
    scan,           \* scan
    inFrame,        \* in_frame
    frameTs,        \* ts
    tables,         \* qtables: the start that brought them, or None
    dropped,        \* RtpStats.dropped
    starts,         \* history: frame starts that were taken up
    records         \* the JPEGs written: [ts, scan, tables]

depayVars == <<scan, inFrame, frameTs, tables, starts>>
frameVars == <<depayVars, dropped, records>>

Init ==
    /\ NetInit
    /\ scan = <<>> /\ inFrame = FALSE /\ frameTs = 0 /\ tables = None
    /\ dropped = 0 /\ starts = 0
    /\ records = <<>>

\* Too short, an unsupported type or no size: nothing but the gap is noted.
Ignore(i) ==
    /\ Arrive(i)
    /\ Stream[i].shape = "odd" \/ (Stream[i].off # 0 /\ ~inFrame)
    /\ UNCHANGED frameVars

BugAbandoned == 0

\* A frame start while another frame is unfinished gives that one up.
Abandoned == IF inFrame /\ scan # <<>> THEN 1 ELSE 0

BugFits(i) ==
    Gap(SeqOf(i)) = 0 /\ Stream[i].off = Len(scan) /\ Len(scan) < MaxScan

\* The fragment continues the scan exactly where it stands, and there is room.
Fits(i) ==
    /\ Gap(SeqOf(i)) = 0
    /\ Stream[i].off = Len(scan)
    /\ Stream[i].ts = frameTs
    /\ Len(scan) < MaxScan

\* The marker completes the JPEG.
Written(i, ts, pieces, quant) ==
    IF Stream[i].marker
    THEN Append(records, [ts |-> ts, scan |-> pieces, tables |-> quant]) ELSE records

\* The tables a frame start leaves: its own, or with none in it the previous
\* frame's.
BugTablesAfter(i) == IF tables = None THEN i ELSE tables

TablesAfter(i) == IF Stream[i].shape = "kept" THEN tables ELSE i

Usable(i) == Stream[i].shape \in {"new", "std"} \/ (Stream[i].shape = "kept" /\ tables # None)

\* A packet at offset 0 starts a frame, whatever came before.
Start(i) ==
    /\ Arrive(i)
    /\ Stream[i].off = 0 /\ Usable(i)
    /\ dropped' = dropped + Abandoned
    /\ frameTs' = Stream[i].ts
    /\ starts' = starts + 1
    /\ scan' = <<i>>
    /\ tables' = TablesAfter(i)
    /\ inFrame' = ~Stream[i].marker
    /\ records' = Written(i, Stream[i].ts, <<i>>, tables')

\* A start whose quantisation tables cannot be used ends up in no frame.
StartWithoutTables(i) ==
    /\ Arrive(i)
    /\ Stream[i].off = 0 /\ Stream[i].shape # "odd" /\ ~Usable(i)
    /\ dropped' = dropped + Abandoned
    /\ frameTs' = Stream[i].ts
    /\ scan' = <<>>
    /\ inFrame' = FALSE
    /\ UNCHANGED <<tables, starts, records>>

\* A later packet of the frame under assembly.
Continue(i) ==
    /\ Stream[i].shape # "odd" /\ Stream[i].off # 0 /\ inFrame
    /\ Fits(i)
    /\ Arrive(i)
    /\ scan' = Append(scan, i)
    /\ inFrame' = ~Stream[i].marker
    /\ records' = Written(i, frameTs, scan', tables)
    /\ UNCHANGED <<frameTs, tables, dropped, starts>>

\* A packet that does not: the frame is given up.
Break(i) ==
    /\ Stream[i].shape # "odd" /\ Stream[i].off # 0 /\ inFrame
    /\ ~Fits(i)
    /\ Arrive(i)
    /\ inFrame' = FALSE
    /\ dropped' = dropped + 1
    /\ UNCHANGED <<scan, frameTs, tables, starts, records>>

Receive(i) ==
    Ignore(i) \/ Start(i) \/ StartWithoutTables(i) \/ Continue(i) \/ Break(i)

-----------------------------------------------------------------------------
(* Properties *)

\* The frames of the sender: runs of packets from offset 0 to the marker.
SenderFrames ==
    {[k \in 1..(r[2] - r[1] + 1) |-> r[1] + k - 1] :
        r \in {x \in Sent \X Sent :
                  /\ x[1] <= x[2]
                  /\ Stream[x[1]].off = 0 /\ Stream[x[2]].marker
                  /\ \A j \in x[1]..x[2] : Stream[j].ts = Stream[x[1]].ts
                  /\ \A j \in x[1]..(x[2] - 1) : ~Stream[j].marker}}

\* The start that brings the tables of the frame starting at i.
TablesOf(i) == CHOOSE j \in 1..i :
    /\ Stream[j].shape \in {"new", "std"}
    /\ \A k \in (j + 1)..i : Stream[k].shape \notin {"new", "std"}

\* "a sequence gap inside a frame drops that frame and the next frame start
\* resynchronises" (rtp.rs:20-21): whatever the network loses, repeats or
\* reorders, a JPEG that comes out is one the sender sent, whole.  It has the
\* tables the sender coded it with if these arrived and arrived in order.
JpegsAreWhole ==
    \A k \in 1..Len(records) :
        LET start == records[k].scan[1]
        IN  /\ records[k].scan \in SenderFrames
            /\ records[k].ts = Stream[start].ts
            /\ InOrder /\ TablesOf(start) \in ArrivedSet => records[k].tables = TablesOf(start)

\* "Loss is reported, not guessed": every frame taken up comes out, is counted
\* as dropped, or is the one under assembly.
FramesAccountedFor == starts = Len(records) + dropped + (IF inFrame THEN 1 ELSE 0)

\* A frame that brings its tables and whose packets all arrive in order, one
\* right after the other, comes out: resynchronisation needs no more than the
\* next frame start.
Resynchronises ==
    \A frame \in SenderFrames :
        (/\ RunOf(frame)
         /\ Stream[frame[1]].shape \in {"new", "std"}
         /\ \A n \in DOMAIN frame : Stream[frame[n]].shape # "odd"
         /\ Len(frame) <= MaxScan)
            => \E k \in 1..Len(records) : records[k].scan = frame

=============================================================================
