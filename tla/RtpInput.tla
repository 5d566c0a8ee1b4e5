------------------------------- MODULE RtpInput --------------------------------
(***************************************************************************)
(* An rtp:// input: RtpReader (crates/rff-io/src/rtp.rs) takes datagrams   *)
(* from the network, one depayloader makes frame records of them, and      *)
(* RtpDemuxer (crates/rff-format-rtp/src/lib.rs) gives each record a pts   *)
(* from its 32-bit timestamp.  One thread: the demuxer's reads pull the    *)
(* records, and the reader asks the socket only when none is left.         *)
(*                                                                         *)
(* A packet's `ts` is the sender's clock; any two packets of a stream are  *)
(* less than half the range of the timestamps apart, so that they are      *)
(* equal exactly when their timestamps are.  Packets of another payload    *)
(* type change nothing and are left out.                                   *)
(***************************************************************************)
EXTENDS RtpClock, Sequences, FiniteSets

CONSTANTS
    Senders,            \* by name: [payload, stream, lossy, copies, window]
    SeqSpace, FirstSeq, \* of RtpReceiver
    MaxNals,            \* of RtpH264
    MaxScan             \* of RtpJpeg

PacketShapes(payload) ==
    IF payload = "h264"
    THEN [ts : Nat, marker : BOOLEAN,
          part : {"whole", "start", "mid", "end", "empty", "short", "other"}]
    ELSE [ts : Nat, marker : BOOLEAN, off : Nat,
          shape : {"new", "std", "kept", "bad", "odd", "more"}]

\* RFC 6184: the fragments of a NAL unit follow one another under one timestamp,
\* the packets of a frame are not mixed with those of others, and nothing that
\* belongs to a frame comes after its marker.
H264Stream(stream) ==
    /\ \A i \in 1..(Len(stream) - 1) : stream[i].part \in {"start", "mid"} =>
          stream[i + 1].part \in {"mid", "end"} /\ stream[i + 1].ts = stream[i].ts
    /\ \A i, j \in 1..Len(stream) : i < j /\ stream[i].ts = stream[j].ts =>
          /\ \A k \in i..j : stream[k].ts = stream[i].ts
          /\ stream[i].marker /\ stream[i].part \notin {"short", "empty"} =>
                stream[j].part \notin {"whole", "end"}

\* RFC 2435: no two packets of a frame have one offset, each but the first
\* continues the one before it, up to the marker, and the first has the tables.
\* Each carries some of the scan.
JpegStream(stream) ==
    \A i \in 1..Len(stream) :
        /\ \A j \in 1..Len(stream) :
              stream[i].ts = stream[j].ts /\ stream[i].off = stream[j].off => i = j
        /\ stream[i].shape \in {"new", "std"} => stream[i].off = 0
        /\ stream[i].shape # "odd" /\ stream[i].off # 0 =>
              /\ i > 1 /\ stream[i - 1].ts = stream[i].ts
              /\ stream[i - 1].off = stream[i].off - 1 /\ ~stream[i - 1].marker

\* The streams, the faults of their networks, and the bounds.
ASSUME SenderAssumption ==
    /\ \A s \in DOMAIN Senders : LET w == Senders[s] IN
          /\ w.payload \in {"h264", "jpeg", "audio", "frames"}
          /\ w.payload \in {"h264", "jpeg"} =>
                /\ w.stream \in Seq(PacketShapes(w.payload))
                /\ \A i, j \in DOMAIN w.stream : w.stream[i].ts < w.stream[j].ts + Half
          /\ w.payload = "h264" => H264Stream(w.stream)
          /\ w.payload = "jpeg" => JpegStream(w.stream)
          /\ w.copies \in Nat \ {0} /\ w.window \in Nat /\ w.lossy \in BOOLEAN
    /\ SeqSpace \in Nat \ {0, 1} /\ FirstSeq \in 0..(SeqSpace - 1)
    /\ MaxNals \in Nat \ {0} /\ MaxScan \in Nat \ {0}

VARIABLES
    sender,                                 \* who sends
    reader,                                 \* "binding", "open", "eof" or "refused"
    left, arrived, lastSeq, lost,           \* of RtpReceiver
    au, auTs, haveAu, frag, fragOk,         \* of RtpH264
    scan, inFrame, frameTs, tables, starts, \* of RtpJpeg
    dropped, records,                       \* of both
    served                                  \* records the demuxer has read

H264(s) == INSTANCE RtpH264 WITH
    Stream <- Senders[s].stream, NPackets <- Len(Senders[s].stream),
    Lossy <- Senders[s].lossy, MaxCopies <- Senders[s].copies, Window <- Senders[s].window

Jpeg(s) == INSTANCE RtpJpeg WITH
    Stream <- Senders[s].stream, NPackets <- Len(Senders[s].stream),
    Lossy <- Senders[s].lossy, MaxCopies <- Senders[s].copies, Window <- Senders[s].window

h264Vars == <<au, auTs, haveAu, frag, fragOk>>
jpegVars == <<scan, inFrame, frameTs, tables, starts>>
readerVars == <<reader, left, arrived, lastSeq, lost, h264Vars, jpegVars, dropped, records>>
inputVars == <<sender, readerVars, served, vars>>

Sends(payload) == Senders[sender].payload = payload

InputInit ==
    /\ sender \in DOMAIN Senders
    /\ reader = "binding" /\ served = 0
    /\ \A s \in DOMAIN Senders : s = sender => H264(s)!Init /\ Jpeg(s)!Init
    /\ IF Sends("frames") THEN Init
       ELSE firstTs = None /\ lastTs = 0 /\ wraps = 0 /\ pts = None /\ clock = 0

\* A packet arrives; the first one has decided which depayloader takes it.
Receive ==
    /\ reader \in {"binding", "open"} /\ served = Len(records)
    /\ \E s \in DOMAIN Senders :
          /\ s = sender
          /\ \E i \in DOMAIN Senders[s].stream :
                \/ Sends("h264") /\ H264(s)!Receive(i) /\ UNCHANGED jpegVars
                \/ Sends("jpeg") /\ Jpeg(s)!Receive(i) /\ UNCHANGED h264Vars
    /\ reader' = "open"
    /\ UNCHANGED <<sender, served, vars>>

\* with_socket: silence before the first packet, or a payload type of neither.
Refuse ==
    /\ reader = "binding" /\ ~Sends("frames")
    /\ reader' = "refused"
    /\ UNCHANGED <<sender, left, arrived, lastSeq, lost, h264Vars, jpegVars, dropped, records,
                   served, vars>>

\* Silence is the end of the stream; what an H.264 depayloader holds comes out.
Silence ==
    /\ reader = "open" /\ served = Len(records)
    /\ \E s \in DOMAIN Senders :
          /\ s = sender
          /\ \/ Sends("h264") /\ H264(s)!Finish
             \/ Sends("jpeg") /\ UNCHANGED <<left, arrived, lastSeq, lost, h264Vars, dropped, records>>
    /\ reader' = "eof"
    /\ UNCHANGED <<sender, jpegVars, served, vars>>

\* The sender's clock at record k, counted from the last wrap before the first.
ClockOf(k) == records[k].ts - (records[1].ts \div ClockRange) * ClockRange

\* read_packet: the next record becomes a packet.
ReadPacket ==
    /\ served < Len(records)
    /\ served' = served + 1
    /\ PtsOf(ClockOf(served + 1))
    /\ UNCHANGED <<sender, readerVars>>

\* read_packet on the records of any sender, dumped to a file, say.
ReadDumped == Sends("frames") /\ Next /\ UNCHANGED <<sender, readerVars, served>>

InputNext == Receive \/ Refuse \/ Silence \/ ReadPacket \/ ReadDumped

InputSpec == InputInit /\ [][InputNext]_inputVars

-----------------------------------------------------------------------------
(* Properties *)

Orderly(s) == Senders[s].copies = 1 /\ Senders[s].window = 0

\* "Loss is reported, not guessed" (rtp.rs:18): whatever is lost, a NAL unit of a
\* record is one the sender sent, whole, and under its timestamp (RtpH264).
NalsAreWhole == \A s \in DOMAIN Senders :
    s = sender /\ Sends("h264") /\ Orderly(s) => H264(s)!NalsAreWhole

\* "The fragment can never complete; the rest of this AU still can" (rtp.rs:229):
\* when the stream has ended, everything that arrived of each frame has come out,
\* once and in order, and a loss costs nothing but itself (RtpH264).  That is not
\* what rtp.rs:18-20 says, "a sequence gap inside a frame drops that frame".
NothingElseIsLost == \A s \in DOMAIN Senders :
    s = sender /\ Sends("h264") /\ Orderly(s) /\ reader = "eof" => H264(s)!NothingElseIsLost

\* Whatever the network does, a JPEG that comes out is one the sender sent, with
\* the tables it was coded with unless these were lost (RtpJpeg).
JpegsAreWhole == \A s \in DOMAIN Senders : s = sender /\ Sends("jpeg") => Jpeg(s)!JpegsAreWhole

\* Whatever was lost, repeated or shuffled before, a NAL unit or a frame that
\* arrives in one piece comes out (RtpH264, RtpJpeg).
Resynchronises == \A s \in DOMAIN Senders : s = sender =>
    /\ Sends("h264") /\ reader = "eof" => H264(s)!Resynchronises
    /\ Sends("jpeg") => Jpeg(s)!Resynchronises

\* "Loss is reported" (rtp.rs:18): on an orderly network the packets counted as
\* lost are those that are missing, and every JPEG frame begun has come out, is
\* counted as dropped or is under assembly, on any network.
LossIsReported == \A s \in DOMAIN Senders : s = sender =>
    /\ Orderly(s) => H264(s)!LostIsMissing
    /\ Sends("jpeg") => Jpeg(s)!FramesAccountedFor

-----------------------------------------------------------------------------
(* Values of the constants for TLC *)

P(ts, marker, part) == [ts |-> ts, marker |-> marker, part |-> part]
J(ts, off, marker, shape) == [ts |-> ts, off |-> off, marker |-> marker, shape |-> shape]

\* Four frames: a slice and a fragmented one; two fragments and a truncated one
\* after them; three slices, over the limit of two, with a payload of an unknown
\* type among them; an empty payload and a slice without marker.  The clock
\* wraps after the second, and the fourth is shown before the third.
FourFrames ==
    << P(13, FALSE, "whole"), P(13, FALSE, "start"), P(13, FALSE, "mid"), P(13, TRUE, "end"),
       P(15, FALSE, "start"), P(15, TRUE, "end"), P(15, TRUE, "short"),
       P(19, FALSE, "whole"), P(19, FALSE, "other"), P(19, FALSE, "whole"),
       P(19, TRUE, "whole"),
       P(17, TRUE, "empty"), P(17, FALSE, "whole") >>

\* Two frames for a network that repeats and shuffles.
TwoFrames ==
    << P(1, FALSE, "start"), P(1, FALSE, "mid"), P(1, TRUE, "end"),
       P(3, FALSE, "whole"), P(3, FALSE, "start"), P(3, TRUE, "end") >>

\* A frame of two packets; one of three, too large for MaxScan = 2; a start
\* whose tables cannot be used; one that keeps the earlier tables; standard
\* tables; an unsupported type.
Jpegs ==
    << J(13, 0, FALSE, "new"), J(13, 1, TRUE, "more"),
       J(15, 0, FALSE, "std"), J(15, 1, FALSE, "more"), J(15, 2, TRUE, "more"),
       J(17, 0, TRUE, "bad"), J(18, 0, FALSE, "kept"), J(18, 1, TRUE, "more"),
       J(19, 1, FALSE, "odd") >>

Sender(payload, stream, lossy, copies, window) ==
    [payload |-> payload, stream |-> stream, lossy |-> lossy, copies |-> copies, window |-> window]

MCSenders == [
    camera |-> Sender("h264", FourFrames, TRUE, 1, 0),
    wireless |-> Sender("h264", TwoFrames, TRUE, 2, 1),
    jpegs |-> Sender("jpeg", Jpegs, TRUE, 1, 1),
    repeats |-> Sender("jpeg", SubSeq(Jpegs, 1, 6), TRUE, 2, 1),
    audio |-> Sender("audio", <<>>, FALSE, 1, 0),
    frames |-> Sender("frames", <<>>, FALSE, 1, 0)]

=============================================================================
