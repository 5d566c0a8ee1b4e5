---------------------------- MODULE RtmpPublisher -----------------------------
(***************************************************************************)
(* Publishing over RTMP (crates/rff-io/src/rtmp.rs): RtmpPublisher::connect*)
(* talks to the server, then the tags of the FLV muxer that writes to it   *)
(* (crates/rff-format-flv/src/mux.rs) are forwarded as messages.           *)
(*                                                                         *)
(* What the server sends is a sequence of tokens: a chunk is a header,     *)
(* [csid, fresh, msg], and the units of its payload, [msg, unit].  What a  *)
(* message is stands in `script`.  TCP hands the tokens over in portions   *)
(* of any size.                                                            *)
(***************************************************************************)
EXTENDS Integers, Sequences, SequencesExt, Ordering

CONSTANTS
    Config,         \* the extradata of each stream, in the order of streams:
                    \* [media, size], size 0 for none
    TagMod,         \* 2^32, the range of a tag's timestamp
    None,           \* Option::None
    Scripts,        \* the servers: for each command, the messages that answer it
    Programs,       \* the packets given to the muxer; None for another format
    InChunk,        \* the chunk size before any is set (128)
    OutChunk,       \* OUT_CHUNK_SIZE
    TsMax,          \* 2^24 - 1, the greatest timestamp of a message header
    MayClose        \* the server may close the connection, or stall, at any time

\* A "short" message is a command message of less than three bytes.
Kinds == {"result", "error", "short", "set chunk size", "other"}
Commands == {"connect", "createStream", "publish"}

VARIABLES
    phase,          \* "handshake", the command awaited, "live", "done", or
                    \* the error that connect or the muxer returned, or "panicked"
    script,         \* the server's answers
    open,           \* the server has not closed the connection
    prompt,         \* the server reads what it is sent, and pauses in sending
    inbox,          \* tokens on their way to the publisher
    sending,        \* the server's chunk size
    buf,            \* ChunkReader.buf
    chunkSize,      \* ChunkReader.chunk_size
    asm,            \* ChunkReader.streams: [msg, data] for each csid
    msgs,           \* the messages that push will return
    streamId,       \* stream_id
    packets,        \* the packets given to the muxer
    unwritten,      \* what the muxer has still to write
    pending,        \* RtmpPublisher.pending
    sawHeader,      \* saw_flv_header
    heard,          \* the media messages sent to the server
    torn            \* history: a reader was dropped in the middle of a chunk or
                    \* message, or with a chunk size that matters

readerVars == <<buf, chunkSize, asm, msgs>>
serverVars == <<script, open, prompt, inbox, sending>>
flvVars == <<packets, unwritten, pending, sawHeader>>
vars == <<phase, serverVars, readerVars, streamId, flvVars, heard, torn>>

-----------------------------------------------------------------------------
(* The FLV muxer: packets become tags.                                     *)
(*                                                                         *)
(* A packet is [media, pts, dts, size].  A tag is [type, ts, data], its    *)
(* data a sequence of tokens of which two neighbours always differ, and    *)
(* the file a sequence of parts: the signature, and for each tag the size  *)
(* of the previous tag, the header and the data.                           *)

Media == {"video", "audio"}

TypeOf(media) == IF media = "video" THEN 9 ELSE 8

\* write_tag: a timestamp before 0 becomes 0.
Tag(media, ts, id, size) ==
    [type |-> TypeOf(media), ts |-> (IF ts < 0 THEN 0 ELSE ts) % TagMod,
     data |-> [k \in 1..size |-> [tag |-> id, unit |-> k]]]

\* write_sequence_headers: before the first packet, one for each stream that
\* has extradata.
SequenceHeaders ==
    LET some == Ascending({n \in DOMAIN Config : Config[n].size > 0})
    IN  [k \in DOMAIN some |-> Tag(Config[some[k]].media, 0, 0 - k, Config[some[k]].size)]

Or(a, b) == IF a = None THEN b ELSE a

\* write_packet: video is sent at its dts, audio at its pts.
PacketTag(packet, n) ==
    LET ts == IF packet.media = "video" THEN Or(Or(packet.dts, packet.pts), 0)
              ELSE Or(packet.pts, 0)
    IN  Tag(packet.media, ts, n, packet.size)

Tags(given) ==
    (IF given = <<>> THEN <<>> ELSE SequenceHeaders)
        \o [n \in DOMAIN given |-> PacketTag(given[n], n)]

Signature == [part |-> "signature"]
PrevSize == [part |-> "size"]

\* What write_tag writes.
Parts(tag) ==
    <<PrevSize, [part |-> "header", type |-> tag.type, ts |-> tag.ts, size |-> Len(tag.data)]>>
        \o tag.data

\* All that is written, from write_header to write_trailer.
Flv(given) ==
    LET tags == Tags(given)
    IN  <<Signature>> \o FlattenSeq([n \in DOMAIN tags |-> Parts(tags[n])]) \o <<PrevSize>>

-----------------------------------------------------------------------------
(* The server *)

MsgId(command, n) == <<command, n>>
MsgAt(id) == script[id[1]][id[2]]

\* The chunks of one message at chunk size c.
ChunksOf(id, c) ==
    LET m == MsgAt(id)
        n == (m.size + c - 1) \div c
        Part(k) == [u \in 1..(IF k < n THEN c ELSE m.size - (n - 1) * c) |->
                        [msg |-> id, unit |-> (k - 1) * c + u]]
        Chunk(k) == <<[csid |-> m.csid, fresh |-> k = 1, msg |-> id]>> \o Part(k)
    IN  FlattenSeq([k \in 1..n |-> Chunk(k)])

\* The chunk size in force for message n of an answer, and after the last one.
SizeFor(command, n) ==
    LET sets == {k \in 1..(n - 1) : script[command][k].kind = "set chunk size"}
    IN  IF sets = {} THEN sending
        ELSE script[command][CHOOSE k \in sets : \A j \in sets : j <= k].value

Answer(command) ==
    FlattenSeq([n \in DOMAIN script[command] |->
                    ChunksOf(MsgId(command, n), SizeFor(command, n))])

\* A command reaches the server, which answers.
Ask(command) ==
    /\ inbox' = inbox \o (IF open THEN Answer(command) ELSE <<>>)
    /\ sending' = SizeFor(command, Len(script[command]) + 1)
    /\ UNCHANGED <<script, open, prompt>>

ServerCloses ==
    /\ MayClose /\ open
    /\ open' = FALSE
    /\ UNCHANGED <<phase, script, prompt, inbox, sending, readerVars, streamId, flvVars, heard, torn>>

\* The server stops reading, or never pauses in sending, from some tag on.  (A
\* command is small enough for the socket's buffer, and awaiting the reply ends.)
ServerStalls ==
    /\ MayClose /\ open /\ prompt /\ phase = "live"
    /\ prompt' = FALSE
    /\ UNCHANGED <<phase, script, open, inbox, sending, readerVars, streamId, flvVars, heard, torn>>

-----------------------------------------------------------------------------
(* RtmpPublisher::connect *)

FreshReader ==
    /\ buf' = <<>>
    /\ chunkSize' = InChunk
    /\ asm' = <<>>
    /\ msgs' = <<>>

\* The handshake, then the chunk size and `connect` are sent.
Handshake ==
    /\ phase = "handshake" /\ open
    /\ Ask("connect")
    /\ FreshReader
    /\ phase' = "connect"
    /\ UNCHANGED <<streamId, flvVars, heard, torn>>

\* The server is silent for 10 seconds, closes, or speaks another version.
HandshakeFails ==
    /\ phase = "handshake"
    /\ phase' = "no handshake"
    /\ UNCHANGED <<serverVars, readerVars, streamId, flvVars, heard, torn>>

Awaiting == phase \in {"connect", "createStream"}

Assembly(csid) == IF csid \in DOMAIN asm THEN asm[csid] ELSE [msg |-> None, data |-> <<>>]

IsHeader(x) == "csid" \in DOMAIN x

Rest(st) ==
    IF st.msg = None \/ Len(st.data) >= MsgAt(st.msg).size THEN 0
    ELSE MsgAt(st.msg).size - Len(st.data)

BugTake(st) == Rest(st)

\* How much payload the chunk with this assembly has: what is left of the
\* message, but no more than a chunk.
Take(st) == IF Rest(st) > chunkSize THEN chunkSize ELSE Rest(st)

\* The assembly that a chunk continues.
StateFor(h) == IF h.fresh THEN [Assembly(h.csid) EXCEPT !.msg = h.msg] ELSE Assembly(h.csid)

\* try_parse_chunk finds a whole chunk.  (When the buffer starts in the middle
\* of one, payload is read as a header; no message comes of it.)
ChunkReady ==
    /\ buf # <<>> /\ IsHeader(buf[1])
    /\ Len(buf) >= 1 + Take(StateFor(buf[1]))

\* The size that a message just completed sets for the chunks after it.
ChunkSizeAfter(st) ==
    LET m == MsgAt(st.msg) IN IF m.kind = "set chunk size" THEN m.value ELSE chunkSize

ParseChunk ==
    /\ Awaiting /\ ChunkReady
    /\ LET h == buf[1]
           st == StateFor(h)
           n == Take(st)
           data == st.data \o SubSeq(buf, 2, 1 + n)
           complete == st.msg # None /\ Len(data) >= MsgAt(st.msg).size
           kept == [st EXCEPT !.data = IF complete THEN <<>> ELSE data]
       IN  /\ buf' = SubSeq(buf, 2 + n, Len(buf))
           /\ asm' = [c \in DOMAIN asm \cup {h.csid} |-> IF c = h.csid THEN kept ELSE asm[c]]
           /\ msgs' = IF complete THEN Append(msgs, [st EXCEPT !.data = data]) ELSE msgs
           /\ chunkSize' = IF complete THEN ChunkSizeAfter(st) ELSE chunkSize
    /\ UNCHANGED <<phase, serverVars, streamId, flvVars, heard, torn>>

\* socket.read: a portion of what has arrived.
Read(n) ==
    /\ Awaiting /\ ~ChunkReady /\ msgs = <<>>
    /\ buf' = buf \o SubSeq(inbox, 1, n)
    /\ inbox' = SubSeq(inbox, n + 1, Len(inbox))
    /\ UNCHANGED <<phase, script, open, prompt, sending, chunkSize, asm, msgs, streamId, flvVars, heard, torn>>

\* What a message says; one put together from foreign payload says nothing.
Says(msg) ==
    IF \/ MsgAt(msg.msg).kind = "short"
       \/ \A u \in DOMAIN msg.data : msg.data[u] = [msg |-> msg.msg, unit |-> u]
    THEN MsgAt(msg.msg).kind ELSE "other"

\* The messages before the first reply are passed over.  A short message counts
\* as one: payload[3..] panics.
Replies == {n \in DOMAIN msgs : Says(msgs[n]) \in {"result", "error", "short"}}
Reply == msgs[CHOOSE n \in Replies : \A k \in Replies : n <= k]

NoReplyYet ==
    /\ Awaiting /\ ~ChunkReady /\ msgs # <<>> /\ Replies = {}
    /\ msgs' = <<>>
    /\ UNCHANGED <<phase, serverVars, buf, chunkSize, asm, streamId, flvVars, heard, torn>>

\* amf_numbers finds the transaction id, and after it the stream, if one is named.
Transaction == IF phase = "connect" THEN 1 ELSE 2
LastNumber == Or(MsgAt(Reply.msg).value, Transaction)

\* The stream id is the last number in the reply to createStream, from 1 up.
NewId == IF phase = "createStream" /\ LastNumber >= 1 THEN LastNumber ELSE streamId

NextPhase == IF phase = "connect" THEN "createStream" ELSE "live"

\* The messages after the reply, and those of the next answer.
Coming ==
    {MsgId(phase, n) : n \in (Reply.msg[2] + 1)..Len(script[phase])} \cup
    {MsgId("createStream", n) : n \in DOMAIN script["createStream"]}

\* What the reader leaves behind that the next one needs: a part of a chunk or
\* message, or the chunk size of a message to come that one of the sizes splits.
LeavesPart ==
    \/ buf # <<>>
    \/ \E c \in DOMAIN asm : asm[c].data # <<>>
    \/ /\ chunkSize # InChunk
       /\ \E id \in Coming : MsgAt(id).size > InChunk \/ MsgAt(id).size > chunkSize

\* await_result returns, and the next command is sent.  The reader is dropped
\* with all it has read and not returned.
Replied ==
    /\ Awaiting /\ ~ChunkReady /\ Replies # {}
    /\ \/ /\ Says(Reply) = "result"
          /\ phase' = NextPhase
          /\ streamId' = NewId
          /\ torn' = (torn \/ LeavesPart)
          /\ Ask(IF phase = "connect" THEN "createStream" ELSE "publish")
       \/ /\ Says(Reply) # "result"
          /\ phase' = IF Says(Reply) = "error" THEN "rejected" ELSE "panicked"
          /\ UNCHANGED <<streamId, torn, serverVars>>
    /\ FreshReader
    /\ UNCHANGED <<flvVars, heard>>

\* The server closed the connection and everything it sent was read.
ClosedDuring ==
    /\ Awaiting /\ ~ChunkReady /\ msgs = <<>> /\ inbox = <<>> /\ ~open
    /\ phase' = "closed"
    /\ UNCHANGED <<serverVars, readerVars, streamId, flvVars, heard, torn>>

BugDeadline == FALSE

\* Ten seconds, in which all that the server had to say was read.
Deadline ==
    /\ Awaiting /\ ~ChunkReady /\ msgs = <<>> /\ inbox = <<>>
    /\ phase' = "no reply"
    /\ UNCHANGED <<serverVars, readerVars, streamId, flvVars, heard, torn>>

-----------------------------------------------------------------------------
(* Media *)

\* pump: the signature with the size after it, then a whole tag with its size.
SignatureReady == ~sawHeader /\ Len(pending) >= 2

TagReady == sawHeader /\ pending # <<>> /\ Len(pending) >= 1 + pending[1].size + 1

\* The muxer writes, in portions of any size.
Write(n) ==
    /\ phase = "live" /\ ~SignatureReady /\ ~TagReady
    /\ pending' = pending \o SubSeq(unwritten, 1, n)
    /\ unwritten' = SubSeq(unwritten, n + 1, Len(unwritten))
    /\ UNCHANGED <<phase, serverVars, readerVars, streamId, packets, sawHeader, heard, torn>>

PumpSignature ==
    /\ phase = "live" /\ SignatureReady
    /\ IF pending[1] = Signature
       THEN /\ sawHeader' = TRUE /\ pending' = SubSeq(pending, 3, Len(pending))
            /\ UNCHANGED phase
       ELSE /\ phase' = "not FLV" /\ UNCHANGED <<sawHeader, pending>>
    /\ UNCHANGED <<serverVars, readerVars, streamId, packets, unwritten, heard, torn>>

BugMessage(type, ts, data) ==
    [type |-> type, ts |-> ts, sid |-> streamId, size |-> Len(data),
     chunks |-> [k \in 1..(Len(data) \div OutChunk) |->
                    SubSeq(data, (k - 1) * OutChunk + 1, k * OutChunk)]]

\* send_message: in chunks, with a timestamp of three bytes.
Message(type, ts, data) ==
    LET c == OutChunk
        n == (Len(data) + c - 1) \div c
    IN  [type |-> type, ts |-> IF ts > TsMax THEN TsMax ELSE ts, sid |-> streamId,
         size |-> Len(data),
         chunks |-> [k \in 1..n |->
                        SubSeq(data, (k - 1) * c + 1, IF k < n THEN k * c ELSE Len(data))]]

\* A tag is forwarded, and what the server has to say is thrown away.  A server
\* that has closed may still be sent to once before the send fails.  The send has
\* no time limit, nor has drain_server: see Timely.
PumpTag ==
    /\ phase = "live" /\ TagReady
    /\ LET h == pending[1]
       IN  /\ pending' = SubSeq(pending, 1 + h.size + 2, Len(pending))
           /\ \/ /\ heard' = IF open THEN Append(heard, Message(h.type, h.ts,
                                                 SubSeq(pending, 2, 1 + h.size)))
                             ELSE heard
                 /\ inbox' = <<>>
                 /\ UNCHANGED phase
              \/ /\ ~open
                 /\ phase' = "send failed"
                 /\ UNCHANGED <<heard, inbox>>
    /\ UNCHANGED <<script, open, prompt, sending, readerVars, streamId, packets, unwritten, sawHeader, torn>>

\* write_trailer has written the last size and flushes.
Flush ==
    /\ phase = "live" /\ ~SignatureReady /\ ~TagReady /\ unwritten = <<>>
    /\ phase' = "done"
    /\ UNCHANGED <<serverVars, readerVars, streamId, flvVars, heard, torn>>

\* What the job's muxer writes: FLV, or (None) something else.
Output(program) == IF program = None THEN <<PrevSize, PrevSize>> ELSE Flv(program)

Init ==
    /\ phase = "handshake"
    /\ script \in Scripts
    /\ open = TRUE /\ prompt = TRUE
    /\ inbox = <<>>
    /\ sending = InChunk
    /\ buf = <<>> /\ chunkSize = InChunk /\ asm = <<>> /\ msgs = <<>>
    /\ streamId = 1
    /\ packets \in Programs
    /\ unwritten = Output(packets)
    /\ pending = <<>> /\ sawHeader = FALSE
    /\ heard = <<>>
    /\ torn = FALSE

Publisher ==
    \/ Handshake \/ HandshakeFails
    \/ ParseChunk \/ (\E n \in 1..Len(inbox) : Read(n))
    \/ NoReplyYet \/ Replied \/ ClosedDuring \/ Deadline
    \/ (\E n \in 1..Len(unwritten) : Write(n))
    \/ PumpSignature \/ PumpTag \/ Flush

Next == ServerCloses \/ ServerStalls \/ Publisher

\* The publisher's thread runs on, except in the sending of a tag to a server that
\* is connected and stalls.
Timely == prompt \/ ~open \/ phase # "live" \/ ~TagReady

Spec == Init /\ [][Next]_vars /\ WF_vars(Publisher /\ Timely)

-----------------------------------------------------------------------------
(* Properties *)

\* "the publisher parses the incoming FLV stream (header + tags) and forwards
\* each tag as one RTMP message" (rtmp.rs:6-7): however the muxer's writes fall,
\* the server is sent the tags in order, each once, whole and with its type and
\* timestamp ("extended timestamps: clamp", rtmp.rs:225), on the stream it
\* created; and all of them if the job succeeds with the connection up.
TagsAreForwarded ==
    LET tags == IF packets = None THEN <<>> ELSE Tags(packets)
    IN  /\ Len(heard) <= Len(tags)
        /\ \A n \in DOMAIN heard :
              /\ heard[n].type = tags[n].type /\ heard[n].sid = streamId
              /\ heard[n].ts = IF tags[n].ts > TsMax THEN TsMax ELSE tags[n].ts
              /\ FlattenSeq(heard[n].chunks) = tags[n].data
              /\ \A k \in DOMAIN heard[n].chunks :
                    Len(heard[n].chunks[k]) \in 1..OutChunk
        /\ (phase = "done" /\ open) => Len(heard) = Len(tags)

Gives(command, kind) == \E n \in DOMAIN script[command] : script[command][n].kind = kind
Answers(command) == Gives(command, "result") \/ Gives(command, "error")

\* The reply that the server gives to a command is found, in whatever portions it
\* arrives, unless the reader of the previous reply was dropped with a part of what
\* follows; an error and a panic have a message that says so; and media go to the
\* stream that the reply to createStream names.  Where it names none the last
\* number of the reply is the transaction id, 2, and not 1 as rtmp.rs:12 has it.
RepliesAreFound ==
    LET created == {script["createStream"][n].value : n \in
                      {k \in DOMAIN script["createStream"] : script["createStream"][k].kind = "result"}}
        StreamOf(value) == IF value = None THEN 2 ELSE IF value = 0 THEN 1 ELSE value
    IN  /\ (phase = "no reply" /\ open /\ ~torn) => ~Answers("connect") \/ ~Answers("createStream")
        /\ phase = "rejected" => Gives("connect", "error") \/ Gives("createStream", "error")
        /\ phase = "panicked" => Gives("connect", "short") \/ Gives("createStream", "short")
        /\ phase \in {"live", "done"} => streamId \in {StreamOf(value) : value \in created}

\* "Read chunks until an AMF0 `_result`/`_error` command arrives" (rtmp.rs:242): no
\* reply that the server gives to a command goes unheard.
RepliesAreHeard ==
    (phase = "no reply" /\ open) => ~Answers("connect") \/ ~Answers("createStream")

\* Every publishing job ends: the deadline of each reply sees to it.  Only a server
\* that is connected and stalls can hold it for ever, in the sending of a tag.
PublishingEnds ==
    \/ <>(phase \notin {"handshake", "connect", "createStream", "live"})
    \/ <>[](open /\ ~prompt /\ phase = "live" /\ TagReady)

=============================================================================
