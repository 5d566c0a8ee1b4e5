------------------------------- MODULE HttpBody -------------------------------
(***************************************************************************)
(* HTTP input (crates/rff-io/src/lib.rs): the fetch of a URL, through its  *)
(* redirects, and the reader of the response's body.                       *)
(*                                                                         *)
(* A body is a sequence of chunks, each a sequence of units.  A body with  *)
(* a Content-Length, or one that runs until the server closes, is a single *)
(* chunk.                                                                  *)
(***************************************************************************)
EXTENDS Integers, Sequences, FiniteSets, SequencesExt

CONSTANTS
    Web,            \* what each URL answers
    MaxRedirects,   \* MAX_REDIRECTS
    None            \* Option::None

Kinds == {"redirect", "error", "playlist", "media"}

\* Its directory and its name.
Urls == STRING \X STRING

\* What is being fetched, and what is being read.  The end of a body is known from
\* its Content-Length when it is `sized`, and otherwise from a chunk of no length
\* or from the server's closing.
Requests == [url : Urls, hops : 0..MaxRedirects]
Responses == [cur : Seq(Nat), rest : Seq(Seq(Nat) \ {<<>>}), sized : BOOLEAN, up : BOOLEAN]

VARIABLES
    target,         \* the URL being fetched, and the redirects left
    conn,           \* the response being read: what is left of it
    broken          \* history: a connection failed in the middle of a body

httpVars == <<target, conn, broken>>

HttpInit ==
    /\ target = None
    /\ conn = None
    /\ broken = FALSE

NoAnswer == [kind |-> "error"]
Answers(url) == IF url \in DOMAIN Web THEN Web[url] ELSE NoAnswer

BugHops(hops) == hops

Hops(hops) == hops - 1

\* exchange: a redirect is followed.
Redirected ==
    /\ target # None
    /\ Answers(target.url).kind = "redirect" /\ target.hops > 0
    /\ target' = [url |-> Answers(target.url).to, hops |-> Hops(target.hops)]
    /\ UNCHANGED <<conn, broken>>

\* fetch fails: no connection, no answer in time, a malformed or oversized
\* head; and always at an error status or when there were too many redirects.
FetchFails ==
    /\ target # None
    /\ target' = None
    /\ UNCHANGED <<conn, broken>>

Successful == target # None /\ Answers(target.url).kind \in {"playlist", "media"}

\* A reader positioned at the body.  `cur` is what is left of the chunk that
\* the reader is in, `rest` the chunks after it.
Fetched ==
    /\ Successful
    /\ \E sized \in BOOLEAN :
          /\ sized => Len(Web[target.url].chunks) <= 1
          /\ conn' = [cur |-> <<>>, rest |-> Web[target.url].chunks, sized |-> sized, up |-> TRUE]
    /\ target' = None
    /\ UNCHANGED broken

\* What a URL ends in when n redirects may still be followed.
EndOf[n \in 0..MaxRedirects] ==
    [url \in DOMAIN Web |->
        IF Web[url].kind # "redirect" THEN Web[url]
        ELSE IF n > 0 /\ Web[url].to \in DOMAIN Web THEN EndOf[n - 1][Web[url].to] ELSE NoAnswer]

\* The whole of what may be read from a URL.
Body(url) ==
    LET end == IF url \in DOMAIN Web THEN EndOf[MaxRedirects][url] ELSE NoAnswer
    IN  IF end.kind \in {"playlist", "media"} THEN FlattenSeq(end.chunks) ELSE <<>>

-----------------------------------------------------------------------------
(* The body.  Each of these is one read of the reader. *)

BugLoaded(c) == IF c.rest # <<>> THEN [c EXCEPT !.cur = Head(c.rest), !.rest = Tail(@)] ELSE c

\* next_size: between chunks, the next one is begun.
Loaded(c) ==
    IF c.cur = <<>> /\ c.rest # <<>>
    THEN [c EXCEPT !.cur = Head(c.rest), !.rest = Tail(@)]
    ELSE c

\* n units of the chunk.
Bytes(n) ==
    /\ conn # None /\ conn.up
    /\ n \in 1..Len(Loaded(conn).cur)
    /\ conn' = [Loaded(conn) EXCEPT !.cur = SubSeq(@, n + 1, Len(@))]
    /\ UNCHANGED <<target, broken>>

Delivered(n) == SubSeq(Loaded(conn).cur, 1, n)

\* The server closes, or the connection stalls, before the end is known: after the
\* last unit a body that is not sized may still be cut.
Break ==
    /\ conn # None /\ conn.up
    /\ conn.cur # <<>> \/ conn.rest # <<>> \/ ~conn.sized
    /\ conn' = [conn EXCEPT !.up = FALSE]
    /\ broken' = TRUE
    /\ UNCHANGED target

\* A read of zero bytes: the body is complete, or the connection was closed -
\* inside a chunk, inside the size line of one, or before the Content-Length.
ReadsEnd == conn # None /\ ((conn.cur = <<>> /\ conn.rest = <<>>) \/ ~conn.up)

\* A read fails: the connection was reset, or silent for IO_TIMEOUT, or closed
\* between two chunks, where a size line should be.
ReadsError == conn # None /\ ~conn.up

=============================================================================
