----------------------------- MODULE Connection -----------------------------
(***************************************************************************)
(* One HTTP/1 connection of the native backend: Connection::serve and what *)
(* it calls (src/conn.rs), and the request bodies that read through the    *)
(* same transport (Body, src/service.rs).                                  *)
(*                                                                         *)
(* The peer's byte stream is a sequence of units, each belonging to one    *)
(* request: blank lines "n" before a head, head lines "h", the unit "H"    *)
(* that holds the head's terminator, body data "b", the end "e" of a       *)
(* chunked body, a malformed chunk "x", and post-upgrade bytes "u".  Body  *)
(* units can look like a head terminator to the scanner: whether a head is *)
(* ever searched for inside a body is the question, not an assumption.     *)
(* A buffer is the sequence of the stream positions it holds.  The peer    *)
(* receives units <<i, "s">> (head of the i-th response), "b", "z" (its    *)
(* end), and the halves "c1", "c2" of a 100 Continue.                      *)
(*                                                                         *)
(* Handlers, response streams and the tasks a handler may move its Body to *)
(* are arbitrary: they read, stop reading, drop, keep, answer or panic.    *)
(* Deadlines may expire whenever they are armed and polled (their timing   *)
(* is module Deadline's); the byte-exact head scan is HeadScanner's.       *)
(***************************************************************************)
EXTENDS Integers, Sequences, FiniteSets, SequencesExt

CONSTANTS
    Inputs,         \* the request sequences the peer may send
    Replies(_),     \* the responses a handler may return, in answer to such a sequence
    MaxReq,         \* bound: requests on one connection
    MaxRead,        \* bound: units one read of the transport returns
    MaxHead,        \* Limits::max_head_bytes, in units
    MaxChunks,      \* bound: chunks of one streamed response
    StreamFlush,    \* STREAM_FLUSH_BYTES, in units
    PipelineFlush,  \* PIPELINE_FLUSH_BYTES, in units
    HandlerLimited  \* whether Limits::handler_timeout is set

Ids == 1..MaxReq

\* BodyKind is none, length or chunked; `len` its data units.  `reject` is a
\* head that parse_head_region or framing::decide refuses.
Request ==
    [kind : {"none", "length", "chunked"}, len : Nat, malformed : BOOLEAN,
     blank : Nat, lines : Nat, post : Nat, reject : BOOLEAN, http10 : BOOLEAN,
     keep_alive : BOOLEAN, expect : BOOLEAN, upgrade : BOOLEAN, head : BOOLEAN]

\* A status is final, a body-less final one (204, 304), 101, or not final.
Reply == [status : {"final", "bodyless", "switch", "interim"},
          close : BOOLEAN, stream : BOOLEAN]

ASSUME ConnectionAssumption ==
    /\ Inputs \subseteq Seq(Request)
    /\ \A rs \in Inputs : Replies(rs) \subseteq Reply
    /\ MaxReq \in Nat /\ \A rs \in Inputs : Len(rs) < MaxReq
    /\ {MaxRead, MaxHead, MaxChunks, StreamFlush, PipelineFlush} \subseteq Nat
    /\ HandlerLimited \in BOOLEAN

\* The peer speaks HTTP/1 up to its last request: only that one is followed by
\* the bytes of another protocol,
ASSUME LastAssumption ==
    \A rs \in Inputs : \A i \in 1..(Len(rs) - 1) : rs[i].post = 0

\* and only that one asks for another protocol.
ASSUME UpgradeAssumption ==
    \A rs \in Inputs : \A i \in 1..(Len(rs) - 1) : ~rs[i].upgrade

VARIABLES
    reqs, input, pos,   \* the peer: its requests, their units, how many were read
    io,                 \* IoState: read buffer, owed continue, body signal
    body,               \* the Body of each request served so far
    conn,               \* flags of the serve loop
    out, held,          \* responses not yet written; those in a HeldOutput guard
    wire,               \* what the transport accepted, in order
    pc, ret,            \* where the serve loop is; where it goes after a write
    cur,                \* the request being served
    resp,               \* what write_response decided for it
    chunks,             \* chunks its stream has produced
    answered            \* history: how many responses were composed in full

peer == <<reqs, input>>
vars == <<reqs, input, pos, io, body, conn, out, held, wire, pc, ret, cur,
          resp, chunks, answered>>

\* Where the loop awaits, so that another task may run; and where it is gone.
Parked == {"reading", "flush", "settle", "handler", "streamwait"}
Ended  == {"closed", "upgraded", "panicked"}
Labels == Parked \cup Ended \cup
          {"head", "split", "poll1", "compose", "stream", "finish", "return", "error"}

\* Who holds a Body: nobody yet, the handler, the response stream it was moved
\* to, another task that outlives the handler, or it was dropped.
Owners == {"none", "handler", "stream", "stash", "dropped"}
Live(b) == b.owner \in {"handler", "stream", "stash"}

\* The length of a 100 Continue in units: a write can be short.
CLen == 2

RespUnits == Ids \X {"s", "b", "z", "c1", "c2"}

IoStates == [buf : Seq(1..Len(input)), pending_continue : 0..CLen,
             body_finished : BOOLEAN, body_generation : 0..MaxReq]

Bodies == [owner : Owners, kind : {"none", "length", "chunked"}, remaining : Nat,
           buffered : Seq(1..Len(input)), done : BOOLEAN, continue_sent : BOOLEAN,
           generation : 0..MaxReq]

Flags == [body_read : BOOLEAN, started : BOOLEAN, broken : BOOLEAN]

Dispositions == [upgrading : BOOLEAN, keep_alive : BOOLEAN,
                 streams : BOOLEAN, unframed : BOOLEAN]

\* The type invariant of the connection's state (IoState, Body, Connection):
\* every buffered position was read from the transport, and what a length
\* body is still owed never goes below zero.
TypeOK ==
    /\ pos \in 0..Len(input)
    /\ io \in IoStates
    /\ body \in [Ids -> Bodies]
    /\ conn \in Flags
    /\ {out, held, wire} \subseteq Seq(RespUnits)
    /\ pc \in Labels /\ ret \in Labels
    /\ cur \in 0..MaxReq
    /\ resp \in Dispositions
    /\ chunks \in 0..MaxChunks
    /\ answered \in 0..MaxReq

-----------------------------------------------------------------------------
(* The peer's stream, and what the head scanner sees of it.                *)

Repeat(n, i, part) == [k \in 1..n |-> <<i, part>>]

\* The units of the i-th request, as the peer frames it.
UnitsOf(i, r) ==
       Repeat(r.blank, i, "n") \o Repeat(r.lines, i, "h") \o << <<i, "H">> >>
    \o (IF r.kind = "none" THEN <<>> ELSE Repeat(r.len, i, "b"))
    \o (IF r.kind # "chunked" THEN <<>>
        ELSE << <<i, IF r.malformed THEN "x" ELSE "e">> >>)
    \o Repeat(r.post, i, "u")

Stream(rs) == FlattenSeq([i \in DOMAIN rs |-> UnitsOf(i, rs[i])])

Part(p) == input[p][2]
IsBlank(p) == Part(p) = "n"
Terminates(p) == Part(p) \in {"H", "b", "e"}

\* The next k units of the transport.
Fresh(k) == [j \in 1..k |-> pos + j]

\* Leading blank lines are discarded, never counted as a request.
StripBlank(b) ==
    LET n == CHOOSE n \in 0..Len(b) :
                /\ \A j \in 1..n : IsBlank(b[j])
                /\ n = Len(b) \/ ~IsBlank(b[n + 1])
    IN  SubSeq(b, n + 1, Len(b))

HeadEnds(b) == {k \in DOMAIN b : Terminates(b[k])}
has_complete_head(b) == HeadEnds(StripBlank(b)) # {}

\* Mutant of find_head_end: searches from the end (rfind).
LastHeadEnd(b) == CHOOSE k \in HeadEnds(b) : \A j \in HeadEnds(b) : k >= j

find_head_end(b) == CHOOSE k \in HeadEnds(b) : \A j \in HeadEnds(b) : k <= j
begins_request(b) == \E k \in DOMAIN b : ~IsBlank(b[k])

\* The head of request i, exactly.
IsHeadOf(h, i) ==
    /\ i <= Len(reqs)
    /\ Len(h) = reqs[i].lines + 1
    /\ \A k \in 1..(Len(h) - 1) : input[h[k]] = <<i, "h">>
    /\ input[h[Len(h)]] = <<i, "H">>

-----------------------------------------------------------------------------
NoBody == [owner |-> "none", kind |-> "none", remaining |-> 0, buffered |-> <<>>,
           done |-> FALSE, continue_sent |-> FALSE, generation |-> 0]

Init ==
    /\ reqs \in Inputs
    /\ input = Stream(reqs)
    /\ pos = 0
    /\ io = [buf |-> <<>>, pending_continue |-> 0,
             body_finished |-> FALSE, body_generation |-> 0]
    /\ body = [i \in Ids |-> NoBody]
    /\ conn = [body_read |-> FALSE, started |-> FALSE, broken |-> FALSE]
    /\ out = <<>> /\ held = <<>> /\ wire = <<>>
    /\ pc = "head" /\ ret = "head"
    /\ cur = 0
    /\ resp = [upgrading |-> FALSE, keep_alive |-> FALSE,
               streams |-> FALSE, unframed |-> FALSE]
    /\ chunks = 0
    /\ answered = 0

-----------------------------------------------------------------------------
(* Reading a head: read_until_head_or_idle.                                *)

\* Entry.  Responses still waiting in `out` are flushed before any wait.
ReadUntilHead ==
    /\ pc = "head"
    /\ LET b == StripBlank(io.buf) IN
       /\ io' = [io EXCEPT !.buf = b]
       /\ conn' = [conn EXCEPT !.started = begins_request(b)]
       /\ pc' = CASE has_complete_head(b) -> "split"
                  [] ~has_complete_head(b) /\ out # <<>> -> "flush"
                  [] OTHER -> "reading"
       /\ ret' = "head"
    /\ UNCHANGED <<peer, pos, body, out, held, wire, cur, resp, chunks, answered>>

\* A read of the transport returns k units.
HeadRead(k) ==
    /\ pc = "reading"
    /\ pos + k <= Len(input)
    /\ pos' = pos + k
    /\ LET b == StripBlank(io.buf \o Fresh(k))
           tooLarge == ~has_complete_head(b) /\ Len(b) > MaxHead
       IN /\ io' = [io EXCEPT !.buf = b]
          /\ conn' = [conn EXCEPT !.started = @ \/ begins_request(Fresh(k))]
          /\ pc' = IF has_complete_head(b) THEN "split"
                   ELSE IF tooLarge THEN "settle" ELSE "reading"
          /\ ret' = IF tooLarge THEN "error" ELSE ret
          /\ cur' = IF tooLarge THEN cur + 1 ELSE cur
    /\ UNCHANGED <<peer, body, out, held, wire, resp, chunks, answered>>

\* End of stream, or a read error: the loop returns without a response.
HeadEof ==
    /\ pc = "reading"
    /\ pc' = "closed"
    /\ UNCHANGED <<peer, pos, io, body, conn, out, held, wire, ret, cur, resp,
                   chunks, answered>>

\* The deadline: 408 for a request that began, silence for an idle peer.
HeadTimeout ==
    /\ pc = "reading"
    /\ IF conn.started
       THEN pc' = "settle" /\ ret' = "error" /\ cur' = cur + 1
       ELSE pc' = "closed" /\ UNCHANGED <<ret, cur>>
    /\ UNCHANGED <<peer, pos, io, body, conn, out, held, wire, resp, chunks, answered>>

-----------------------------------------------------------------------------
(* Dispatch: split the head off, decide the framing, create the Body, and  *)
(* put earlier responses where the handler cannot hold them back.          *)

\* Body::new.
NewBody(r, gen) ==
    [owner |-> "handler", kind |-> r.kind,
     remaining |-> IF r.kind = "length" THEN r.len ELSE 0,
     buffered |-> <<>>,
     done |-> r.kind = "none" \/ (r.kind = "length" /\ r.len = 0),
     continue_sent |-> ~(r.expect /\ ~r.http10), generation |-> gen]

\* Whether earlier responses are held for the handler's first poll.  A client
\* that expects a 100 Continue gets them flushed before the handler runs.
HoldsForPoll(r) == out # <<>> /\ ~(r.expect /\ ~r.http10)

Split ==
    /\ pc = "split"
    /\ LET end == find_head_end(io.buf)
           rest == SubSeq(io.buf, end + 1, Len(io.buf))
           good == IsHeadOf(SubSeq(io.buf, 1, end), cur + 1) /\ ~reqs[cur + 1].reject
           r == reqs[cur + 1]
           b == NewBody(r, io.body_generation + 1)
       IN /\ cur' = cur + 1
          /\ IF good
             THEN /\ io' = [buf |-> rest,
                            pending_continue |-> IF b.continue_sent THEN 0 ELSE CLen,
                            body_finished |-> b.done,
                            body_generation |-> b.generation]
                  /\ body' = [body EXCEPT ![cur + 1] = b]
                  /\ conn' = [conn EXCEPT !.body_read = b.done]
                  /\ held' = IF HoldsForPoll(r) THEN out ELSE <<>>
                  /\ out' = IF HoldsForPoll(r) THEN <<>> ELSE out
                  /\ pc' = IF HoldsForPoll(r) THEN "poll1"
                           ELSE IF out # <<>> THEN "flush" ELSE "handler"
                  /\ ret' = "handler"
             ELSE /\ io' = [io EXCEPT !.buf = rest]
                  /\ pc' = "settle" /\ ret' = "error"
                  /\ UNCHANGED <<body, conn, held, out>>
    /\ UNCHANGED <<peer, pos, wire, resp, chunks, answered>>

-----------------------------------------------------------------------------
(* Request bodies (src/service.rs) over the shared transport (BodyIo).     *)

\* BodyIo::body_finished: only the current request's body reports.
body_finished(st, gen) ==
    IF gen = st.body_generation THEN [st EXCEPT !.body_finished = TRUE] ELSE st

\* The transport after Body b is dropped: an unfinished one reports itself.
AfterDrop(st, b) == IF b.done THEN st ELSE body_finished(st, b.generation)

Emptied(b) == [b EXCEPT !.buffered = <<>>]
Dropped(b) == [Emptied(b) EXCEPT !.owner = "dropped"]

\* Who may poll Body i now: the handler or stream it belongs to while the loop
\* polls that, another task whenever the loop awaits or is gone.
CanPoll(i) ==
    \/ body[i].owner = "handler" /\ i = cur /\ pc \in {"poll1", "handler"}
    \/ body[i].owner = "stream" /\ i = cur /\ pc \in {"stream", "streamwait"}
    \/ body[i].owner = "stash" /\ pc \in Parked \cup Ended

\* The first read waits for the 100 Continue to be on the wire in full.
Readable(i) ==
    /\ CanPoll(i)
    /\ ~body[i].done
    /\ body[i].continue_sent \/ io.pending_continue = 0

\* take_buffered: a length body takes no more than it is owed, a chunked one
\* everything, the next requests included.
Taken(b, st) ==
    IF b.buffered # <<>> THEN b.buffered
    ELSE IF b.kind = "length"
         THEN SubSeq(st.buf, 1, IF Len(st.buf) < b.remaining THEN Len(st.buf) ELSE b.remaining)
         ELSE st.buf

LeftInBuf(b, st) ==
    IF b.buffered # <<>> THEN st.buf
    ELSE SubSeq(st.buf, Len(Taken(b, st)) + 1, Len(st.buf))

\* Mutant of push_back: the residue of an over-read is dropped.
ResidueDropped(st, bytes) == st

\* BodyIo::push_back: the residue precedes whatever is buffered.
push_back(st, bytes) == [st EXCEPT !.buf = bytes \o @]

\* Body::finish, publishing the end, and Body::fail, publishing only that no
\* more is awaited.
Finish(i, b, st) ==
    /\ body' = [body EXCEPT ![i] = [Emptied(b) EXCEPT !.done = TRUE]]
    /\ io' = body_finished(st, b.generation)
    /\ conn' = [conn EXCEPT !.body_read = TRUE]

\* Mutant of FailRead: a failed body is published as read.
FailAsRead == TRUE

\* What `fail` stores in the shared `fully_read` flag.
FailRead == FALSE

Fail(i, st) ==
    /\ body' = [body EXCEPT ![i] = [@ EXCEPT !.done = TRUE]]
    /\ io' = body_finished(st, body[i].generation)
    /\ conn' = [conn EXCEPT !.body_read = FailRead]

\* Mutant of Due: counts everything it was handed.
DueAll(b, got) == Len(got)

\* How much of `got` a length body is still owed.
Due(b, got) == IF Len(got) < b.remaining THEN Len(got) ELSE b.remaining

\* Body b once it has read: its 100 Continue is no longer awaited, and n units
\* less are owed.
Begun(b) == [b EXCEPT !.continue_sent = TRUE]
Advanced(b, n) == [Begun(b) EXCEPT !.remaining = @ - n]

\* poll_chunk with `got` at hand and st the transport they were taken from.
\* `over`: Body::collect finds this chunk takes it over its cap and gives up,
\* which fails the body unless this very chunk ended it.
Consume(i, got, st, over) ==
    LET b == body[i]
        n == Due(b, got)
        ends == \/ b.kind = "length" /\ n >= b.remaining
                \/ b.kind = "chunked" /\ Part(got[1]) = "e"
        data == b.kind = "length" \/ Part(got[1]) = "b"
        used == IF b.kind = "length" THEN n ELSE 1
        left == SubSeq(got, used + 1, Len(got))
    IN CASE ends -> Finish(i, Advanced(b, n), push_back(st, left))
         [] ~ends /\ data /\ ~over ->
               /\ body' = [body EXCEPT ![i] = [Advanced(b, n) EXCEPT !.buffered = left]]
               /\ io' = st
               /\ UNCHANGED conn
         [] ~ends /\ (~data \/ over) -> Fail(i, st)

bodyUnchanged == <<peer, out, held, pc, ret, cur, resp, chunks, answered>>

\* A poll served from the buffers.
BodyChunk(i, over) ==
    /\ Readable(i)
    /\ Taken(body[i], io) # <<>>
    /\ Consume(i, Taken(body[i], io), [io EXCEPT !.buf = LeftInBuf(body[i], io)], over)
    /\ UNCHANGED <<bodyUnchanged, pos, wire>>

\* A poll that reads k units from the transport (poll_fill, which hands over
\* the whole read, however much of it the body is owed).
BodyFill(i, k, over) ==
    /\ Readable(i)
    /\ Taken(body[i], io) = <<>>
    /\ pos + k <= Len(input)
    /\ pos' = pos + k
    /\ Consume(i, Fresh(k), io, over)
    /\ UNCHANGED <<bodyUnchanged, wire>>

\* A poll that finds the peer gone, or a read error: the body fails.
BodyEof(i) ==
    /\ Readable(i)
    /\ Taken(body[i], io) = <<>>
    /\ Fail(i, io)
    /\ UNCHANGED <<bodyUnchanged, pos, wire>>

\* The unit of a 100 Continue that is next when n are owed.
ContinueUnit(i, n) == <<i, IF n = CLen THEN "c1" ELSE "c2">>

\* poll_send_continue, one short write of it, from the body's first poll.
SendContinue(i) ==
    /\ CanPoll(i)
    /\ ~body[i].done /\ ~body[i].continue_sent /\ io.pending_continue > 0
    /\ wire' = Append(wire, ContinueUnit(i, io.pending_continue))
    /\ io' = [io EXCEPT !.pending_continue = @ - 1]
    /\ UNCHANGED <<bodyUnchanged, pos, body, conn>>

\* The transport refuses that write: the body fails.
SendContinueFails(i) ==
    /\ CanPoll(i)
    /\ ~body[i].done /\ ~body[i].continue_sent /\ io.pending_continue > 0
    /\ body' = [body EXCEPT ![i] = [@ EXCEPT !.done = TRUE]]
    /\ io' = body_finished(io, body[i].generation)
    /\ conn' = [body_read |-> FailRead, started |-> conn.started, broken |-> TRUE]
    /\ UNCHANGED <<bodyUnchanged, pos, wire>>

\* The holder drops the Body, read or not.
DropBody(i) ==
    /\ CanPoll(i)
    /\ body' = [body EXCEPT ![i] = Dropped(@)]
    /\ io' = AfterDrop(io, body[i])
    /\ UNCHANGED <<bodyUnchanged, pos, conn, wire>>

\* The handler moves its Body to another task.
StashBody ==
    /\ pc \in {"poll1", "handler"}
    /\ body[cur].owner = "handler"
    /\ body' = [body EXCEPT ![cur].owner = "stash"]
    /\ UNCHANGED <<bodyUnchanged, pos, io, conn, wire>>

-----------------------------------------------------------------------------
(* The handler, and what ends it.                                          *)

\* The handler's future is gone, and with it the Body it still holds.
HandlerGone(st, bs) ==
    /\ body' = IF bs[cur].owner = "handler" THEN [bs EXCEPT ![cur] = Dropped(@)] ELSE bs
    /\ io' = IF bs[cur].owner = "handler" THEN AfterDrop(st, bs[cur]) ELSE st

\* serve returns early: the handler or stream it was driving goes with it.
LoopGone ==
    IF body[cur].owner \in {"handler", "stream"}
    THEN body' = [body EXCEPT ![cur] = Dropped(@)] /\ io' = AfterDrop(io, body[cur])
    ELSE UNCHANGED <<body, io>>

\* Mutant of AfterFirstPoll: waits with the earlier responses unwritten.
StraightToHandler == "handler"

\* What follows a first poll that is pending: the flush, then the wait.
AfterFirstPoll == "flush"

\* First poll pending: what was held is put back and flushed before the wait.
FirstPollPending ==
    /\ pc = "poll1"
    /\ out' = held \o out
    /\ held' = <<>>
    /\ pc' = AfterFirstPoll /\ ret' = "handler"
    /\ UNCHANGED <<peer, pos, io, body, conn, wire, cur, resp, chunks, answered>>

\* Mutant of Upgrading: an unread body does not forfeit the handoff.
UpgradeUnread(r, rep, consumed) == rep.status = "switch" /\ r.upgrade /\ ~r.http10

Upgrading(r, rep, consumed) ==
    rep.status = "switch" /\ r.upgrade /\ ~r.http10 /\ consumed

\* write::is_final_status, for a request that may have asked for an upgrade.
is_final_status(r, rep) ==
    \/ rep.status \in {"final", "bodyless"}
    \/ rep.status = "switch" /\ r.upgrade /\ ~r.http10

\* Whether a streamed reply's body is written at all.
WritesStream(r, rep) == rep.stream /\ rep.status = "final" /\ ~r.head

\* Mutant of Persists: a body moved to another task is that task's to read.
PersistsWhenMoved(r, rep, consumed) ==
    /\ r.keep_alive
    /\ consumed \/ body[cur].owner = "stash"
    /\ ~Upgrading(r, rep, consumed)
    /\ is_final_status(r, rep)
    /\ ~rep.close
    /\ ~(r.http10 /\ WritesStream(r, rep))

\* Whether the connection is reused after the reply.
Persists(r, rep, consumed) ==
    /\ r.keep_alive
    /\ consumed
    /\ ~Upgrading(r, rep, consumed)
    /\ is_final_status(r, rep)
    /\ ~rep.close
    /\ ~(r.http10 /\ WritesStream(r, rep))

\* The handler returns rep, its Body dropped, already elsewhere, or moved
\* into the stream it returns.  A reply that is no final response is replaced
\* by a 500, and its stream with it.
HandlerReturns(rep, moves) ==
    /\ pc \in {"poll1", "handler"}
    /\ moves => rep.stream /\ is_final_status(reqs[cur], rep) /\ body[cur].owner = "handler"
    /\ IF moves
       THEN body' = [body EXCEPT ![cur].owner = "stream"] /\ io' = io
       ELSE HandlerGone(io, body)
    /\ out' = held \o out
    /\ held' = <<>>
    /\ resp' = [upgrading  |-> Upgrading(reqs[cur], rep, conn.body_read),
                keep_alive |-> Persists(reqs[cur], rep, conn.body_read),
                streams    |-> WritesStream(reqs[cur], rep),
                unframed   |-> reqs[cur].http10 /\ WritesStream(reqs[cur], rep)]
    /\ pc' = "settle" /\ ret' = "compose"
    /\ UNCHANGED <<peer, pos, conn, wire, cur, chunks, answered>>

\* Mutant of BodyDeadlineHolds: not polled while the handler runs.
NobodyPolls == FALSE

\* The body deadline bounds the body's arrival and nothing else.
BodyDeadlineHolds == ~io.body_finished

\* body_timeout: 408.  The handler is dropped before the error is written.
BodyTimeout ==
    /\ pc = "handler"
    /\ BodyDeadlineHolds
    /\ HandlerGone(io, body)
    /\ pc' = "settle" /\ ret' = "error"
    /\ UNCHANGED <<peer, pos, conn, out, held, wire, cur, resp, chunks, answered>>

\* handler_timeout: 503.
HandlerTimeout ==
    /\ HandlerLimited
    /\ pc = "handler"
    /\ HandlerGone(io, body)
    /\ pc' = "settle" /\ ret' = "error"
    /\ UNCHANGED <<peer, pos, conn, out, held, wire, cur, resp, chunks, answered>>

\* Mutant of HeldWritten: the guard's drop writes nothing.
HeldForgotten(n) == <<>>

\* What of the held output HeldOutput::drop gets onto the transport when that
\* takes n units without blocking (write_now).
HeldWritten(n) == SubSeq(held, 1, n)

\* The handler panics: the task unwinds, dropping the Body and the guard.
HandlerPanics(n) ==
    /\ pc \in {"poll1", "handler"}
    /\ n \in 0..Len(held)
    /\ HandlerGone(io, body)
    /\ wire' = wire \o HeldWritten(n)
    /\ conn' = [conn EXCEPT !.broken = @ \/ n < Len(held)]
    /\ held' = <<>> /\ out' = <<>>
    /\ pc' = "panicked"
    /\ UNCHANGED <<peer, pos, ret, cur, resp, chunks, answered>>

-----------------------------------------------------------------------------
(* Writing: settle_continue, write_error, flush, and write_response.       *)

\* Mutant of Settled: a 100 Continue not begun stays owed.
StaysOwed(n) == n

\* A 100 Continue not yet begun is no longer owed.
Settled(n) == IF n = CLen THEN 0 ELSE n

SettleContinue ==
    /\ pc = "settle"
    /\ io.pending_continue \in {0, CLen}
    /\ io' = [io EXCEPT !.pending_continue = Settled(@)]
    /\ pc' = ret
    /\ UNCHANGED <<peer, pos, body, conn, out, held, wire, ret, cur, resp, chunks, answered>>

\* One half sent is finished: the peer is already parsing it.
SettleWrite ==
    /\ pc = "settle"
    /\ io.pending_continue \in 1..(CLen - 1)
    /\ wire' = Append(wire, ContinueUnit(cur, io.pending_continue))
    /\ io' = [io EXCEPT !.pending_continue = @ - 1]
    /\ UNCHANGED <<peer, pos, body, conn, out, held, pc, ret, cur, resp, chunks, answered>>

\* The write deadline or a transport error ends the connection.
SettleFails ==
    /\ pc = "settle"
    /\ io.pending_continue \in 1..(CLen - 1)
    /\ conn' = [conn EXCEPT !.broken = TRUE]
    /\ LoopGone
    /\ pc' = "closed"
    /\ UNCHANGED <<peer, pos, out, held, wire, ret, cur, resp, chunks, answered>>

Flushing(then) == pc' = "flush" /\ ret' = then

\* Mutant of AfterEarlier: the response replaces what `out` still holds.
OutCleared(units) == units

\* A response goes out after the earlier ones still waiting.
AfterEarlier(units) == out \o units

\* write_error: a bare response, after the earlier ones still owed.
WriteError ==
    /\ pc = "error"
    /\ out' = AfterEarlier(<< <<cur, "s">>, <<cur, "z">> >>)
    /\ answered' = cur
    /\ Flushing("closed")
    /\ UNCHANGED <<peer, pos, io, body, conn, held, wire, cur, resp, chunks>>

FlushWrite ==
    /\ pc = "flush"
    /\ out # <<>>
    /\ wire' = Append(wire, Head(out))
    /\ out' = Tail(out)
    /\ UNCHANGED <<peer, pos, io, body, conn, held, pc, ret, cur, resp, chunks, answered>>

FlushDone ==
    /\ pc = "flush"
    /\ out = <<>>
    /\ pc' = ret
    /\ UNCHANGED <<peer, pos, io, body, conn, out, held, wire, ret, cur, resp, chunks, answered>>

\* The write deadline or a transport error: `out` is cleared, serve returns.
FlushFails ==
    /\ pc = "flush"
    /\ out' = <<>>
    /\ conn' = [conn EXCEPT !.broken = TRUE]
    /\ LoopGone
    /\ pc' = "closed"
    /\ UNCHANGED <<peer, pos, held, wire, ret, cur, resp, chunks, answered>>

\* write_response up to the body; a stream's head is flushed at once.
Compose ==
    /\ pc = "compose"
    /\ IF resp.streams
       THEN /\ out' = AfterEarlier(<< <<cur, "s">> >>)
            /\ Flushing("stream")
            /\ UNCHANGED answered
       ELSE /\ out' = AfterEarlier(<< <<cur, "s">>, <<cur, "z">> >>)
            /\ answered' = cur
            /\ pc' = "finish" /\ UNCHANGED ret
    /\ chunks' = 0
    /\ UNCHANGED <<peer, pos, io, body, conn, held, wire, cur, resp>>

\* The stream yields a chunk; frames are coalesced up to STREAM_FLUSH_BYTES.
StreamChunk ==
    /\ pc \in {"stream", "streamwait"}
    /\ chunks < MaxChunks
    /\ chunks' = chunks + 1
    /\ out' = Append(out, <<cur, "b">>)
    /\ IF Len(out) + 1 >= StreamFlush THEN Flushing("stream") ELSE pc' = "stream" /\ UNCHANGED ret
    /\ UNCHANGED <<peer, pos, io, body, conn, held, wire, cur, resp, answered>>

\* Mutant of WaitNeedsFlush: coalesced frames sit out the stream's pause.
WaitWithFrames == FALSE

WaitNeedsFlush == out # <<>>

\* The stream is not ready: what was coalesced goes out before the wait.
StreamPending ==
    /\ pc = "stream"
    /\ IF WaitNeedsFlush THEN Flushing("streamwait") ELSE pc' = "streamwait" /\ UNCHANGED ret
    /\ UNCHANGED <<peer, pos, io, body, conn, out, held, wire, cur, resp, chunks, answered>>

\* The stream, and a Body moved into it, is dropped.
StreamGone ==
    IF body[cur].owner = "stream"
    THEN body' = [body EXCEPT ![cur] = Dropped(@)] /\ io' = AfterDrop(io, body[cur])
    ELSE UNCHANGED <<body, io>>

\* The stream ends: the last chunk, unless the close is what delimits it.
StreamEnds ==
    /\ pc \in {"stream", "streamwait"}
    /\ out' = IF resp.unframed THEN out ELSE Append(out, <<cur, "z">>)
    /\ answered' = IF resp.unframed THEN answered ELSE cur
    /\ StreamGone
    /\ pc' = "finish"
    /\ UNCHANGED <<peer, pos, conn, held, wire, ret, cur, resp, chunks>>

\* The stream fails: what it yielded is written, then the connection closes
\* without a last chunk.
StreamError ==
    /\ pc \in {"stream", "streamwait"}
    /\ resp' = [resp EXCEPT !.keep_alive = FALSE]
    /\ Flushing("return")
    /\ UNCHANGED <<peer, pos, io, body, conn, out, held, wire, cur, chunks, answered>>

\* The body deadline while a stream waits on a body still awaited: close.
StreamTimeout ==
    /\ pc = "streamwait"
    /\ BodyDeadlineHolds
    /\ resp' = [resp EXCEPT !.keep_alive = FALSE]
    /\ pc' = "return"
    /\ UNCHANGED <<peer, pos, io, body, conn, out, held, wire, ret, cur, chunks, answered>>

\* The stream panics: its coalesced frames are lost with the task.
StreamPanics ==
    /\ pc \in {"stream", "streamwait"}
    /\ StreamGone
    /\ out' = <<>>
    /\ pc' = "panicked"
    /\ UNCHANGED <<peer, pos, conn, held, wire, ret, cur, resp, chunks, answered>>

\* A response waits for its successor only if that needs no read.
Coalesces ==
    /\ resp.keep_alive /\ ~resp.upgrading
    /\ Len(out) < PipelineFlush
    /\ has_complete_head(io.buf)

\* The tail of write_response.  has_complete_head, when reached, discards
\* blank lines.
FinishResponse ==
    /\ pc = "finish"
    /\ io' = IF resp.keep_alive /\ ~resp.upgrading /\ Len(out) < PipelineFlush
             THEN [io EXCEPT !.buf = StripBlank(@)] ELSE io
    /\ IF Coalesces THEN pc' = "return" /\ UNCHANGED ret ELSE Flushing("return")
    /\ UNCHANGED <<peer, pos, body, conn, out, held, wire, cur, resp, chunks, answered>>

\* into_parts: the transport has no other owner.
HandsOff(bs) == \A i \in Ids : ~Live(bs[i])

\* write_response returns, dropping a stream it did not write; serve acts on
\* the disposition.
Return ==
    /\ pc = "return"
    /\ StreamGone
    /\ pc' = IF resp.upgrading THEN IF HandsOff(body') THEN "upgraded" ELSE "closed"
             ELSE IF resp.keep_alive THEN "head" ELSE "closed"
    /\ UNCHANGED <<peer, pos, conn, out, held, wire, ret, cur, resp, chunks, answered>>

-----------------------------------------------------------------------------
\* The connection is over and no task holds a Body of it.
Over ==
    /\ pc \in Ended
    /\ UNCHANGED vars

BodyStep(i) ==
    \/ \E over \in BOOLEAN : BodyChunk(i, over)
    \/ \E k \in 1..MaxRead, over \in BOOLEAN : BodyFill(i, k, over)
    \/ BodyEof(i)
    \/ SendContinue(i)
    \/ SendContinueFails(i)
    \/ DropBody(i)

HandlerStep ==
    \/ StashBody
    \/ FirstPollPending
    \/ \E rep \in Replies(reqs), moves \in BOOLEAN : HandlerReturns(rep, moves)
    \/ \E n \in 0..Len(held) : HandlerPanics(n)

StreamStep == StreamChunk \/ StreamPending \/ StreamEnds \/ StreamError \/ StreamPanics

LoopStep ==
    \/ ReadUntilHead
    \/ Split
    \/ SettleContinue
    \/ WriteError
    \/ FlushDone
    \/ Compose
    \/ FinishResponse
    \/ Return

PeerStep ==
    \/ \E k \in 1..MaxRead : HeadRead(k)
    \/ HeadEof
    \/ SettleWrite
    \/ FlushWrite

WriteFails == SettleFails \/ FlushFails

Next ==
    \/ LoopStep
    \/ PeerStep
    \/ WriteFails
    \/ HeadTimeout
    \/ BodyTimeout
    \/ HandlerTimeout
    \/ StreamTimeout
    \/ HandlerStep
    \/ StreamStep
    \/ \E i \in Ids : BodyStep(i)
    \/ Over

\* The executor runs the loop's own steps, and every deadline that stays
\* armed expires.  Nothing is assumed of the peer, a handler or a stream.
Fairness ==
    /\ WF_vars(LoopStep)
    /\ WF_vars(WriteFails)
    /\ WF_vars(HeadTimeout)
    /\ WF_vars(BodyTimeout)
    /\ WF_vars(StreamTimeout)

Spec == Init /\ [][Next]_vars

FairSpec == Spec /\ Fairness

-----------------------------------------------------------------------------
(* Properties.                                                             *)

\* The region serve splits off as a head is the next request's head, whole
\* and alone, whatever bodies were read, half read, failed, capped, dropped
\* or kept by other tasks before it, and however reads cut the stream.
HeadsAreHeads ==
    pc = "split" =>
        IsHeadOf(SubSeq(io.buf, 1, find_head_end(io.buf)), cur + 1)

IsRunTo(b, p) == b = [j \in 1..Len(b) |-> p - Len(b) + j]

\* The first stream position neither consumed nor lost: what the buffer holds
\* runs from there to the read position.
NextUnread == pos - Len(io.buf) + 1

\* No byte is lost, duplicated or reordered between the transport, the
\* connection's buffer and a body.  What an unfinished body and the buffer
\* hold, in that order, is the stream up to the read position; and while the
\* loop looks for a head, the buffer starts exactly where the last request
\* ended, blank lines aside.
NoByteLost ==
    /\ \A i \in Ids : Live(body[i]) /\ ~body[i].done =>
            IsRunTo(body[i].buffered \o io.buf, pos)
    /\ pc \in {"head", "reading", "split"} =>
            /\ IsRunTo(io.buf, pos)
            /\ \A p \in 1..(NextUnread - 1) : input[p][1] <= cur \/ IsBlank(p)
            /\ \A p \in NextUnread..Len(input) : input[p][1] > cur \/ Part(p) = "u"

\* Two readers never share the socket: while the loop reads a head, and once
\* the transport is handed to an upgrade consumer, no Body still alive
\* anywhere can read from it.
OneReader ==
    pc \in {"head", "reading", "split", "upgraded"} =>
        \A i \in Ids : Live(body[i]) => body[i].done

\* Which unit may follow which on the wire.
Follows(u, v) ==
    \/ v[1] = u[1] /\ <<u[2], v[2]>> \in {<<"c1", "c2">>, <<"c2", "s">>, <<"s", "b">>,
                                          <<"s", "z">>, <<"b", "b">>, <<"b", "z">>}
    \/ v[1] = u[1] + 1 /\ u[2] = "z" /\ v[2] \in {"c1", "s"}

\* What the peer receives, and what is about to follow it, is one response
\* per request in request order, each complete before the next begins, with a
\* 100 Continue only before its own response and only if asked for: never
\* inside a response, never twice, whoever writes it.
WireWellFormed ==
    LET w == wire \o held \o out IN
    /\ w # <<>> => w[1] \in {<<1, "c1">>, <<1, "s">>}
    /\ \A k \in 1..(Len(w) - 1) : Follows(w[k], w[k + 1])
    /\ \A k \in 1..Len(w) : w[k][2] = "c1" =>
            reqs[w[k][1]].expect /\ ~reqs[w[k][1]].http10

\* Finished responses never wait for the peer or for user code: nothing is
\* held back while the loop waits to read a head, for a handler, or for a
\* stream that is not ready.
NothingHeldBack ==
    pc \in {"reading", "handler", "streamwait"} => out = <<>> /\ held = <<>>

\* When the connection ends, every response composed in full is on the wire
\* unless the transport itself refused bytes: also when a later handler
\* panicked while the responses were held for it.
FinishedResponsesSurvive ==
    pc \in Ended /\ ~conn.broken =>
        /\ out = <<>> /\ held = <<>>
        /\ \A i \in 1..answered : <<i, "z">> \in Range(wire)

\* The upgrade consumer gets the transport with the 101 written in full, no
\* interim response owed, and buffered bytes that are all the peer's first
\* post-upgrade ones: never bytes of a request body.
UpgradeIsClean ==
    pc = "upgraded" =>
        /\ \A k \in DOMAIN io.buf : input[io.buf[k]] = <<cur, "u">>
        /\ IsRunTo(io.buf, pos)
        /\ wire # <<>> /\ Last(wire) = <<cur, "z">>
        /\ io.pending_continue = 0

WaitingOnPeer ==
    \/ pc \in {"reading", "flush", "settle"}
    \/ pc \in {"handler", "streamwait"} /\ ~io.body_finished

\* A peer that stops sending, or stops reading, in any phase cannot hold the
\* connection: it always stops waiting on the peer.  A handler busy after the
\* whole body arrived is not waiting on the peer.
PeerCannotHold == []<>~WaitingOnPeer
=============================================================================
