---------------------------- MODULE HyperBackend ----------------------------
(***************************************************************************)
(* A connection served through hyper (src/backend/hyper), from the moment  *)
(* it was accepted: dispatch, then hyper's connection future and the       *)
(* watchdog that races it.                                                 *)
(*                                                                         *)
(* hyper itself is external: it reads ahead as it likes, calls the bridge  *)
(* for a whole head once the response before it is buffered (not written), *)
(* buffers what a response body yields, writes as the peer takes it and    *)
(* flushes.  What this crate adds is modelled action by action: the IO     *)
(* adapter (io.rs), the bridge (bridge.rs), the body adapters (body.rs,    *)
(* and Body's raw mode in src/service.rs), the clock and serve (mod.rs).   *)
(*                                                                         *)
(* A unit of the peer's stream is [c, req, part]: a blank line, part of    *)
(* request req's head, of its body, or a body part that fails the reader   *)
(* ("bad": a forbidden trailer, the cap).  What follows the last request   *)
(* reads as the head of one that never ends.  A unit on the wire is        *)
(* [req, what]; an interim response is two of them if SplitInterim.        *)
(***************************************************************************)
EXTENDS Dispatch, FiniteSets

CONSTANTS
    SplitInterim,   \* BOOLEAN: the transport may take half a 100 Continue
    MaxFrames,      \* bound on the chunks a streamed response yields
    MaxQueue        \* bound on the units hyper buffers for writing

Reply == [status : {"200", "204", "101", "bad"}, body : {"none", "full", "stream"},
          close : BOOLEAN]

\* `refuse` says who refuses the head, if anybody: hyper's parser or the bridge.
Request ==
    [version : {"1.0", "1.1"}, head : BOOLEAN, keep_alive : BOOLEAN, expect : BOOLEAN,
     upgrade : BOOLEAN, refuse : {"no", "hyper", "bridge"}, replies : SUBSET Reply]

Unit == [c : STRING, req : Nat, part : {"blank", "head", "body", "bad"}]

ASSUME HyperAssumption ==
    /\ \A i \in Inputs : i.reqs \in Seq(Request) /\ i.stream \in Seq(Unit)
    /\ Preface \in Seq(STRING)
    /\ SplitInterim \in BOOLEAN

VARIABLES
    clock, wd,      \* PhaseClock, and what the watchdog has armed
    rbuf,           \* hyper's read-ahead, as positions in the stream
    st,             \* where hyper's future is
    req,            \* the request last called for
    body,           \* what has become of its body
    resp,           \* what hyper has still to encode, and what comes after
    outq, wire,     \* units buffered for writing, and written
    owing,          \* history: a response handed over, not yet out
    begun,          \* history: part of the awaited head has arrived
    waited,         \* history: time spent on what is now waited for
    bodyAge,        \* history: time since the handler was called
    lapsed          \* history: what the watchdog gave up on

hyperVars == <<clock, wd, rbuf, st, req, body, resp, outq, wire>>
history == <<owing, begun, waited, bodyAge, lapsed>>
vars == <<dispatchVars, hyperVars, history>>

Nothing == [encode |-> "none", then |-> "wait", frames |-> 0, streams |-> FALSE]

Init ==
    /\ DispatchInit
    /\ clock = NewClock
    /\ wd = Armed(NewClock)
    /\ rbuf = <<>>
    /\ st = "wait"
    /\ req = 0
    /\ body = "none"
    /\ resp = Nothing
    /\ outq = <<>> /\ wire = <<>>
    /\ owing = FALSE /\ begun = FALSE
    /\ waited = 0 /\ bodyAge = 0
    /\ lapsed = [kind |-> "none", due |-> TRUE]

Served == stage = "serve"

Positions(k, parts) ==
    {p \in 1..Len(input.stream) : input.stream[p].req = k /\ input.stream[p].part \in parts}

\* The last unit of request k's head, and of the request.
LastOf(ps) == CHOOSE p \in ps : \A q \in ps : q <= p
HeadEnd(k) == LastOf(Positions(k, {"head"}))
RequestEnd(k) == LastOf(Positions(k, {"head", "body", "bad"}))

InBuffer(p) == \E i \in DOMAIN rbuf : rbuf[i] = p

\* What hyper's buffer holds once it has consumed up to position p.
Past(p) ==
    LET n == CHOOSE n \in 0..Len(rbuf) : /\ \A i \in 1..n : rbuf[i] <= p
                                         /\ n < Len(rbuf) => rbuf[n + 1] > p
    IN SubSeq(rbuf, n + 1, Len(rbuf))

\* hyper has a whole head to call the bridge for.
HeadReady == /\ req < Len(input.reqs)
             /\ Positions(req + 1, {"head"}) # {}
             /\ InBuffer(HeadEnd(req + 1))

BodyPending == body \in {"open", "stashed"}

-----------------------------------------------------------------------------
(* io.rs: the transport, and what it tells the clock.                      *)

\* parse::begins_request, of units just read.
Begins(units) == \E i \in DOMAIN units : input.stream[units[i]].part # "blank"

note_read(c, units) == IF c.phase = "Idle" /\ Begins(units) THEN set(c, "Head") ELSE c

\* poll_read_into: what dispatch read comes first.
SocketIsNext == buffered = <<>>

\* hyper reads n units.
Read(n) ==
    LET units == IF SocketIsNext THEN Units(pos + 1, pos + n) ELSE SubSeq(buffered, 1, n) IN
    /\ Served /\ st \in {"wait", "leaving", "handler", "respond"}
    /\ IF SocketIsNext
       THEN ~eof /\ pos + n <= Len(input.stream) /\ pos' = pos + n /\ UNCHANGED buffered
       ELSE n <= Len(buffered) /\ buffered' = SubSeq(buffered, n + 1, Len(buffered))
            /\ UNCHANGED pos
    /\ rbuf' = rbuf \o units
    /\ clock' = note_read(clock, units)
    /\ begun' = (begun \/ (st = "wait" /\ ~owing /\ Begins(units)))
    /\ UNCHANGED <<input, stage, eof, left, fate, wd, st, req, body, resp, outq, wire,
                   owing, bodyAge, lapsed>>

\* A read of no bytes.  Between requests hyper closes once what it owes is
\* out, in the middle of a head at once; in the middle of a message it gives
\* up if it happens to notice, that is with nothing read ahead and no body to
\* deliver the error to.
ReadEof ==
    /\ Served /\ st \in {"wait", "leaving", "handler", "respond"}
    /\ SocketIsNext /\ eof' = TRUE
    /\ ~(st = "wait" /\ HeadReady)
    /\ LET quiet == rbuf = <<>> /\ body \in {"none", "read"} IN
       \/ /\ st = "wait" /\ rbuf = <<>>
          /\ st' = "closing"
          /\ UNCHANGED <<stage, fate>>
       \/ /\ IF st = "wait" THEN rbuf # <<>> ELSE quiet
          /\ Leave("closed")
          /\ UNCHANGED st
       \/ /\ st # "wait" /\ ~quiet /\ ~eof
          /\ UNCHANGED <<stage, fate, st>>
    /\ UNCHANGED <<input, pos, buffered, left, clock, wd, rbuf, req, body, resp, outq, wire,
                   owing, begun, bodyAge, lapsed>>

\* A read, a write or a flush fails: serve returns the error.
IoFails ==
    /\ Served
    /\ Leave("failed")
    /\ UNCHANGED <<input, pos, buffered, eof, left, hyperVars, owing, begun, bodyAge, lapsed>>

\* poll_write_from: the transport takes the first k units.
Write(k) ==
    /\ Served /\ k <= Len(outq)
    /\ wire' = wire \o SubSeq(outq, 1, k)
    /\ outq' = SubSeq(outq, k + 1, Len(outq))
    /\ clock' = note_write(clock)
    /\ UNCHANGED <<dispatchVars, wd, rbuf, st, req, body, resp, owing, begun, bodyAge, lapsed>>

\* poll_flush_from, with hyper's buffer drained; a connection that is to
\* close, or to be upgraded, is then done.  The consumer of an upgrade gets
\* rbuf, and the transport behind it.
Flush ==
    /\ Served /\ outq = <<>>
    /\ owing' = (owing /\ st = "respond")
    /\ IF st \in {"closing", "upgrading"}
       THEN Leave(IF st = "closing" THEN "closed" ELSE "upgraded")
       ELSE UNCHANGED <<stage, fate>>
    /\ clock' = IF st = "upgrading" THEN detach(note_flush(clock)) ELSE note_flush(clock)
    /\ UNCHANGED <<input, pos, buffered, eof, left, wd, rbuf, st, req, body, resp, outq, wire,
                   begun, bodyAge, lapsed>>

-----------------------------------------------------------------------------
(* body.rs, and Body::from_backend and poll_raw: the request's body.       *)

\* BodyState's notify_finished.
Finished(c) == note_request_body_finished(c, c.flag)

\* The handler, or the stream it returned, asks for more of the body: a part,
\* which may be the last, or the failure of the whole.
BodyRead ==
    LET got == {p \in Positions(req, {"body", "bad"}) : InBuffer(p)}
        next == CHOOSE p \in got : \A q \in got : p <= q
        fails == IF got = {} THEN eof /\ buffered = <<>> ELSE input.stream[next].part = "bad"
        ends == got # {} /\ next = RequestEnd(req)
    IN
    /\ Served /\ body = "open" /\ st \in {"handler", "respond"}
    /\ got # {} \/ fails
    /\ rbuf' = IF got = {} THEN rbuf ELSE Past(next)
    /\ body' = IF fails THEN "failed" ELSE IF ends THEN "read" ELSE body
    /\ clock' = IF fails \/ ends THEN Finished(clock) ELSE clock
    /\ UNCHANGED <<dispatchVars, wd, st, req, resp, outq, wire, owing, begun, bodyAge, lapsed>>

\* A body dropped unread, by the handler or by whoever it left it with.
DropBody ==
    /\ Served
    /\ (body = "open" /\ st = "handler") \/ body = "stashed"
    /\ body' = "dropped"
    /\ clock' = Finished(clock)
    /\ UNCHANGED <<dispatchVars, wd, rbuf, st, req, resp, outq, wire,
                   owing, begun, bodyAge, lapsed>>

\* hyper's own interim response, at some moment after the head is parsed.
Interim ==
    /\ Served /\ st \in {"leaving", "handler"} /\ body = "open" /\ input.reqs[req].expect
    /\ \A i \in DOMAIN (wire \o outq) : LET u == (wire \o outq)[i] IN
           u.req = req => u.what \notin {"100", "100a", "100b"}
    /\ outq' = outq \o (IF SplitInterim
                        THEN <<[req |-> req, what |-> "100a"], [req |-> req, what |-> "100b"]>>
                        ELSE <<[req |-> req, what |-> "100"]>>)
    /\ UNCHANGED <<dispatchVars, clock, wd, rbuf, st, req, body, resp, wire,
                   owing, begun, bodyAge, lapsed>>

-----------------------------------------------------------------------------
(* bridge.rs: Bridge::call.                                                *)

\* A response is hyper's to write: its head at once, and its body, if it has
\* one to poll, as hyper has room.
Hand(k, encode, then) ==
    /\ outq' = Append(outq, [req |-> k, what |-> IF encode = "none" THEN "whole" ELSE "head"])
    /\ resp' = [encode |-> encode, then |-> then, frames |-> 0, streams |-> encode = "stream"]
    /\ st' = IF encode = "none" THEN then ELSE "respond"
    /\ owing' = TRUE

\* reject: an empty response, and the connection closes.
reject(k, c) == clock' = note_body_end(set(c, "Write")) /\ Hand(k, "none", "closing")

\* The handler's window opens.  A head that convert_head or framing::decide
\* refuses closes it again; a body that is empty is finished already.
Enter(k) ==
    LET c == set_body_deadline(set(clock, "Handler")) IN
    /\ bodyAge' = 0
    /\ IF input.reqs[k].refuse = "bridge"
       THEN reject(k, c)
       ELSE /\ clock' = IF Positions(k, {"body", "bad"}) = {} THEN Finished(c) ELSE c
            /\ st' = "handler"
            /\ UNCHANGED <<outq, resp, owing>>

\* leave_write: the response before this one is not out.
MustLeave == clock.phase = "Write"

\* hyper has parsed a head, and calls the bridge.
CallService ==
    /\ Served /\ st = "wait" /\ HeadReady /\ input.reqs[req + 1].refuse # "hyper"
    /\ req' = req + 1
    /\ rbuf' = Past(HeadEnd(req + 1))
    /\ begun' = FALSE
    /\ body' = IF Positions(req + 1, {"body", "bad"}) = {} THEN "none" ELSE "open"
    /\ IF MustLeave
       THEN st' = "leaving" /\ UNCHANGED <<clock, outq, resp, owing, bodyAge>>
       ELSE Enter(req + 1)
    /\ UNCHANGED <<dispatchVars, wd, wire, lapsed>>

\* The response before is out.
LeftWrite ==
    /\ Served /\ st = "leaving" /\ ~MustLeave
    /\ Enter(req)
    /\ UNCHANGED <<dispatchVars, wd, rbuf, req, body, wire, begun, lapsed>>

\* hyper refuses a head itself, with a response of its own.
HyperRefuses ==
    /\ Served /\ st = "wait" /\ HeadReady /\ input.reqs[req + 1].refuse = "hyper"
    /\ outq' = outq \o <<[req |-> req + 1, what |-> "err1"], [req |-> req + 1, what |-> "err2"]>>
    /\ st' = "closing"
    /\ UNCHANGED <<dispatchVars, clock, wd, rbuf, req, body, resp, wire,
                   owing, begun, bodyAge, lapsed>>

\* handler_timeout, where there is one.
HandlerTimeout ==
    /\ Served /\ st = "handler" /\ input.handler_timeout
    /\ body' = IF body = "open" THEN "dropped" ELSE body
    /\ reject(req, IF body = "open" THEN Finished(clock) ELSE clock)
    /\ UNCHANGED <<dispatchVars, wd, rbuf, req, wire, begun, bodyAge, lapsed>>

\* Mutant of FullyRead: whatever is left of the body is the next owner's.
NobodyCares == TRUE

FullyRead == body \in {"none", "read"}

\* A handler returns the response r, having left the body it had not read to
\* its end: dropped, kept for later, or moved into the response's stream.
HandlerReturns(r, leaves) ==
    LET q == input.reqs[req]
        impossible == r.status = "bad" \/ (r.status = "101" /\ ~q.upgrade)
        status == IF impossible THEN "500" ELSE r.status
        sends == IF impossible THEN "none" ELSE r.body      \* of Response::new(500)
        upgrading == status = "101" /\ FullyRead
        written == sends # "none" /\ ~q.head /\ status \notin {"101", "204"}
        encode == IF written THEN sends ELSE "none"
        streams == encode = "stream"
        keep == /\ q.keep_alive /\ FullyRead /\ ~impossible
                /\ ~(q.version = "1.0" /\ streams)
                /\ ~r.close
        after == IF body # "open" THEN body
                 ELSE IF leaves = "stashed" THEN "stashed"
                 ELSE IF leaves = "moved" /\ streams THEN "open"
                 ELSE "dropped"
        c == set_response_streams(set(IF after = "dropped" /\ body = "open" THEN Finished(clock)
                                      ELSE clock, "Write"), streams)
    IN
    /\ Served /\ st = "handler"
    /\ body' = after
    /\ clock' = IF encode = "none" THEN note_body_end(c) ELSE c
    /\ Hand(req, encode, IF upgrading THEN "upgrading" ELSE IF keep THEN "wait" ELSE "closing")
    /\ UNCHANGED <<dispatchVars, wd, rbuf, req, wire, begun, bodyAge, lapsed>>

\* hyper has room, and polls the response's body (HyperOutBody::poll_frame):
\* all of it, a chunk, its end, or its failure, which drops the connection.
PollFull ==
    /\ Served /\ st = "respond" /\ resp.encode = "full" /\ Len(outq) < MaxQueue
    /\ outq' = Append(outq, [req |-> req, what |-> "end"])
    /\ clock' = note_body_end(clock)
    /\ st' = resp.then
    /\ resp' = [resp EXCEPT !.encode = "none"]
    /\ UNCHANGED <<dispatchVars, wd, rbuf, req, body, wire, owing, begun, bodyAge, lapsed>>

StreamFrame ==
    /\ Served /\ st = "respond" /\ resp.encode = "stream"
    /\ Len(outq) < MaxQueue /\ resp.frames < MaxFrames
    /\ outq' = Append(outq, [req |-> req, what |-> "data"])
    /\ resp' = [resp EXCEPT !.frames = @ + 1]
    /\ UNCHANGED <<dispatchVars, clock, wd, rbuf, st, req, body, wire,
                   owing, begun, bodyAge, lapsed>>

\* The stream goes, and the request's body with it if it held that.  Nothing
\* but the close ends a body in HTTP/1.0.
StreamEnds ==
    /\ Served /\ st = "respond" /\ resp.encode = "stream" /\ Len(outq) < MaxQueue
    /\ outq' = IF input.reqs[req].version = "1.0" THEN outq
               ELSE Append(outq, [req |-> req, what |-> "end"])
    /\ body' = IF body = "open" THEN "dropped" ELSE body
    /\ clock' = note_body_end(IF body = "open" THEN Finished(clock) ELSE clock)
    /\ st' = resp.then
    /\ resp' = [resp EXCEPT !.encode = "none"]
    /\ UNCHANGED <<dispatchVars, wd, rbuf, req, wire, owing, begun, bodyAge, lapsed>>

StreamFails ==
    /\ Served /\ st = "respond" /\ resp.encode = "stream"
    /\ Leave("closed")
    /\ clock' = note_body_end(clock)
    /\ UNCHANGED <<input, pos, buffered, eof, left, wd, rbuf, st, req, body, resp, outq, wire,
                   owing, begun, bodyAge, lapsed>>

-----------------------------------------------------------------------------
(* mod.rs: the watchdog, and what serve does when it gives up.             *)

\* What the connection is waiting for, told from what it has done.
Kind ==
    CASE stage = "over" -> "nothing"
      [] stage \in {"tls", "peek"} -> "dispatch"
      [] stage = "answer" -> "answer"
      [] Served /\ owing -> "write"
      [] Served /\ ~owing /\ st = "leaving" -> "handler"
      [] Served /\ ~owing /\ st = "handler" -> IF BodyPending THEN "body" ELSE "handler"
      [] Served /\ ~owing /\ st \notin {"leaving", "handler"} -> IF begun THEN "head" ELSE "idle"

\* The watchdog looks at the clock again.
Rearms ==
    /\ Served
    /\ clock.notified \/ (Fired(clock, wd) /\ Verdict(clock, wd) = "loop")
    /\ wd' = Armed(clock)
    /\ clock' = Watched(clock)
    /\ UNCHANGED <<dispatchVars, rbuf, st, req, body, resp, outq, wire,
                   owing, begun, bodyAge, lapsed>>

\* The body is in, and how long the handler takes is its own affair.
Parks ==
    /\ Served /\ Fired(clock, wd) /\ Verdict(clock, wd) = "park"
    /\ wd' = Parked(wd)
    /\ UNCHANGED <<dispatchVars, clock, rbuf, st, req, body, resp, outq, wire,
                   owing, begun, bodyAge, lapsed>>

Bound(kind) ==
    [dispatch |-> HeaderTimeout, answer |-> WriteTimeout, write |-> WriteTimeout,
     body |-> BodyTimeout, head |-> HeaderTimeout, idle |-> IdleTimeout][kind]

\* A streamed response that the request's deadline still bounds: until it is
\* out, also when somebody else holds the body.
StreamsOverBody ==
    Served /\ owing /\ st # "leaving" /\ resp.streams /\ BodyPending

\* Mutant of Splices: a 408 is due, whatever is on the wire.
NeverSplices == FALSE

Splices == clock.wrote_bytes

\* The watchdog gives up: hyper's future is dropped with what it had
\* buffered, and a late head or body is answered, if nothing of a final
\* response has gone out.
Expires ==
    /\ Served /\ Fired(clock, wd) /\ Verdict(clock, wd) = "expired"
    /\ lapsed' = [kind |-> Kind,
                  due |-> \/ Kind # "handler" /\ waited = Bound(Kind)
                          \/ StreamsOverBody /\ bodyAge = BodyTimeout]
    /\ outq' = <<>>
    /\ IF wd.phase \in {"Head", "Handler"} /\ ~Splices
       THEN stage' = "answer" /\ left' = WriteTimeout /\ UNCHANGED fate
       ELSE Leave("lapsed") /\ UNCHANGED left
    /\ UNCHANGED <<input, pos, buffered, eof, clock, wd, rbuf, st, req, body, resp, wire,
                   owing, begun, bodyAge>>

\* write_error_close, or its deadline.
Answers ==
    /\ stage = "answer"
    /\ \/ /\ Leave("answered")
          /\ wire' = Append(wire, [req |-> IF wd.phase = "Head" THEN req + 1 ELSE req,
                                   what |-> "408"])
       \/ left = 0 /\ Leave("unanswered") /\ UNCHANGED wire
    /\ UNCHANGED <<input, pos, buffered, eof, left, clock, wd, rbuf, st, req, body, resp, outq,
                   owing, begun, bodyAge, lapsed>>

-----------------------------------------------------------------------------
(* Time.  What is ready to run runs before it passes.                      *)

Ready ==
    \/ clock.notified \/ Fired(clock, wd)
    \/ st = "wait" /\ HeadReady
    \/ st = "leaving" /\ ~MustLeave
    \/ st = "respond" /\ resp.encode = "full" /\ outq = <<>>

Tick ==
    /\ stage # "over"
    /\ IF Served
       THEN /\ ~Ready
            /\ clock' = Aged(clock)
            /\ wd' = [wd EXCEPT !.left = AtLeast0(@ - 1)]
            /\ UNCHANGED left
       ELSE /\ left > 0 /\ left' = left - 1
            /\ UNCHANGED <<clock, wd>>
    /\ waited' = IF Kind = "handler" THEN 0 ELSE Least(waited + 1, Bound(Kind) + 1)
    /\ bodyAge' = IF Served /\ BodyPending THEN Least(bodyAge + 1, BodyTimeout + 1) ELSE bodyAge
    /\ UNCHANGED <<input, stage, pos, buffered, eof, fate, rbuf, st, req, body, resp, outq, wire,
                   owing, begun, lapsed>>

Step ==
    \/ DispatchNext /\ UNCHANGED <<hyperVars, owing, begun, bodyAge, lapsed>>
    \/ \E n \in 1..Len(input.stream) : Read(n)
    \/ ReadEof \/ IoFails
    \/ \E k \in 1..Len(outq) : Write(k)
    \/ Flush
    \/ CallService \/ LeftWrite \/ HyperRefuses \/ Interim
    \/ BodyRead \/ DropBody
    \/ HandlerTimeout
    \/ /\ st = "handler"
       /\ \E r \in input.reqs[req].replies, leaves \in {"dropped", "stashed", "moved"} :
              HandlerReturns(r, leaves)
    \/ PollFull \/ StreamFrame \/ StreamEnds \/ StreamFails
    \/ Rearms \/ Parks \/ Expires \/ Answers

\* A wait starts over when something else is waited for, and that of a
\* writer when the peer takes something.
Next ==
    \/ Step /\ waited' = IF Kind' = Kind /\ (Kind # "write" \/ wire' = wire) THEN waited ELSE 0
    \/ Tick
    \/ stage = "over" /\ UNCHANGED vars

Spec == Init /\ [][Next]_vars

-----------------------------------------------------------------------------
(* Properties.                                                             *)

\* Every wait is bounded by the deadline of what is waited for, and by no
\* other: dispatch (one header_timeout for handshake or preface), a head, a
\* body, an idle peer, a writer without progress, a stream that waits for the
\* request's body however much it writes, and the 408 itself.  The handler is
\* not bounded.  When the watchdog gives up it is on the day, not before; an
\* idle peer and a stalled write are closed in silence, a late head or body is
\* answered unless hyper's own refusal of it is already going out.
\* serve's doc: the native reaction to each expiry (hyper/mod.rs:8).
OnTime ==
    /\ stage # "over" /\ Kind # "handler" => waited <= Bound(Kind)
    /\ StreamsOverBody => bodyAge <= BodyTimeout
    /\ lapsed.due
    /\ lapsed.kind \in {"idle", "write"} => fate = "lapsed"
    /\ lapsed.kind \in {"head", "body"} /\ fate = "lapsed" =>
           wire # <<>> /\ wire[Len(wire)].what \in {"err1", "err2"}

Interims == {"100", "100b"}
Finals == {"whole", "end", "err2", "408"}

\* May unit u follow unit t on the wire?
Follows(t, u) ==
    CASE u.what \in {"100", "100a"} -> t.what \in Finals /\ u.req = t.req + 1
      [] u.what = "100b" -> t.what = "100a" /\ u.req = t.req
      [] u.what \in {"whole", "head", "err1", "408"} ->
             \/ t.what \in Finals /\ u.req = t.req + 1
             \/ t.what \in Interims /\ u.req = t.req
      [] u.what = "data" -> t.what \in {"head", "data"} /\ u.req = t.req
      [] u.what = "end" -> t.what \in {"head", "data"} /\ u.req = t.req
      [] u.what = "err2" -> t.what = "err1" /\ u.req = t.req

Before(i) == IF i = 1 THEN [req |-> 0, what |-> "whole"] ELSE wire[i - 1]

\* What the peer reads is, for each request in turn, at most one interim
\* response and then one final one, whole before the next begins: no 408 of
\* the watchdog's lands inside, or after, another answer to its request, and
\* none overtakes the response before (wrote_bytes, leave_write).
OneFinalResponse == \A i \in DOMAIN wire : Follows(Before(i), wire[i])

\* "an interim response is explicitly followed by a final one, so a 408
\* after it is correct framing" (hyper/mod.rs, wrote_bytes): a 408 begins
\* where a message has ended.
LateAnswerIsFramed ==
    \A i \in DOMAIN wire :
        wire[i].what = "408" => Before(i).what \in Interims \cup Finals

SpeaksPreface ==
    Len(input.stream) >= Len(Preface) /\ Classes(Len(Preface)) = Preface

\* No byte is lost, repeated or out of order where a connection changes
\* hands: dispatch gives the fallback exactly those that speak HTTP/2, with
\* the preface it read; hyper has what dispatch read before what it reads
\* itself; and who takes over an upgraded one starts behind the request's
\* last byte.
TakenOver ==
    /\ fate = "h2" => \/ input.tls /\ input.h2 /\ buffered = <<>> /\ pos = 0
                      \/ ~input.tls /\ input.detect_h2c /\ SpeaksPreface
                         /\ buffered = Units(1, pos) /\ pos = Len(Preface)
    /\ Served /\ ~input.tls /\ input.detect_h2c /\ SpeaksPreface => eof
    /\ Served => rbuf \o buffered = Units(pos - Len(rbuf \o buffered) + 1, pos)
    /\ fate = "upgraded" => rbuf \o buffered = Units(RequestEnd(req) + 1, pos)
=============================================================================
