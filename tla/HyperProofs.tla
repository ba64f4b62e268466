---------------------------- MODULE HyperProofs -----------------------------
(***************************************************************************)
(* The hyper backend's deadlines, its framing and who reads which byte,    *)
(* for every value of the timeouts, every configuration, stream and reply. *)
(*                                                                         *)
(* OnTime is about history variables; what makes it true is that three     *)
(* parties agree.  IInv says so: where hyper's future is and what phase    *)
(* the clock was told (Phased), what the clock knows of the request's body *)
(* (Bodied), what may be buffered or have been written in each phase       *)
(* (Buffered), that the watchdog waits for what the clock says unless it   *)
(* has been told otherwise (Watching), and that the time waited is the     *)
(* time the clock counts (Timed).                                          *)
(*                                                                         *)
(* OneFinalResponse is about the wire; Chain says it of the wire and the   *)
(* buffer behind it together (Linked), and what the last unit of the two   *)
(* is by where hyper's future is (Tips), and of the wire alone where the   *)
(* watchdog may drop the buffer and answer (Pending, Answering).           *)
(*                                                                         *)
(* TakenOver is about who has which of the peer's bytes.  Handed says that *)
(* what was read and not consumed is there unit by unit (InOrder), what    *)
(* dispatch's verdict says of the stream (Verdicts), and that a request    *)
(* whose body is done with is consumed to its last unit (Consumed).        *)
(***************************************************************************)
EXTENDS HyperBackend, SequenceTheorems, WellFoundedInduction, TLAPS

-----------------------------------------------------------------------------
(* The inductive invariants.                                               *)

Clocks ==
    [phase : Phases, moved : BOOLEAN, notified : BOOLEAN, wrote_bytes : BOOLEAN,
     body_done : BOOLEAN, detached : BOOLEAN, finished : BOOLEAN, flag : Int,
     body_left : Nat \cup {None}, response_streams : BOOLEAN, age : Nat]

Watchdogs == [waits : BOOLEAN, phase : Phases, body : BOOLEAN, left : Nat]

Whats == {"100", "100a", "100b", "whole", "head", "data", "end", "err1", "err2", "408"}
OutUnits == [req : Nat, what : Whats]

Responses == [encode : {"none", "full", "stream"}, then : {"wait", "closing", "upgrading"},
              frames : Nat, streams : BOOLEAN]

\* The types of what the proofs are about.
Typed ==
    /\ input \in Inputs
    /\ stage \in {"tls", "peek", "serve", "answer", "over"}
    /\ left \in Nat
    /\ clock \in Clocks
    /\ wd \in Watchdogs
    /\ st \in {"wait", "leaving", "handler", "respond", "closing", "upgrading"}
    /\ req \in 0..Len(input.reqs)
    /\ body \in {"none", "open", "read", "failed", "dropped", "stashed"}
    /\ resp \in Responses
    /\ outq \in Seq(OutUnits) /\ wire \in Seq(OutUnits)
    /\ owing \in BOOLEAN /\ begun \in BOOLEAN
    /\ waited \in Nat /\ bodyAge \in Nat

\* The connection is dispatch's or hyper's; request k has no body.
Going == stage \in {"tls", "peek", "serve"}
Empty(k) == Positions(k, {"body", "bad"}) = {}

\* Where hyper's future is, and what the clock has been told.
Phased ==
    /\ ~clock.detached
    /\ owing <=> clock.phase = "Write"
    /\ st = "handler" <=> clock.phase = "Handler"
    /\ st \in {"respond", "upgrading"} => clock.phase = "Write"
    /\ clock.phase = "Write" => (clock.body_done <=> st # "respond")
    /\ clock.phase = "Handler" => ~clock.body_done
    /\ begun <=> clock.phase = "Head" /\ st \in {"wait", "closing"}
    /\ st \in {"leaving", "handler", "respond"} => req \in DOMAIN input.reqs
    /\ st = "leaving" /\ clock.phase # "Write" => clock.age = 0

\* What the clock knows of the request's body.
Bodied ==
    /\ clock.phase = "Handler" => (clock.finished <=> ~BodyPending)
    /\ clock.phase = "Write" /\ clock.response_streams =>
           (clock.finished <=> st = "leaving" \/ ~BodyPending)
    /\ clock.phase \in {"Handler", "Write"} => clock.body_left # None
    /\ clock.phase = "Handler" => ~clock.response_streams /\ body # "stashed"
    /\ clock.phase = "Write" => clock.response_streams = resp.streams
    /\ st = "respond" /\ resp.then = "wait" => FullyRead
    /\ st = "wait" => FullyRead
    /\ st = "leaving" => body = IF Empty(req) THEN "none" ELSE "open"

\* What may still be buffered, and what a byte written counts for.
Errs == {"err1", "err2"}
Buffered ==
    /\ st = "wait" /\ clock.phase # "Write" => outq = <<>>
    /\ st = "closing" /\ clock.phase # "Write" => \A i \in DOMAIN outq : outq[i].what \in Errs
    /\ clock.phase \in {"Idle", "Handler"} => ~clock.wrote_bytes
    /\ clock.phase = "Head" /\ st # "leaving" /\ clock.wrote_bytes =>
           wire # <<>> /\ wire[Len(wire)].what \in Errs

\* What the watchdog waits for is what the clock says, unless it has been told.
Watching ==
    /\ clock.moved => clock.notified
    /\ ~clock.notified =>
           /\ wd.phase = clock.phase
           /\ wd.body <=> BodyAt(clock) # None
           /\ wd.waits => wd.left = ArmFor(clock)
           /\ ~wd.waits => clock.phase = "Handler" /\ clock.finished

\* How long was waited is what the clock counts: the phase's age, or what is
\* gone of the body's deadline.
Timed ==
    /\ clock.age <= phase_timeout(clock.phase)
    /\ Kind \in {"write", "head", "idle"} => waited = clock.age
    /\ Kind = "body" => waited = bodyAge
    /\ Kind = "body" \/ StreamsOverBody => bodyAge + clock.body_left = BodyTimeout

\* Dispatch has one deadline, and hyper has done nothing yet.
Before1 == stage \in {"tls", "peek"} =>
    clock.age = 0 /\ clock.phase = "Idle" /\ st = "wait" /\ waited + left = HeaderTimeout

\* What came of a deadline that ran out.
Lapsing ==
    /\ lapsed.due
    /\ Going => lapsed.kind = "none"
    /\ stage # "over" => fate = "none"
    /\ stage = "answer" =>
          /\ lapsed.kind \in {"head", "body"}
          /\ waited + left = WriteTimeout
    /\ lapsed.kind \in {"idle", "write"} => fate = "lapsed"
    /\ lapsed.kind \in {"head", "body"} /\ fate = "lapsed" =>
           wire # <<>> /\ wire[Len(wire)].what \in Errs

\* All of it, while the connection is dispatch's or hyper's.
Clockwork == Going => Phased /\ Bodied /\ Buffered /\ Watching /\ Timed /\ Before1
IInv == Typed /\ Clockwork /\ Lapsing

\* What is written and what is to be; the last of it, and whether each of it
\* may follow the one before.
Out == wire \o outq
Tip(s) == IF s = <<>> THEN [req |-> 0, what |-> "whole"] ELSE s[Len(s)]
Linked(s) ==
    \A i \in DOMAIN s :
        Follows(IF i = 1 THEN [req |-> 0, what |-> "whole"] ELSE s[i - 1], s[i])
\* Unit u ends the answer to request k; that to request k may begin behind it.
Final(u, k) == u.what \in Finals /\ u.req = k
Opened(u, k) == Final(u, k - 1) \/ (u.what \in Interims /\ u.req = k)

\* What the last unit is, by where hyper's future is.
Tips ==
    /\ st = "wait" => Final(Tip(Out), req)
    /\ st \in {"leaving", "handler"} => Opened(Tip(Out), req)
    /\ st = "respond" => Tip(Out).what \in {"head", "data"} /\ Tip(Out).req = req

\* What the watchdog may find buffered, and written, when it gives up.
Pending ==
    /\ st \in {"leaving", "handler"} /\ clock.phase # "Write" =>
          outq = <<>> \/ outq = <<[req |-> req, what |-> "100"]>>
    /\ st \in {"leaving", "handler"} /\ clock.phase # "Write" => Opened(Tip(wire), req)
    /\ st = "closing" /\ clock.phase = "Head" /\ ~clock.wrote_bytes => Final(Tip(wire), req)

\* The watchdog has given up, and the 408 fits behind what is written.
Answering ==
    /\ outq = <<>>
    /\ wd.phase \in {"Head", "Handler"}
    /\ wd.phase = "Head" => Final(Tip(wire), req)
    /\ wd.phase = "Handler" => Opened(Tip(wire), req)

\* Nothing but the close ends a response of HTTP/1.0 that streams.
Unframed ==
    st = "respond" /\ resp.encode = "stream" /\ input.reqs[req].version = "1.0" =>
        resp.then # "wait"

\* Inductive together with IInv where interim responses go out whole.
Chain ==
    /\ Linked(Out)
    /\ Going => Tips /\ Pending /\ Unframed
    /\ stage = "answer" => Answering

\* How many units hyper has consumed: behind them is what it holds, and then
\* what dispatch handed over.
Eaten == pos - Len(rbuf) - Len(buffered)

\* What has been read off the socket and not consumed is there, in order.
InOrder ==
    /\ pos \in 0..Len(input.stream)
    /\ rbuf \in Seq(Nat) /\ buffered \in Seq(Nat)
    /\ Eaten \in Nat
    /\ \A i \in 1..Len(rbuf) : rbuf[i] = Eaten + i
    /\ \A i \in 1..Len(buffered) : buffered[i] = Eaten + Len(rbuf) + i

\* What dispatch has done, and what follows from its verdict.
Verdicts ==
    /\ stage \in {"tls", "peek"} => req = 0 /\ rbuf = <<>> /\ buffered = <<>>
    /\ stage = "tls" => input.tls /\ pos = 0
    /\ stage = "peek" => ~input.tls /\ input.detect_h2c
    /\ Served /\ ~input.tls /\ input.detect_h2c /\ SpeaksPreface => eof
    /\ fate = "h2" => \/ input.tls /\ input.h2 /\ buffered = <<>> /\ pos = 0
                      \/ ~input.tls /\ input.detect_h2c /\ SpeaksPreface
                         /\ buffered = Units(1, pos) /\ pos = Len(Preface)

\* A request whose body is done with is consumed to its last unit and no
\* further, and only such a one is upgraded.
Consumed ==
    /\ Served /\ st = "respond" => resp.then # "upgrading"
    /\ Served /\ st = "upgrading" => req > 0 /\ FullyRead
    /\ Served /\ req > 0 /\ FullyRead => Eaten = RequestEnd(req)
    /\ fate = "upgraded" => Eaten = RequestEnd(req)

\* Inductive together with IInv.
Handed == InOrder /\ Verdicts /\ Consumed
-----------------------------------------------------------------------------
(* The clock's operators, field by field.                                  *)

\* bump starts the phase's time over, and tells the watchdog.
LEMMA BumpIs ==
    ASSUME NEW c \in Clocks
    PROVE  LET d == bump(c) IN
           /\ d \in Clocks /\ d.detached = c.detached /\ d.body_left = c.body_left
           /\ d.phase = c.phase
           /\ d.wrote_bytes = c.wrote_bytes /\ d.body_done = c.body_done
           /\ d.finished = c.finished /\ d.response_streams = c.response_streams
           /\ d.moved /\ d.notified /\ d.age = 0
BY DEF Clocks, bump

\* What set does to a clock nobody has detached.
LEMMA SetIs ==
    ASSUME NEW c \in Clocks, ~c.detached, NEW p \in Phases
    PROVE  LET d == set(c, p) IN
           /\ d \in Clocks /\ d.phase = p /\ d.age = 0 /\ ~d.detached
           /\ d.moved /\ d.notified
           /\ d.body_left = c.body_left
           /\ p \in {"Idle", "Handler"} => ~d.wrote_bytes /\ ~d.body_done
           /\ p \notin {"Idle", "Handler"} =>
                  d.wrote_bytes = c.wrote_bytes /\ d.body_done = c.body_done
           /\ p = "Handler" => ~d.finished /\ ~d.response_streams
           /\ p # "Handler" => d.finished = c.finished /\ d.response_streams = c.response_streams
<1> DEFINE fresh == IF p \in {"Idle", "Handler"}
                    THEN [c EXCEPT !.wrote_bytes = FALSE, !.body_done = FALSE] ELSE c
<1> DEFINE called == IF p = "Handler"
                     THEN [fresh EXCEPT !.finished = FALSE, !.flag = 1 - @,
                                        !.response_streams = FALSE] ELSE fresh
<1>1. /\ fresh \in Clocks /\ ~fresh.detached /\ fresh.body_left = c.body_left
      /\ p \in {"Idle", "Handler"} => ~fresh.wrote_bytes /\ ~fresh.body_done
      /\ p \notin {"Idle", "Handler"} =>
             fresh.wrote_bytes = c.wrote_bytes /\ fresh.body_done = c.body_done
      /\ fresh.finished = c.finished /\ fresh.response_streams = c.response_streams
  BY DEF Clocks
<1> HIDE DEF fresh
<1>2. /\ called \in Clocks /\ ~called.detached /\ called.body_left = fresh.body_left
      /\ called.wrote_bytes = fresh.wrote_bytes /\ called.body_done = fresh.body_done
      /\ p = "Handler" => ~called.finished /\ ~called.response_streams
      /\ p # "Handler" => /\ called.finished = fresh.finished
                          /\ called.response_streams = fresh.response_streams
  <2>1. CASE p = "Handler"
    <3>1. called = [fresh EXCEPT !.finished = FALSE, !.flag = 1 - @, !.response_streams = FALSE]
      BY <2>1
    <3>2. fresh.flag \in Int /\ 1 - fresh.flag \in Int
      BY <1>1 DEF Clocks
    <3> QED BY <1>1, <2>1, <3>1, <3>2 DEF Clocks
  <2>2. CASE p # "Handler"
    BY <1>1, <2>2
  <2> QED BY <2>1, <2>2
<1>3. set(c, p) = bump([called EXCEPT !.phase = p])
  BY DEF set, fresh
<1> HIDE DEF called
<1> DEFINE e == [called EXCEPT !.phase = p]
<1>4. /\ e \in Clocks /\ ~e.detached /\ e.body_left = called.body_left /\ e.phase = p
      /\ e.wrote_bytes = called.wrote_bytes /\ e.body_done = called.body_done
      /\ e.finished = called.finished /\ e.response_streams = called.response_streams
  BY <1>2 DEF Clocks
<1> HIDE DEF e
<1>5. set(c, p) = bump(e)
  BY <1>3 DEF e
<1> QED BY <1>1, <1>2, <1>4, <1>5, BumpIs

\* A read begins a head, or changes nothing.
LEMMA NoteReadIs ==
    ASSUME NEW c \in Clocks, ~c.detached, NEW units
    PROVE  LET d == note_read(c, units) IN
           IF c.phase = "Idle" /\ Begins(units) THEN d = set(c, "Head") ELSE d = c
BY DEF note_read

\* A write latches, and buys time only for a response.
LEMMA NoteWriteIs ==
    ASSUME NEW c \in Clocks, ~c.detached
    PROVE  LET d == note_write(c) IN
           /\ d \in Clocks /\ d.phase = c.phase /\ ~d.detached
           /\ d.body_left = c.body_left /\ d.body_done = c.body_done
           /\ d.finished = c.finished /\ d.response_streams = c.response_streams
           /\ d.wrote_bytes <=> c.wrote_bytes \/ c.phase \in {"Write", "Head"}
           /\ c.phase = "Write" => d.age = 0 /\ d.moved /\ d.notified
           /\ c.phase # "Write" => d.age = c.age /\ d.moved = c.moved /\ d.notified = c.notified
<1> DEFINE l == [c EXCEPT !.wrote_bytes = @ \/ c.phase \in {"Write", "Head"}]
<1>1. c.wrote_bytes \in BOOLEAN
  BY DEF Clocks
<1>2. /\ l \in Clocks /\ l.phase = c.phase /\ ~l.detached /\ l.age = c.age
      /\ l.body_left = c.body_left /\ l.body_done = c.body_done
      /\ l.finished = c.finished /\ l.response_streams = c.response_streams
      /\ l.moved = c.moved /\ l.notified = c.notified
      /\ l.wrote_bytes = (c.wrote_bytes \/ c.phase \in {"Write", "Head"})
  BY <1>1 DEF Clocks
<1>3. note_write(c) = IF c.phase = "Write" THEN bump(l) ELSE l
  BY DEF note_write
<1> HIDE DEF l
<1> QED BY <1>2, <1>3, BumpIs, ZenonT(60)

\* note_body_end sets its flag and no more.
LEMMA BodyEndIs ==
    ASSUME NEW c \in Clocks
    PROVE  LET d == note_body_end(c) IN
           /\ d \in Clocks /\ d.phase = c.phase /\ d.detached = c.detached /\ d.age = c.age
           /\ d.moved = c.moved /\ d.notified = c.notified /\ d.wrote_bytes = c.wrote_bytes
           /\ d.body_left = c.body_left /\ d.body_done
           /\ d.finished = c.finished /\ d.response_streams = c.response_streams
BY DEF note_body_end, Clocks

\* The end of the request's body, as the clock is told of it.
LEMMA FinishedIs ==
    ASSUME NEW c \in Clocks
    PROVE  LET d == Finished(c) IN
           /\ d \in Clocks /\ d.phase = c.phase /\ d.detached = c.detached /\ d.age = c.age
           /\ d.moved = c.moved /\ d.notified /\ d.wrote_bytes = c.wrote_bytes
           /\ d.body_left = c.body_left /\ d.body_done = c.body_done
           /\ d.finished /\ d.response_streams = c.response_streams
BY DEF Finished, note_request_body_finished, Clocks

\* set_response_streams sets its flag and no more.
LEMMA StreamsIs ==
    ASSUME NEW c \in Clocks, NEW b \in BOOLEAN
    PROVE  LET d == set_response_streams(c, b) IN
           /\ d \in Clocks /\ d.phase = c.phase /\ d.detached = c.detached /\ d.age = c.age
           /\ d.moved = c.moved /\ d.notified = c.notified /\ d.wrote_bytes = c.wrote_bytes
           /\ d.body_left = c.body_left /\ d.body_done = c.body_done
           /\ d.finished = c.finished /\ d.response_streams = b
BY DEF set_response_streams, Clocks

\* set_body_deadline starts the body's time and no more.
LEMMA BodyDeadlineIs ==
    ASSUME NEW c \in Clocks
    PROVE  LET d == set_body_deadline(c) IN
           /\ d \in Clocks /\ d.phase = c.phase /\ d.detached = c.detached /\ d.age = c.age
           /\ d.moved = c.moved /\ d.notified = c.notified /\ d.wrote_bytes = c.wrote_bytes
           /\ d.body_left = BodyTimeout /\ d.body_done = c.body_done
           /\ d.finished = c.finished /\ d.response_streams = c.response_streams
BY TimeoutsAssumption DEF set_body_deadline, Clocks

\* The timeout of each phase.
LEMMA PhaseTimeouts ==
    /\ phase_timeout("Idle") = IdleTimeout /\ phase_timeout("Head") = HeaderTimeout
    /\ phase_timeout("Handler") = BodyTimeout /\ phase_timeout("Write") = WriteTimeout
    /\ \A p \in Phases : phase_timeout(p) \in Nat /\ phase_timeout(p) > 0
<1>1. /\ phase_timeout("Idle") = IdleTimeout /\ phase_timeout("Head") = HeaderTimeout
      /\ phase_timeout("Handler") = BodyTimeout /\ phase_timeout("Write") = WriteTimeout
  BY DEF phase_timeout
<1> QED BY <1>1, TimeoutsAssumption DEF Phases

\* The bound of each wait.
LEMMA Bounds ==
    /\ Bound("dispatch") = HeaderTimeout /\ Bound("answer") = WriteTimeout
    /\ Bound("write") = WriteTimeout /\ Bound("body") = BodyTimeout
    /\ Bound("head") = HeaderTimeout /\ Bound("idle") = IdleTimeout
BY DEF Bound

\* What the watchdog arms, of the clock's fields.
LEMMA ArmIs ==
    ASSUME NEW c \in Clocks, c.age <= phase_timeout(c.phase)
    PROVE  /\ Remaining(c) = phase_timeout(c.phase) - c.age /\ Remaining(c) \in Nat
           /\ ArmFor(c) \in Nat
           /\ c.phase \in {"Idle", "Head"} => ArmFor(c) = Remaining(c)
           /\ c.phase = "Handler" /\ ~c.finished /\ c.body_left # None => ArmFor(c) = c.body_left
           /\ c.phase = "Write" =>
                 IF c.response_streams /\ ~c.finished /\ c.body_left # None
                 THEN ArmFor(c) = Least(Remaining(c), c.body_left)
                 ELSE ArmFor(c) = Remaining(c)
<1>1. phase_timeout(c.phase) \in Nat /\ c.age \in Nat
  BY PhaseTimeouts DEF Clocks
<1>2. Remaining(c) = phase_timeout(c.phase) - c.age /\ Remaining(c) \in Nat
  BY <1>1 DEF Remaining, AtLeast0
<1>3. BodyAt(c) = IF c.finished THEN None ELSE c.body_left
  BY DEF BodyAt
<1>4. c.body_left # None => c.body_left \in Nat
  BY DEF Clocks
<1> QED BY <1>2, <1>3, <1>4 DEF ArmFor, Least

\* The deadline armed depends on these fields alone.
LEMMA ArmSame ==
    ASSUME NEW c, NEW d, c.phase = d.phase, c.age = d.age, c.finished = d.finished,
           c.body_left = d.body_left, c.response_streams = d.response_streams
    PROVE  ArmFor(c) = ArmFor(d) /\ BodyAt(c) = BodyAt(d)
BY DEF ArmFor, BodyAt, Remaining

\* A unit of time, and what it takes off the deadline armed.
LEMMA AgedIs ==
    ASSUME NEW c \in Clocks, c.age <= phase_timeout(c.phase)
    PROVE  LET d == Aged(c) IN
           /\ d \in Clocks /\ d.phase = c.phase /\ d.detached = c.detached
           /\ d.moved = c.moved /\ d.notified = c.notified /\ d.wrote_bytes = c.wrote_bytes
           /\ d.body_done = c.body_done /\ d.finished = c.finished
           /\ d.response_streams = c.response_streams
           /\ d.age <= phase_timeout(d.phase)
           /\ c.age < phase_timeout(c.phase) => d.age = c.age + 1
           /\ c.body_left = None <=> d.body_left = None
           /\ c.body_left # None /\ c.body_left > 0 => d.body_left = c.body_left - 1
           /\ ArmFor(c) > 0 => ArmFor(d) = ArmFor(c) - 1
<1> DEFINE a == Least(c.age + 1, phase_timeout(c.phase))
<1> DEFINE b == IF c.body_left = None THEN None ELSE AtLeast0(c.body_left - 1)
<1> DEFINE d == Aged(c)
<1>1. phase_timeout(c.phase) \in Nat /\ c.age \in Nat /\ c.body_left \in Nat \cup {None}
  BY PhaseTimeouts DEF Clocks
<1>2. /\ a \in Nat /\ a <= phase_timeout(c.phase)
      /\ c.age < phase_timeout(c.phase) => a = c.age + 1
  BY <1>1 DEF Least
<1>3. /\ b \in Nat \cup {None} /\ (c.body_left = None <=> b = None)
      /\ c.body_left # None /\ c.body_left > 0 => b = c.body_left - 1
  BY <1>1 DEF AtLeast0, None
<1>4. d = [c EXCEPT !.age = a, !.body_left = b]
  BY DEF Aged
<1> HIDE DEF a, b, d
<1>5. /\ d \in Clocks /\ d.phase = c.phase /\ d.detached = c.detached
      /\ d.moved = c.moved /\ d.notified = c.notified /\ d.wrote_bytes = c.wrote_bytes
      /\ d.body_done = c.body_done /\ d.finished = c.finished
      /\ d.response_streams = c.response_streams /\ d.age = a /\ d.body_left = b
  BY <1>2, <1>3, <1>4 DEF Clocks
<1>6. ASSUME ArmFor(c) > 0 PROVE ArmFor(d) = ArmFor(c) - 1
  <2>1. /\ Remaining(c) = phase_timeout(c.phase) - c.age
        /\ Remaining(d) = phase_timeout(c.phase) - a
    BY <1>1, <1>2, <1>5, ArmIs
  <2>2. BodyAt(c) = (IF c.finished THEN None ELSE c.body_left)
        /\ BodyAt(d) = (IF c.finished THEN None ELSE b)
    BY <1>5 DEF BodyAt
  <2>3. /\ BodyAt(c) \in Nat \cup {None} /\ (BodyAt(c) = None <=> BodyAt(d) = None)
        /\ BodyAt(c) # None /\ BodyAt(c) > 0 => BodyAt(d) = BodyAt(c) - 1
    BY <1>1, <1>3, <2>2
  <2>4. Remaining(c) > 0 => Remaining(d) = Remaining(c) - 1
    BY <1>1, <1>2, <2>1
  <2>5. Remaining(c) \in Nat
    BY <1>1, ArmIs
  <2>6. BodyAt(c) # None => BodyAt(c) \in Nat
    BY <2>3
  <2> QED BY <1>5, <1>6, <2>3, <2>4, <2>5, <2>6 DEF ArmFor, Least
<1> QED BY <1>2, <1>3, <1>5, <1>6 DEF d

\* Kind, of the state it is told from.
KindOf(sg, ow, s, pending, bg) ==
    CASE sg = "over" -> "nothing"
      [] sg \in {"tls", "peek"} -> "dispatch"
      [] sg = "answer" -> "answer"
      [] sg = "serve" /\ ow -> "write"
      [] sg = "serve" /\ ~ow /\ s = "leaving" -> "handler"
      [] sg = "serve" /\ ~ow /\ s = "handler" -> IF pending THEN "body" ELSE "handler"
      [] sg = "serve" /\ ~ow /\ s \notin {"leaving", "handler"} -> IF bg THEN "head" ELSE "idle"

\* What is waited for depends on this much of the state,
LEMMA KindIs == Kind = KindOf(stage, owing, st, BodyPending, begun)
BY DEF Kind, KindOf, Served

\* before a step and after it.
LEMMA KindIs2 == Kind' = KindOf(stage', owing', st', BodyPending', begun')
BY DEF Kind, KindOf, Served

\* The values of Kind.
LEMMA KindValue ==
    ASSUME NEW sg, NEW ow \in BOOLEAN, NEW s, NEW pending \in BOOLEAN, NEW bg \in BOOLEAN
    PROVE  LET k == KindOf(sg, ow, s, pending, bg) IN
           /\ sg = "over" => k = "nothing"
           /\ sg \in {"tls", "peek"} => k = "dispatch"
           /\ sg = "answer" => k = "answer"
           /\ sg = "serve" /\ ow => k = "write"
           /\ sg = "serve" /\ ~ow /\ s = "leaving" => k = "handler"
           /\ sg = "serve" /\ ~ow /\ s = "handler" /\ pending => k = "body"
           /\ sg = "serve" /\ ~ow /\ s = "handler" /\ ~pending => k = "handler"
           /\ sg = "serve" /\ ~ow /\ s \notin {"leaving", "handler"} /\ bg => k = "head"
           /\ sg = "serve" /\ ~ow /\ s \notin {"leaving", "handler"} /\ ~bg => k = "idle"
BY DEF KindOf
-----------------------------------------------------------------------------
(* Steps.                                                                  *)

Clocking == waited' = IF Kind' = Kind /\ (Kind # "write" \/ wire' = wire) THEN waited ELSE 0

\* The invariant, in parts, while hyper has the connection.
LEMMA Here ==
    ASSUME IInv, Served
    PROVE  /\ Typed /\ Phased /\ Bodied /\ Buffered /\ Watching /\ Timed /\ Lapsing
           /\ clock \in Clocks /\ ~clock.detached /\ clock.phase \in Phases
           /\ lapsed.kind = "none" /\ lapsed.due /\ fate = "none"
BY DEF IInv, Clockwork, Going, Served, Typed, Phased, Clocks, Lapsing

\* What is waited for, and for how long.
LEMMA HereKind ==
    ASSUME IInv, Served
    PROVE  /\ clock.phase = "Write" => Kind = "write"
           /\ clock.phase # "Write" /\ st = "leaving" => Kind = "handler"
           /\ clock.phase = "Handler" => Kind = IF BodyPending THEN "body" ELSE "handler"
           /\ clock.phase = "Idle" /\ st # "leaving" => Kind = "idle"
           /\ clock.phase = "Head" /\ st # "leaving" => Kind = "head"
<1>1. BodyPending \in BOOLEAN /\ owing \in BOOLEAN /\ begun \in BOOLEAN
  BY Here DEF Typed, BodyPending
<1>2. Phased /\ stage = "serve" /\ clock.phase \in Phases /\ Typed
  BY Here DEF Served
<1>3. st \in {"wait", "leaving", "handler", "respond", "closing", "upgrading"}
  BY <1>2 DEF Typed
<1> QED BY <1>1, <1>2, <1>3, KindIs, KindValue DEF Phased, Phases

\* A step after which the watchdog waits as it did.
LEMMA StillWatching ==
    ASSUME Watching, wd' = wd, clock'.phase = clock.phase, clock'.age = clock.age,
           clock'.finished = clock.finished, clock'.body_left = clock.body_left,
           clock'.response_streams = clock.response_streams,
           clock'.moved = clock.moved, clock'.notified = clock.notified
    PROVE  Watching'
<1>1. ArmFor(clock') = ArmFor(clock) /\ BodyAt(clock') = BodyAt(clock)
  BY ArmSame
<1> QED BY <1>1 DEF Watching

\* A step that ends the connection, and not by the watchdog.
LEMMA LeavingStep ==
    ASSUME IInv, Going, Typed', stage' = "over", lapsed' = lapsed
    PROVE  IInv'
<1>1. lapsed.kind = "none" /\ lapsed.due
  BY DEF IInv, Lapsing
<1> QED BY <1>1 DEF IInv, Clockwork, Going, Lapsing

\* A step that does not: its parts.
LEMMA GoingStep ==
    ASSUME IInv, Served, stage' = stage, fate' = fate, lapsed' = lapsed,
           Typed', Phased', Bodied', Buffered', Watching', Timed'
    PROVE  IInv'
<1>1. lapsed.kind = "none" /\ lapsed.due /\ fate = "none"
  BY Here
<1> QED BY <1>1 DEF IInv, Clockwork, Lapsing, Served, Before1

\* How long was waited, after a step that leaves hyper the connection.
LEMMA TimedStep ==
    ASSUME Timed, Clocking,
           clock'.age <= phase_timeout(clock'.phase),
           Kind' \in {"write", "head", "idle"} =>
              \/ Kind' = Kind /\ clock'.age = clock.age /\ (Kind # "write" \/ wire' = wire)
              \/ clock'.age = 0 /\ (Kind' # Kind \/ (Kind = "write" /\ wire' # wire)),
           Kind' = "body" =>
              \/ Kind = "body" /\ bodyAge' = bodyAge /\ clock'.body_left = clock.body_left
              \/ Kind # "body" /\ bodyAge' = 0 /\ clock'.body_left = BodyTimeout,
           StreamsOverBody' =>
              /\ Kind = "body" \/ StreamsOverBody
              /\ bodyAge' = bodyAge /\ clock'.body_left = clock.body_left
    PROVE  Timed'
<1>1. BodyTimeout \in Nat
  BY TimeoutsAssumption
<1> QED BY <1>1 DEF Timed, Clocking

\* What is waited for after a step, by the clock's phase.
LEMMA NextKind ==
    ASSUME Typed', Phased', Served'
    PROVE  /\ clock'.phase = "Write" => Kind' = "write"
           /\ clock'.phase # "Write" /\ st' = "leaving" => Kind' = "handler"
           /\ clock'.phase = "Handler" => Kind' = IF BodyPending' THEN "body" ELSE "handler"
           /\ clock'.phase = "Idle" /\ st' # "leaving" => Kind' = "idle"
           /\ clock'.phase = "Head" /\ st' # "leaving" => Kind' = "head"
           /\ StreamsOverBody' => clock'.phase = "Write" /\ st' # "leaving" /\ resp'.streams
                                  /\ BodyPending'
<1>1. BodyPending' \in BOOLEAN /\ owing' \in BOOLEAN /\ begun' \in BOOLEAN
  BY DEF Typed, BodyPending
<1>2. stage' = "serve" /\ clock'.phase \in Phases
  BY DEF Served, Typed, Clocks
<1>3. st' \in {"wait", "leaving", "handler", "respond", "closing", "upgrading"}
  BY DEF Typed
<1> QED BY <1>1, <1>2, <1>3, KindIs2, KindValue DEF Phased, Phases, StreamsOverBody, Served

\* hyper reads: a first byte of a head ends the idle phase.
LEMMA ReadStep ==
    ASSUME IInv, NEW n \in 1..Len(input.stream), Read(n), Clocking
    PROVE  IInv'
<1> DEFINE units == IF SocketIsNext THEN Units(pos + 1, pos + n) ELSE SubSeq(buffered, 1, n)
<1>1. /\ Served /\ stage' = stage /\ fate' = fate /\ lapsed' = lapsed /\ input' = input
      /\ st \in {"wait", "leaving", "handler", "respond"}
      /\ left' = left /\ wd' = wd /\ st' = st /\ req' = req /\ body' = body /\ resp' = resp
      /\ outq' = outq /\ wire' = wire /\ owing' = owing /\ bodyAge' = bodyAge
      /\ clock' = note_read(clock, units)
      /\ begun' = (begun \/ (st = "wait" /\ ~owing /\ Begins(units)))
  BY DEF Read
<1> DEFINE bg == Begins(units)
<1>2. bg \in BOOLEAN
  BY DEF Begins
<1>3. IF clock.phase = "Idle" /\ bg THEN clock' = set(clock, "Head") ELSE clock' = clock
  BY <1>1, NoteReadIs, Here
<1>4. begun' = (begun \/ (st = "wait" /\ ~owing /\ bg))
  BY <1>1
<1> HIDE DEF bg, units
<1>5. waited' \in Nat
  BY <1>1, Here DEF Clocking, Typed
<1>6. \A k : Empty(k)' = Empty(k)
  BY <1>1 DEF Empty, Positions
<1>7. CASE clock.phase = "Idle" /\ bg
  <2>1. /\ clock' \in Clocks /\ clock'.phase = "Head" /\ clock'.age = 0 /\ ~clock'.detached
        /\ clock'.moved /\ clock'.notified /\ clock'.body_left = clock.body_left
        /\ clock'.wrote_bytes = clock.wrote_bytes /\ clock'.body_done = clock.body_done
        /\ clock'.finished = clock.finished
        /\ clock'.response_streams = clock.response_streams
    BY <1>1, <1>3, <1>7, SetIs, Here DEF Phases
  <2>2. Typed'
    BY <1>1, <1>4, <1>5, <2>1, Here DEF Typed
  <2>3. Phased'
    BY <1>1, <1>2, <1>4, <1>7, <2>1, Here DEF Phased, Typed
  <2>4. Bodied'
    BY <1>1, <1>6, <1>7, <2>1, Here DEF Bodied, FullyRead, BodyPending
  <2>5. Buffered'
    BY <1>1, <1>7, <2>1, Here DEF Buffered, Phased
  <2>6. Watching'
    BY <2>1 DEF Watching
  <2>7. Timed'
    BY <1>1, <1>7, <2>1, <2>2, <2>3, Here, HereKind, NextKind, TimedStep, PhaseTimeouts
    DEF Served, Phased, Phases
  <2> QED BY <1>1, <2>2, <2>3, <2>4, <2>5, <2>6, <2>7, GoingStep
<1>8. CASE ~(clock.phase = "Idle" /\ bg)
  <2>1. clock' = clock
    BY <1>3, <1>8
  <2>2. Typed'
    BY <1>1, <1>4, <1>5, <2>1, Here DEF Typed
  <2>3. Phased'
    BY <1>1, <1>2, <1>4, <1>8, <2>1, Here DEF Phased, Typed, Phases
  <2>4. Bodied'
    BY <1>1, <1>6, <2>1, Here DEF Bodied, FullyRead, BodyPending
  <2>5. Buffered'
    BY <1>1, <2>1, Here DEF Buffered
  <2>6. Watching'
    BY <1>1, <2>1, Here, StillWatching
  <2>7. Timed'
    BY <1>1, <2>1, <2>2, <2>3, Here, HereKind, NextKind, TimedStep
    DEF Served, Phased, Phases, Timed, StreamsOverBody, BodyPending
  <2> QED BY <1>1, <2>2, <2>3, <2>4, <2>5, <2>6, <2>7, GoingStep
<1> QED BY <1>7, <1>8

\* A wait goes on or starts over.
LEMMA WaitedTyped ==
    ASSUME Typed, Clocking
    PROVE  waited' \in Nat
BY DEF Typed, Clocking

\* What the transport takes of the buffered units, and what is left.
Taken(o, w, k) == w \o SubSeq(o, 1, k)
Rest(o, k) == SubSeq(o, k + 1, Len(o))

SentOf(o, w, k, v, r) ==
    /\ v \in Seq(OutUnits) /\ r \in Seq(OutUnits)
    /\ Len(v) = Len(w) + k /\ v # w /\ v # <<>> /\ v[Len(v)] = o[k]
    /\ Len(r) = Len(o) - k
    /\ \A i \in 1..Len(r) : r[i] = o[k + i]
    /\ \A i \in 1..Len(w) : v[i] = w[i]
    /\ \A i \in 1..k : v[Len(w) + i] = o[i]

\* The units that go out are the first k, in order.
LEMMA Sent ==
    ASSUME NEW o \in Seq(OutUnits), NEW w \in Seq(OutUnits), NEW k \in 1..Len(o),
           NEW v, v = Taken(o, w, k), NEW r, r = Rest(o, k)
    PROVE  SentOf(o, w, k, v, r)
<1> DEFINE f == SubSeq(o, 1, k)
<1>0. v = w \o f /\ r = SubSeq(o, k + 1, Len(o))
  BY DEF Taken, Rest
<1>1. Len(o) \in Nat /\ k \in Nat /\ 1 <= k /\ k <= Len(o) /\ Len(w) \in Nat
  OBVIOUS
<1>2. f \in Seq(OutUnits) /\ Len(f) = k /\ \A i \in 1..k : f[i] = o[i]
  BY <1>1, SubSeqProperties
<1>3. /\ r \in Seq(OutUnits) /\ Len(r) = Len(o) - k
      /\ \A i \in 1..Len(r) : r[i] = o[k + i]
  <2>1. r \in Seq(OutUnits) /\ Len(r) = IF k + 1 <= Len(o) THEN Len(o) - (k + 1) + 1 ELSE 0
    BY <1>0, <1>1, SubSeqProperties
  <2>2. Len(r) = Len(o) - k
    BY <1>1, <2>1
  <2>3. \A i \in 1..Len(r) : r[i] = o[(k + 1) + i - 1]
    BY <1>0, <1>1, <2>1, <2>2, SubSeqProperties
  <2>4. \A i \in 1..Len(r) : (k + 1) + i - 1 = k + i
    BY <1>1, <2>2
  <2> QED BY <2>1, <2>2, <2>3, <2>4
<1> HIDE DEF f
<1>4. /\ v \in Seq(OutUnits) /\ Len(v) = Len(w) + k
      /\ \A i \in 1..Len(w) : v[i] = w[i]
      /\ \A i \in 1..k : v[Len(w) + i] = f[i]
  <2> DEFINE u == w \o f
  <2>1. /\ u \in Seq(OutUnits) /\ Len(u) = Len(w) + k
        /\ \A i \in 1..Len(w) : u[i] = w[i]
        /\ \A i \in 1..k : u[Len(w) + i] = f[i]
    BY <1>1, <1>2
  <2>2. v = u
    BY <1>0
  <2> HIDE DEF u
  <2> QED BY <2>1, <2>2, Zenon
<1>5. v # w /\ v # <<>>
  <2>1. Len(v) # Len(w) /\ Len(v) # 0
    BY <1>1, <1>4
  <2> QED BY <2>1
<1>6. \A i \in 1..k : v[Len(w) + i] = o[i]
  BY <1>2, <1>4, Zenon
<1>7. v[Len(v)] = o[k]
  <2>1. k \in 1..k
    BY <1>1
  <2> QED BY <1>4, <1>6, <2>1, Zenon
<1> QED BY <1>3, <1>4, <1>5, <1>6, <1>7, Zenon DEF SentOf

\* A flush ends a response that is encoded to its end.
LEMMA FlushIs ==
    ASSUME NEW c \in Clocks, ~c.detached
    PROVE  LET d == note_flush(c) IN
           IF c.phase = "Write" /\ c.body_done THEN d = set(c, "Idle") ELSE d = c
BY DEF note_flush

\* The steps that end the connection before hyper or the watchdog does.
LEMMA LeaveSteps ==
    ASSUME IInv, Clocking, IoFails \/ StreamFails
    PROVE  IInv'
<1>1. Served /\ stage' = "over" /\ lapsed' = lapsed
  BY DEF IoFails, StreamFails, Leave
<1>2. clock' \in Clocks
  BY <1>1, Here, BodyEndIs DEF IoFails, StreamFails, hyperVars
<1>3. Typed'
  BY <1>1, <1>2, Here, WaitedTyped DEF IoFails, StreamFails, hyperVars, Typed
<1> QED BY <1>1, <1>3, LeavingStep DEF Going, Served

\* The peer has closed its side.
LEMMA ReadEofStep ==
    ASSUME IInv, Clocking, ReadEof
    PROVE  IInv'
<1>1. /\ Served /\ lapsed' = lapsed /\ input' = input /\ clock' = clock /\ wd' = wd
      /\ left' = left /\ req' = req /\ body' = body /\ resp' = resp
      /\ outq' = outq /\ wire' = wire /\ owing' = owing /\ begun' = begun /\ bodyAge' = bodyAge
  BY DEF ReadEof
<1>2. waited' \in Nat
  BY <1>1, Here, WaitedTyped
<1>3. \A k : Empty(k)' = Empty(k)
  BY <1>1 DEF Empty, Positions
<1>4. CASE stage' = "over" /\ st' = st
  <2>1. Typed'
    BY <1>1, <1>2, <1>4, Here DEF Typed
  <2> QED BY <1>1, <1>4, <2>1, LeavingStep DEF Going, Served
<1>5. CASE stage' = stage /\ fate' = fate /\ (st' = st \/ (st = "wait" /\ st' = "closing"))
  <2>2. Typed'
    BY <1>1, <1>2, <1>5, Here DEF Typed
  <2>3. Phased'
    BY <1>1, <1>5, Here DEF Phased
  <2>4. Bodied'
    BY <1>1, <1>3, <1>5, Here DEF Bodied, FullyRead, BodyPending
  <2>5. Buffered'
    BY <1>1, <1>5, Here DEF Buffered
  <2>6. Watching'
    BY <1>1, Here, StillWatching
  <2>7. Timed'
    BY <1>1, <1>5, <2>2, <2>3, Here, HereKind, NextKind, TimedStep
    DEF Served, Phased, Phases, Timed, StreamsOverBody, BodyPending
  <2> QED BY <1>1, <1>5, <2>2, <2>3, <2>4, <2>5, <2>6, <2>7, GoingStep
<1> QED BY <1>4, <1>5 DEF ReadEof, Leave

\* The transport takes the first k units.
LEMMA WriteStep ==
    ASSUME IInv, Clocking, NEW k \in 1..Len(outq), Write(k)
    PROVE  IInv'
<1>1. /\ Served /\ lapsed' = lapsed /\ input' = input /\ stage' = stage /\ fate' = fate
      /\ wd' = wd /\ left' = left /\ st' = st /\ req' = req /\ body' = body /\ resp' = resp
      /\ owing' = owing /\ begun' = begun /\ bodyAge' = bodyAge
      /\ wire' = Taken(outq, wire, k) /\ outq' = Rest(outq, k)
      /\ clock' = note_write(clock)
  BY DEF Write, dispatchVars, Taken, Rest
<1>2. waited' \in Nat
  BY <1>1, Here, WaitedTyped
<1>3. \A j : Empty(j)' = Empty(j)
  BY <1>1 DEF Empty, Positions
<1>4. /\ clock' \in Clocks /\ clock'.phase = clock.phase /\ ~clock'.detached
      /\ clock'.body_left = clock.body_left /\ clock'.body_done = clock.body_done
      /\ clock'.finished = clock.finished /\ clock'.response_streams = clock.response_streams
      /\ clock'.wrote_bytes <=> clock.wrote_bytes \/ clock.phase \in {"Write", "Head"}
      /\ clock.phase = "Write" => clock'.age = 0 /\ clock'.moved /\ clock'.notified
      /\ clock.phase # "Write" => /\ clock'.age = clock.age /\ clock'.moved = clock.moved
                                  /\ clock'.notified = clock.notified
  BY <1>1, Here, NoteWriteIs
<1>5. outq \in Seq(OutUnits) /\ wire \in Seq(OutUnits)
  BY <1>1, Here DEF Typed
<1>6. /\ wire' \in Seq(OutUnits) /\ outq' \in Seq(OutUnits)
      /\ wire' # wire /\ wire' # <<>> /\ wire'[Len(wire')] = outq[k]
      /\ Len(outq') = Len(outq) - k
      /\ \A i \in 1..Len(outq') : outq'[i] = outq[k + i]
  <2>1. SentOf(outq, wire, k, wire', outq')
    BY <1>1, <1>5, Sent
  <2> QED BY <2>1 DEF SentOf
<1>7. k \in 1..Len(outq) /\ outq # <<>> /\ Len(outq) \in Nat
  BY <1>5
<1>8. Typed'
  BY <1>1, <1>2, <1>4, <1>6, Here DEF Typed
<1>9. Phased'
  BY <1>1, <1>4, Here DEF Phased
<1>10. Bodied'
  BY <1>1, <1>3, <1>4, Here DEF Bodied, FullyRead, BodyPending
<1>11. Buffered'
  <2>1. ASSUME st' = "closing", clock'.phase # "Write", NEW i \in DOMAIN outq'
        PROVE  outq'[i].what \in Errs
    <3>1. i \in 1..Len(outq') /\ k + i \in DOMAIN outq
      BY <1>6, <1>7
    <3>2. \A j \in DOMAIN outq : outq[j].what \in Errs
      BY <1>1, <1>4, <2>1, Here DEF Buffered
    <3> QED BY <1>6, <3>1, <3>2
  <2>2. ASSUME clock'.phase = "Head", st' # "leaving"
        PROVE  wire'[Len(wire')].what \in Errs
    <3>1. st = "closing"
      BY <1>1, <1>4, <1>7, <2>2, Here DEF Buffered, Phased, Typed
    <3> QED BY <1>1, <1>4, <1>5, <1>6, <1>7, <2>2, <3>1, Here, SMTT(30) DEF Buffered
  <2>3. st' = "wait" /\ clock'.phase # "Write" => outq' = <<>>
    BY <1>1, <1>4, <1>7, Here DEF Buffered
  <2> QED BY <1>1, <1>4, <1>6, <2>1, <2>2, <2>3, Here DEF Buffered
<1>12. Watching'
  <2>1. CASE clock.phase = "Write"
    BY <1>4, <2>1 DEF Watching
  <2>2. CASE clock.phase # "Write"
    BY <1>1, <1>4, <2>2, Here, StillWatching
  <2> QED BY <2>1, <2>2
<1>13. Timed'
  BY <1>1, <1>4, <1>6, <1>8, <1>9, Here, HereKind, NextKind, TimedStep, PhaseTimeouts
  DEF Served, Phased, Phases, Timed, StreamsOverBody, BodyPending
<1> QED BY <1>1, <1>8, <1>9, <1>10, <1>11, <1>12, <1>13, GoingStep

\* All that was buffered is out: a response that is over leaves Write.
LEMMA FlushStep ==
    ASSUME IInv, Clocking, Flush
    PROVE  IInv'
<1>1. /\ Served /\ outq = <<>> /\ lapsed' = lapsed /\ input' = input
      /\ wd' = wd /\ left' = left /\ st' = st /\ req' = req /\ body' = body /\ resp' = resp
      /\ outq' = outq /\ wire' = wire /\ begun' = begun /\ bodyAge' = bodyAge
      /\ owing' = (owing /\ st = "respond")
  BY DEF Flush
<1>2. waited' \in Nat
  BY <1>1, Here, WaitedTyped
<1>3. \A j : Empty(j)' = Empty(j)
  BY <1>1 DEF Empty, Positions
<1>4. note_flush(clock) =
          IF clock.phase = "Write" /\ clock.body_done THEN set(clock, "Idle") ELSE clock
  BY <1>1, Here, FlushIs
<1>5. set(clock, "Idle") \in Clocks
  BY <1>1, Here, SetIs DEF Phases
<1>6. CASE st \in {"closing", "upgrading"}
  <2>1. stage' = "over"
    BY <1>6 DEF Flush, Leave
  <2>2. note_flush(clock) \in Clocks
    BY <1>1, <1>4, <1>5, Here
  <2>3. clock' \in Clocks
    <3>1. clock' = note_flush(clock) \/ clock' = detach(note_flush(clock))
      BY DEF Flush
    <3>2. \A c \in Clocks : detach(c) \in Clocks
      BY DEF detach, Clocks
    <3> QED BY <2>2, <3>1, <3>2
  <2>4. Typed'
    BY <1>1, <1>2, <2>1, <2>3, Here DEF Typed
  <2> QED BY <1>1, <2>1, <2>4, LeavingStep DEF Going, Served
<1>7. CASE st \notin {"closing", "upgrading"}
  <2>1. stage' = stage /\ fate' = fate /\ clock' = note_flush(clock)
    BY <1>7 DEF Flush
  <2>2. CASE clock.phase = "Write" /\ clock.body_done
    <3>1. /\ clock' \in Clocks /\ clock'.phase = "Idle" /\ clock'.age = 0 /\ ~clock'.detached
          /\ clock'.moved /\ clock'.notified /\ clock'.body_left = clock.body_left
          /\ ~clock'.wrote_bytes
      BY <1>1, <1>4, <2>1, <2>2, SetIs, Here DEF Phases
    <3>2. Typed'
      BY <1>1, <1>2, <2>1, <3>1, Here DEF Typed
    <3>3. st # "respond"
      BY <1>1, <2>2, Here DEF Phased
    <3>4. Phased'
      BY <1>1, <1>7, <2>2, <3>1, <3>3, Here DEF Phased, Typed
    <3>5. Bodied'
      BY <1>1, <1>3, <2>2, <3>1, <3>3, Here DEF Bodied, FullyRead, BodyPending
    <3>6. Buffered'
      BY <1>1, <1>7, <3>1, Here DEF Buffered
    <3>7. Watching'
      BY <3>1 DEF Watching
    <3>8. Timed'
      BY <1>1, <1>7, <2>1, <2>2, <3>1, <3>2, <3>4, Here, HereKind, NextKind, TimedStep,
         PhaseTimeouts
      DEF Served, Phased, Phases
    <3> QED BY <1>1, <2>1, <3>2, <3>4, <3>5, <3>6, <3>7, <3>8, GoingStep
  <2>3. CASE ~(clock.phase = "Write" /\ clock.body_done)
    <3>1. clock' = clock
      BY <1>4, <2>1, <2>3
    <3>2. owing' = owing
      BY <1>1, <2>3, Here DEF Phased, Typed
    <3>3. Typed'
      BY <1>1, <1>2, <2>1, <3>1, Here DEF Typed
    <3>4. Phased'
      BY <1>1, <3>1, <3>2, Here DEF Phased
    <3>5. Bodied'
      BY <1>1, <1>3, <3>1, Here DEF Bodied, FullyRead, BodyPending
    <3>6. Buffered'
      BY <1>1, <3>1, Here DEF Buffered
    <3>7. Watching'
      BY <1>1, <3>1, Here, StillWatching
    <3>8. Timed'
      BY <1>1, <2>1, <3>1, <3>2, <3>3, <3>4, Here, HereKind, NextKind, TimedStep
      DEF Served, Phased, Phases, Timed, StreamsOverBody, BodyPending
    <3> QED BY <1>1, <2>1, <3>3, <3>4, <3>5, <3>6, <3>7, <3>8, GoingStep
  <2> QED BY <2>2, <2>3
<1> QED BY <1>6, <1>7

\* The handler's window opens for request k, or closes at once.
LEMMA EnterStep ==
    ASSUME IInv, Clocking, NEW k \in DOMAIN input.reqs, Enter(k), Served,
           st \in {"wait", "leaving"}, clock.phase # "Write", dispatchVars' = dispatchVars,
           wd' = wd, lapsed' = lapsed,
           req' = k, begun' = FALSE, wire' = wire, body' = IF Empty(k) THEN "none" ELSE "open"
    PROVE  IInv'
<1> DEFINE c == set_body_deadline(set(clock, "Handler"))
<1>1. /\ input' = input /\ stage' = stage /\ left' = left /\ fate' = fate
      /\ bodyAge' = 0
  BY DEF dispatchVars, Enter
<1>2. waited' \in Nat
  BY Here, WaitedTyped
<1>3. \A j : Empty(j)' = Empty(j)
  BY <1>1 DEF Empty, Positions
<1>4. /\ c \in Clocks /\ c.phase = "Handler" /\ c.age = 0 /\ ~c.detached
      /\ c.moved /\ c.notified /\ c.body_left = BodyTimeout /\ ~c.finished
      /\ ~c.wrote_bytes /\ ~c.body_done /\ ~c.response_streams
  BY Here, SetIs, BodyDeadlineIs DEF Phases
<1>5. k \in 0..Len(input.reqs) /\ input \in Inputs
  <2>1. input \in Inputs
    BY Here DEF Typed
  <2>2. input.reqs \in Seq(Request)
    BY <2>1, HyperAssumption
  <2> QED BY <2>1, <2>2
<1>6. BodyTimeout \in Nat /\ BodyTimeout # None
  BY TimeoutsAssumption DEF None
<1>7. CASE input.reqs[k].refuse = "bridge"
  <2>1. reject(k, c)
    BY <1>7 DEF Enter
  <2>2. /\ clock' = note_body_end(set(c, "Write"))
        /\ outq' = Append(outq, [req |-> k, what |-> "whole"])
        /\ resp' = [encode |-> "none", then |-> "closing", frames |-> 0, streams |-> FALSE]
        /\ st' = "closing" /\ owing' = TRUE
    BY <2>1 DEF reject, Hand
  <2> HIDE DEF c
  <2>3. /\ clock' \in Clocks /\ clock'.phase = "Write" /\ clock'.age = 0 /\ ~clock'.detached
        /\ clock'.moved /\ clock'.notified /\ clock'.body_left = BodyTimeout
        /\ clock'.body_done /\ ~clock'.response_streams
    BY <1>4, <2>2, SetIs, BodyEndIs DEF Phases
  <2>4. resp' \in Responses /\ resp'.streams = FALSE
    BY <2>2 DEF Responses
  <2>5. outq' \in Seq(OutUnits)
    <3>1. [req |-> k, what |-> "whole"] \in OutUnits
      BY <1>5 DEF OutUnits, Whats
    <3> QED BY <2>2, <3>1, Here DEF Typed
  <2>6. body' \in {"none", "open"}
    OBVIOUS
  <2>7. clock'.response_streams = FALSE
    BY <2>3 DEF Clocks
  <2>8. Typed'
    BY <1>1, <1>2, <1>5, <2>2, <2>3, <2>4, <2>5, <2>6, Here DEF Typed
  <2>9. Phased'
    BY <2>2, <2>3 DEF Phased
  <2>10. Bodied'
    BY <1>6, <2>2, <2>3, <2>4, <2>7 DEF Bodied
  <2>11. Buffered'
    BY <2>2, <2>3 DEF Buffered
  <2>12. Watching'
    BY <2>3 DEF Watching
  <2>13. Timed'
    BY <1>1, <2>2, <2>3, <2>4, <2>8, <2>9, Here, HereKind, NextKind, TimedStep, PhaseTimeouts
    DEF Served, Phased, Phases
  <2> QED BY <1>1, <2>8, <2>9, <2>10, <2>11, <2>12, <2>13, GoingStep
<1>8. CASE input.reqs[k].refuse # "bridge"
  <2>1. /\ clock' = IF Empty(k) THEN Finished(c) ELSE c
        /\ st' = "handler" /\ outq' = outq /\ resp' = resp /\ owing' = owing
    BY <1>8 DEF Enter, Empty
  <2> HIDE DEF c
  <2>2. /\ clock' \in Clocks /\ clock'.phase = "Handler" /\ clock'.age = 0 /\ ~clock'.detached
        /\ clock'.moved /\ clock'.notified /\ clock'.body_left = BodyTimeout
        /\ (clock'.finished <=> Empty(k)) /\ ~clock'.wrote_bytes
        /\ ~clock'.body_done /\ ~clock'.response_streams
    <3>1. Empty(k) \in BOOLEAN
      BY DEF Empty
    <3>2. CASE Empty(k)
      BY <1>4, <2>1, <3>2, FinishedIs
    <3>3. CASE ~Empty(k)
      BY <1>4, <2>1, <3>3
    <3> QED BY <3>1, <3>2, <3>3
  <2>3. (BodyPending' <=> ~Empty(k)) /\ body' \in {"none", "open"}
    BY DEF BodyPending
  <2>4. ~owing /\ ~owing'
    BY <2>1, Here DEF Phased, Typed
  <2>5. Typed'
    BY <1>1, <1>2, <1>5, <2>1, <2>2, <2>3, Here DEF Typed
  <2>6. Phased'
    BY <1>1, <1>5, <2>1, <2>2, <2>4, Here DEF Phased
  <2>7. Bodied'
    BY <1>6, <2>1, <2>2, <2>3 DEF Bodied
  <2>8. Buffered'
    BY <2>1, <2>2 DEF Buffered
  <2>9. Watching'
    BY <2>2 DEF Watching
  <2>10. Timed'
    BY <1>1, <2>1, <2>2, <2>3, <2>5, <2>6, Here, HereKind, NextKind, TimedStep, PhaseTimeouts
    DEF Served, Phased, Phases
  <2> QED BY <1>1, <2>5, <2>6, <2>7, <2>8, <2>9, <2>10, GoingStep
<1> QED BY <1>7, <1>8

\* hyper calls the bridge, which waits while a response is not out.
LEMMA CallServiceStep ==
    ASSUME IInv, Clocking, CallService
    PROVE  IInv'
<1>1. /\ Served /\ st = "wait" /\ HeadReady /\ req' = req + 1 /\ begun' = FALSE
      /\ body' = IF Empty(req + 1) THEN "none" ELSE "open"
      /\ dispatchVars' = dispatchVars /\ wd' = wd /\ wire' = wire /\ lapsed' = lapsed
  BY DEF CallService, Empty
<1>2. req + 1 \in DOMAIN input.reqs
  <2>1. input.reqs \in Seq(Request) /\ req \in 0..Len(input.reqs)
    BY <1>1, Here, HyperAssumption DEF Typed
  <2> QED BY <1>1, <2>1 DEF HeadReady
<1>3. CASE MustLeave
  <2>1. /\ st' = "leaving" /\ clock' = clock /\ outq' = outq /\ resp' = resp /\ owing' = owing
        /\ bodyAge' = bodyAge /\ clock.phase = "Write"
    BY <1>3 DEF CallService, MustLeave
  <2>2. /\ input' = input /\ stage' = stage /\ left' = left /\ fate' = fate
    BY <1>1 DEF dispatchVars
  <2>3. waited' \in Nat
    BY <1>1, Here, WaitedTyped
  <2>4. \A j : Empty(j)' = Empty(j)
    BY <2>2 DEF Empty, Positions
  <2>5. body' \in {"none", "open"} /\ req' \in 0..Len(input.reqs)
    <3>1. input.reqs \in Seq(Request)
      BY <1>1, Here, HyperAssumption DEF Typed
    <3> QED BY <1>1, <1>2, <3>1
  <2>6. Typed'
    BY <1>1, <2>1, <2>2, <2>3, <2>5, Here DEF Typed
  <2>7. Phased'
    BY <1>1, <1>2, <2>1, <2>2, Here DEF Phased, Typed
  <2>8. ~BodyPending
    BY <1>1, Here DEF Bodied, FullyRead, BodyPending
  <2>9. Bodied'
    BY <1>1, <2>1, <2>4, <2>8, Here DEF Bodied
  <2>10. Buffered'
    BY <2>1, Here DEF Buffered
  <2>11. Watching'
    BY <1>1, <2>1, Here, StillWatching
  <2>12. Timed'
    BY <1>1, <2>1, <2>2, <2>6, <2>7, Here, HereKind, NextKind, TimedStep
    DEF Served, Phased, Phases, Timed
  <2> QED BY <1>1, <2>2, <2>6, <2>7, <2>9, <2>10, <2>11, <2>12, GoingStep
<1>4. CASE ~MustLeave
  BY <1>1, <1>2, <1>4, EnterStep DEF CallService, MustLeave
<1> QED BY <1>3, <1>4

\* The response before is out, and the handler's window opens.
LEMMA LeftWriteStep ==
    ASSUME IInv, Clocking, LeftWrite
    PROVE  IInv'
<1>1. /\ Served /\ st = "leaving" /\ clock.phase # "Write" /\ Enter(req) /\ req' = req
      /\ body' = body /\ dispatchVars' = dispatchVars /\ wd' = wd /\ wire' = wire
      /\ lapsed' = lapsed /\ begun' = begun
  BY DEF LeftWrite, MustLeave
<1>2. req \in DOMAIN input.reqs /\ begun = FALSE
  BY <1>1, Here DEF Phased, Typed
<1>3. body = IF Empty(req) THEN "none" ELSE "open"
  BY <1>1, Here DEF Bodied
<1> QED BY <1>1, <1>2, <1>3, EnterStep

\* A step that the clock is not told of.
LEMMA CalmStep ==
    ASSUME IInv, Clocking, Served, clock' = clock, wd' = wd, dispatchVars' = dispatchVars,
           lapsed' = lapsed, req' = req, body' = body, wire' = wire, owing' = owing,
           begun' = begun, bodyAge' = bodyAge, st' = st \/ (st = "wait" /\ st' = "closing"),
           resp' \in Responses, resp'.streams = resp.streams, resp'.then = resp.then,
           outq' \in Seq(OutUnits), Buffered'
    PROVE  IInv'
<1>1. input' = input /\ stage' = stage /\ left' = left /\ fate' = fate
  BY DEF dispatchVars
<1>2. waited' \in Nat
  BY Here, WaitedTyped
<1>3. \A j : Empty(j)' = Empty(j)
  BY <1>1 DEF Empty, Positions
<1>4. Typed'
  BY <1>1, <1>2, Here DEF Typed
<1>5. Phased'
  BY <1>1, Here DEF Phased
<1>6. Bodied'
  BY <1>3, Here DEF Bodied, FullyRead, BodyPending
<1>7. Watching'
  BY Here, StillWatching
<1>8. Timed'
  BY <1>1, <1>4, <1>5, Here, HereKind, NextKind, TimedStep
  DEF Served, Phased, Phases, Timed, StreamsOverBody, BodyPending
<1> QED BY <1>1, <1>4, <1>5, <1>6, <1>7, <1>8, GoingStep

\* A unit more is still a sequence of units.
LEMMA AppendTyped ==
    ASSUME NEW o \in Seq(OutUnits), NEW k \in Nat, NEW what \in Whats
    PROVE  Append(o, [req |-> k, what |-> what]) \in Seq(OutUnits)
<1>1. [req |-> k, what |-> what] \in OutUnits
  BY DEF OutUnits
<1> QED BY <1>1

\* The types that sequences are reasoned about with.
LEMMA ReqTyped ==
    ASSUME Typed
    PROVE  req \in Nat /\ input.reqs \in Seq(Request) /\ outq \in Seq(OutUnits)
BY HyperAssumption DEF Typed

\* hyper refuses a head: only its error is buffered.
LEMMA HyperRefusesStep ==
    ASSUME IInv, Clocking, HyperRefuses
    PROVE  IInv'
<1> DEFINE u == [req |-> req + 1, what |-> "err1"]
           v == [req |-> req + 1, what |-> "err2"]
<1>1. /\ Served /\ st = "wait" /\ outq' = outq \o <<u, v>> /\ st' = "closing"
      /\ dispatchVars' = dispatchVars /\ clock' = clock /\ wd' = wd /\ req' = req
      /\ body' = body /\ resp' = resp /\ wire' = wire /\ owing' = owing /\ begun' = begun
      /\ bodyAge' = bodyAge /\ lapsed' = lapsed
  BY DEF HyperRefuses
<1>2. u \in OutUnits /\ v \in OutUnits /\ u.what \in Errs /\ v.what \in Errs
  BY <1>1, Here, ReqTyped DEF OutUnits, Whats, Errs
<1> HIDE DEF u, v
<1>3. <<u, v>> \in Seq(OutUnits) /\ outq \in Seq(OutUnits)
  BY <1>1, <1>2, Here, ReqTyped
<1>4. outq' \in Seq(OutUnits)
  BY <1>1, <1>3
<1>5. clock.phase # "Write" => outq' = <<u, v>>
  <2>1. clock.phase # "Write" => outq = <<>>
    BY <1>1, Here DEF Buffered
  <2>2. <<>> \o <<u, v>> = <<u, v>>
    BY <1>3, ConcatEmptySeq
  <2> QED BY <1>1, <2>1, <2>2
<1>6. Buffered'
  <2>1. clock'.phase # "Write" => \A i \in DOMAIN outq' : outq'[i].what \in Errs
    BY <1>1, <1>2, <1>5
  <2> QED BY <1>1, <2>1, Here DEF Buffered
<1> QED BY <1>1, <1>4, <1>6, CalmStep, Here DEF Typed

\* hyper's interim response changes nothing the clock keeps.
LEMMA InterimStep ==
    ASSUME IInv, Clocking, Interim
    PROVE  IInv'
<1> DEFINE new == IF SplitInterim
                  THEN <<[req |-> req, what |-> "100a"], [req |-> req, what |-> "100b"]>>
                  ELSE <<[req |-> req, what |-> "100"]>>
<1>1. /\ Served /\ st \in {"leaving", "handler"} /\ outq' = outq \o new /\ st' = st
      /\ dispatchVars' = dispatchVars /\ clock' = clock /\ wd' = wd /\ req' = req
      /\ body' = body /\ resp' = resp /\ wire' = wire /\ owing' = owing /\ begun' = begun
      /\ bodyAge' = bodyAge /\ lapsed' = lapsed
  BY DEF Interim
<1>2. new \in Seq(OutUnits)
  <2>1. \A w \in Whats : [req |-> req, what |-> w] \in OutUnits
    BY <1>1, Here, ReqTyped DEF OutUnits
  <2> QED BY <2>1 DEF Whats
<1> HIDE DEF new
<1>3. outq' \in Seq(OutUnits)
  BY <1>1, <1>2, Here, ReqTyped
<1>4. Buffered'
  BY <1>1, Here DEF Buffered
<1> QED BY <1>1, <1>3, <1>4, CalmStep, Here DEF Typed

\* A chunk of a streamed response is buffered.
LEMMA StreamFrameStep ==
    ASSUME IInv, Clocking, StreamFrame
    PROVE  IInv'
<1>1. /\ Served /\ st = "respond" /\ outq' = Append(outq, [req |-> req, what |-> "data"])
      /\ resp' = [resp EXCEPT !.frames = @ + 1] /\ st' = st
      /\ dispatchVars' = dispatchVars /\ clock' = clock /\ wd' = wd /\ req' = req
      /\ body' = body /\ wire' = wire /\ owing' = owing /\ begun' = begun
      /\ bodyAge' = bodyAge /\ lapsed' = lapsed
  BY DEF StreamFrame
<1>2. resp \in Responses
  BY <1>1, Here DEF Typed
<1>3. resp' \in Responses /\ resp'.streams = resp.streams /\ resp'.then = resp.then
  BY <1>1, <1>2 DEF Responses
<1>4. outq' \in Seq(OutUnits)
  BY <1>1, Here, ReqTyped, AppendTyped DEF Whats
<1>5. Buffered'
  BY <1>1, Here DEF Buffered, Phased
<1> QED BY <1>1, <1>3, <1>4, <1>5, CalmStep

\* The request's body is over, or goes on being awaited: the clock learns no more.
LEMMA BodyStep ==
    ASSUME IInv, Clocking, Served, wd' = wd, dispatchVars' = dispatchVars, lapsed' = lapsed,
           req' = req, wire' = wire, owing' = owing, begun' = begun, bodyAge' = bodyAge,
           st' = st, resp' = resp, outq' = outq,
           \/ body' = body /\ clock' = clock
           \/ /\ body' \in {"read", "failed", "dropped"} /\ clock' = Finished(clock)
              /\ (body = "open" /\ st \in {"handler", "respond"}) \/ body = "stashed"
    PROVE  IInv'
<1>1. input' = input /\ stage' = stage /\ left' = left /\ fate' = fate
  BY DEF dispatchVars
<1>2. CASE body' = body /\ clock' = clock
  BY <1>2, Here, CalmStep, ReqTyped DEF Typed, Buffered
<1>3. CASE /\ body' \in {"read", "failed", "dropped"} /\ clock' = Finished(clock)
           /\ (body = "open" /\ st \in {"handler", "respond"}) \/ body = "stashed"
  <2>1. /\ clock' \in Clocks /\ clock'.phase = clock.phase /\ ~clock'.detached
        /\ clock'.age = clock.age /\ clock'.moved = clock.moved /\ clock'.notified
        /\ clock'.wrote_bytes = clock.wrote_bytes /\ clock'.body_left = clock.body_left
        /\ clock'.body_done = clock.body_done /\ clock'.finished
        /\ clock'.response_streams = clock.response_streams
    BY <1>3, Here, FinishedIs
  <2>2. waited' \in Nat
    BY Here, WaitedTyped
  <2>3. \A j : Empty(j)' = Empty(j)
    BY <1>1 DEF Empty, Positions
  <2>4. Typed'
    BY <1>1, <1>3, <2>1, <2>2, Here DEF Typed
  <2>5. Phased'
    BY <1>1, <2>1, Here DEF Phased
  <2>6. st # "leaving" /\ st # "wait" /\ (st = "respond" => resp.then # "wait")
    BY <1>3, Here DEF Bodied, FullyRead
  <2>7. ~BodyPending'
    BY <1>3 DEF BodyPending
  <2>8. Bodied'
    BY <1>3, <2>1, <2>6, <2>7, Here DEF Bodied
  <2>9. Buffered'
    BY <2>1, Here DEF Buffered
  <2>10. Watching'
    BY <2>1 DEF Watching
  <2>11. Timed'
    BY <1>1, <1>3, <2>1, <2>4, <2>5, <2>7, Here, HereKind, NextKind, TimedStep
    DEF Served, Phased, Phases, Timed
  <2> QED BY <1>1, <2>4, <2>5, <2>8, <2>9, <2>10, <2>11, GoingStep
<1> QED BY <1>2, <1>3

\* The request's body is read, or dropped.
LEMMA BodySteps ==
    ASSUME IInv, Clocking, BodyRead \/ DropBody
    PROVE  IInv'
<1>1. CASE DropBody
  BY <1>1, BodyStep DEF DropBody
<1>2. CASE BodyRead
  <2>1. /\ Served /\ body = "open" /\ st \in {"handler", "respond"}
        /\ wd' = wd /\ dispatchVars' = dispatchVars /\ lapsed' = lapsed
        /\ req' = req /\ wire' = wire /\ owing' = owing /\ begun' = begun
        /\ bodyAge' = bodyAge /\ st' = st /\ resp' = resp /\ outq' = outq
    BY <1>2 DEF BodyRead
  <2>2. \/ body' = body /\ clock' = clock
        \/ body' \in {"read", "failed"} /\ clock' = Finished(clock)
    BY <1>2 DEF BodyRead
  <2> QED BY <2>1, <2>2, BodyStep
<1> QED BY <1>1, <1>2

\* A response is handed over in the handler's stead.
LEMMA HandStep ==
    ASSUME IInv, Clocking, Served, st = "handler",
           NEW encode \in {"none", "full", "stream"}, NEW then \in {"wait", "closing", "upgrading"},
           Hand(req, encode, then), dispatchVars' = dispatchVars, wd' = wd, lapsed' = lapsed,
           req' = req, wire' = wire, begun' = begun, bodyAge' = bodyAge,
           body' \in {"none", "open", "read", "failed", "dropped", "stashed"},
           clock' \in Clocks, clock'.phase = "Write", clock'.age = 0, ~clock'.detached,
           clock'.moved, clock'.notified, clock'.body_left = clock.body_left,
           clock'.body_done <=> encode = "none",
           clock'.response_streams <=> encode = "stream",
           clock'.response_streams => (clock'.finished <=> ~BodyPending'),
           then = "wait" => FullyRead',
           BodyPending' => BodyPending
    PROVE  IInv'
<1>1. input' = input /\ stage' = stage /\ left' = left /\ fate' = fate
  BY DEF dispatchVars
<1>2. waited' \in Nat
  BY Here, WaitedTyped
<1>3. \A j : Empty(j)' = Empty(j)
  BY <1>1 DEF Empty, Positions
<1>4. /\ outq' = Append(outq, [req |-> req, what |-> IF encode = "none" THEN "whole" ELSE "head"])
      /\ resp' = [encode |-> encode, then |-> then, frames |-> 0, streams |-> encode = "stream"]
      /\ st' = IF encode = "none" THEN then ELSE "respond"
      /\ owing' = TRUE
  BY DEF Hand
<1>5. outq' \in Seq(OutUnits)
  BY <1>4, Here, ReqTyped, AppendTyped DEF Whats
<1>6. resp' \in Responses /\ resp'.then = then /\ resp'.streams = (encode = "stream")
  BY <1>4 DEF Responses
<1>7. clock'.response_streams = (encode = "stream")
  BY DEF Clocks
<1>8. Typed'
  BY <1>1, <1>2, <1>4, <1>5, <1>6, Here DEF Typed
<1>9. Phased'
  BY <1>1, <1>4, Here DEF Phased
<1>10. clock.phase = "Handler" /\ clock.body_left # None
  BY Here DEF Phased, Bodied
<1>11. Bodied'
  BY <1>3, <1>4, <1>6, <1>7, <1>10 DEF Bodied
<1>12. Buffered'
  BY <1>4 DEF Buffered
<1>13. Watching'
  BY DEF Watching
<1>14. Timed'
  BY <1>1, <1>4, <1>6, <1>8, <1>9, <1>10, Here, HereKind, NextKind, TimedStep, PhaseTimeouts
  DEF Served, Phased, Phases
<1> QED BY <1>1, <1>8, <1>9, <1>11, <1>12, <1>13, <1>14, GoingStep

\* The handler has run out of its own time.
LEMMA HandlerTimeoutStep ==
    ASSUME IInv, Clocking, HandlerTimeout
    PROVE  IInv'
<1> DEFINE c == IF body = "open" THEN Finished(clock) ELSE clock
<1>1. /\ Served /\ st = "handler" /\ body' = (IF body = "open" THEN "dropped" ELSE body)
      /\ clock' = note_body_end(set(c, "Write")) /\ Hand(req, "none", "closing")
      /\ dispatchVars' = dispatchVars /\ wd' = wd /\ lapsed' = lapsed
      /\ req' = req /\ wire' = wire /\ begun' = begun /\ bodyAge' = bodyAge
  BY DEF HandlerTimeout, reject
<1>2. c \in Clocks /\ ~c.detached /\ c.body_left = clock.body_left /\ ~c.response_streams
  <2>1. ~clock.response_streams
    BY <1>1, Here DEF Bodied, Phased
  <2>2. CASE body = "open"
    BY <1>1, <2>1, <2>2, Here, FinishedIs
  <2>3. CASE body # "open"
    BY <1>1, <2>1, <2>3, Here
  <2> QED BY <2>2, <2>3
<1> HIDE DEF c
<1>3. /\ clock' \in Clocks /\ clock'.phase = "Write" /\ clock'.age = 0 /\ ~clock'.detached
      /\ clock'.moved /\ clock'.notified /\ clock'.body_left = clock.body_left
      /\ clock'.body_done /\ ~clock'.response_streams
  BY <1>1, <1>2, SetIs, BodyEndIs DEF Phases
<1>4. /\ body' \in {"none", "open", "read", "failed", "dropped", "stashed"}
      /\ BodyPending' => BodyPending
  BY <1>1, Here DEF Typed, BodyPending
<1> QED BY <1>1, <1>3, <1>4, HandStep

\* The handler returns, whatever it did with the body.
LEMMA HandlerReturnsStep ==
    ASSUME IInv, Clocking, NEW r \in input.reqs[req].replies,
           NEW leaves \in {"dropped", "stashed", "moved"}, HandlerReturns(r, leaves)
    PROVE  IInv'
<1> DEFINE q == input.reqs[req]
           impossible == r.status = "bad" \/ (r.status = "101" /\ ~q.upgrade)
           status == IF impossible THEN "500" ELSE r.status
           sends == IF impossible THEN "none" ELSE r.body
           upgrading == status = "101" /\ FullyRead
           written == sends # "none" /\ ~q.head /\ status \notin {"101", "204"}
           encode == IF written THEN sends ELSE "none"
           streams == encode = "stream"
           keep == /\ q.keep_alive /\ FullyRead /\ ~impossible
                   /\ ~(q.version = "1.0" /\ streams)
                   /\ ~r.close
           after == IF body # "open" THEN body
                    ELSE IF leaves = "stashed" THEN "stashed"
                    ELSE IF leaves = "moved" /\ streams THEN "open"
                    ELSE "dropped"
           b == IF after = "dropped" /\ body = "open" THEN Finished(clock) ELSE clock
           c == set_response_streams(set(b, "Write"), streams)
           then == IF upgrading THEN "upgrading" ELSE IF keep THEN "wait" ELSE "closing"
<1>1. /\ Served /\ st = "handler" /\ body' = after
      /\ clock' = (IF encode = "none" THEN note_body_end(c) ELSE c)
      /\ Hand(req, encode, then)
      /\ dispatchVars' = dispatchVars /\ wd' = wd /\ lapsed' = lapsed
      /\ req' = req /\ wire' = wire /\ begun' = begun /\ bodyAge' = bodyAge
  BY DEF HandlerReturns
<1>2. r \in Reply
  <2>1. input.reqs \in Seq(Request) /\ req \in DOMAIN input.reqs
    BY <1>1, Here, ReqTyped DEF Phased
  <2>2. input.reqs[req] \in Request
    BY <2>1
  <2>3. input.reqs[req].replies \subseteq Reply
    BY <2>2 DEF Request
  <2> QED BY <2>3
<1>3. encode \in {"none", "full", "stream"} /\ streams \in BOOLEAN
  BY <1>2 DEF Reply
<1>4. then \in {"wait", "closing", "upgrading"} /\ (then = "wait" => FullyRead)
  OBVIOUS
<1>5. /\ after \in {"none", "open", "read", "failed", "dropped", "stashed"}
      /\ body # "open" => after = body
      /\ body = "open" => after \in {"dropped", "stashed", "open"}
  BY <1>1, Here DEF Typed
<1>6. streams <=> encode = "stream"
  OBVIOUS
<1> HIDE DEF q, impossible, status, sends, upgrading, written, encode, streams, keep, after, then
<1>7. FullyRead => after = body
  BY <1>5 DEF FullyRead
<1>8. /\ b \in Clocks /\ ~b.detached /\ b.body_left = clock.body_left /\ ~b.body_done
      /\ b.finished <=> after \notin {"open", "stashed"}
  <2>1. /\ clock \in Clocks /\ ~clock.detached
        /\ clock.finished <=> body \notin {"open", "stashed"}
        /\ body # "stashed" /\ ~clock.body_done
    BY <1>1, Here DEF Bodied, Phased, BodyPending
  <2>2. CASE after = "dropped" /\ body = "open"
    BY <2>1, <2>2, FinishedIs
  <2>3. CASE ~(after = "dropped" /\ body = "open")
    BY <1>5, <2>1, <2>3
  <2> QED BY <2>2, <2>3
<1> HIDE DEF b
<1>9. /\ c \in Clocks /\ c.phase = "Write" /\ c.age = 0 /\ ~c.detached
      /\ c.moved /\ c.notified /\ c.body_left = clock.body_left /\ c.body_done = b.body_done
      /\ c.response_streams = streams /\ c.finished = b.finished
  BY <1>3, <1>8, SetIs, StreamsIs DEF Phases
<1> HIDE DEF c
<1>10. /\ clock' \in Clocks /\ clock'.phase = "Write" /\ clock'.age = 0 /\ ~clock'.detached
       /\ clock'.moved /\ clock'.notified /\ clock'.body_left = clock.body_left
       /\ clock'.response_streams = streams /\ clock'.finished = b.finished
       /\ clock'.body_done <=> encode = "none"
  <2>1. CASE encode = "none"
    BY <1>1, <1>9, <2>1, BodyEndIs
  <2>2. CASE encode # "none"
    BY <1>1, <1>8, <1>9, <2>2
  <2> QED BY <2>1, <2>2
<1>11. (BodyPending' <=> after \in {"open", "stashed"}) /\ (BodyPending' => BodyPending)
  BY <1>1, <1>5, Here DEF BodyPending, Bodied, Phased
<1>12. then = "wait" => FullyRead'
  BY <1>1, <1>4, <1>7 DEF FullyRead
<1> QED BY <1>1, <1>3, <1>4, <1>5, <1>6, <1>8, <1>10, <1>11, <1>12, HandStep

\* The last of a response is encoded.
LEMMA EncodedStep ==
    ASSUME IInv, Clocking, Served, st = "respond", outq' \in Seq(OutUnits), st' = resp.then,
           resp' = [resp EXCEPT !.encode = "none"], dispatchVars' = dispatchVars, wd' = wd,
           lapsed' = lapsed, req' = req, wire' = wire, owing' = owing, begun' = begun,
           bodyAge' = bodyAge, NEW c, clock' = note_body_end(c),
           \/ body' = body /\ c = clock
           \/ body = "open" /\ body' = "dropped" /\ c = Finished(clock)
    PROVE  IInv'
<1>1. input' = input /\ stage' = stage /\ left' = left /\ fate' = fate
  BY DEF dispatchVars
<1>2. waited' \in Nat
  BY Here, WaitedTyped
<1>3. \A j : Empty(j)' = Empty(j)
  BY <1>1 DEF Empty, Positions
<1>4. resp \in Responses
  BY Here DEF Typed
<1>5. /\ resp' \in Responses /\ resp'.streams = resp.streams /\ resp'.then = resp.then
      /\ resp.then \in {"wait", "closing", "upgrading"}
  BY <1>4 DEF Responses
<1>6. /\ c \in Clocks /\ ~c.detached /\ c.phase = clock.phase /\ c.age = clock.age
      /\ c.body_left = clock.body_left /\ c.response_streams = clock.response_streams
      /\ c.moved = clock.moved /\ c.wrote_bytes = clock.wrote_bytes
      /\ (body' = body /\ c.finished = clock.finished /\ c.notified = clock.notified)
         \/ (body = "open" /\ body' = "dropped" /\ c.finished /\ c.notified)
  <2>1. CASE body' = body /\ c = clock
    BY <2>1, Here
  <2>2. CASE body = "open" /\ body' = "dropped" /\ c = Finished(clock)
    BY <2>2, Here, FinishedIs
  <2> QED BY <2>1, <2>2
<1>7. /\ clock' \in Clocks /\ ~clock'.detached /\ clock'.phase = clock.phase
      /\ clock'.age = clock.age /\ clock'.body_done
      /\ clock'.body_left = clock.body_left /\ clock'.response_streams = clock.response_streams
      /\ clock'.moved = clock.moved /\ clock'.wrote_bytes = clock.wrote_bytes
      /\ (body' = body /\ clock'.finished = clock.finished /\ clock'.notified = clock.notified)
         \/ (body = "open" /\ body' = "dropped" /\ clock'.finished /\ clock'.notified)
  BY <1>6, BodyEndIs
<1>8. clock.phase = "Write"
  BY Here DEF Phased
<1>9. Typed'
  BY <1>1, <1>2, <1>5, <1>7, Here DEF Typed
<1>10. Phased'
  BY <1>1, <1>5, <1>7, <1>8, Here DEF Phased
<1>11. Bodied'
  <2>1. resp.then = "wait" => body' = body /\ FullyRead /\ FullyRead'
    BY <1>7, Here DEF Bodied, FullyRead
  <2>2. clock'.finished <=> clock.finished \/ (body = "open" /\ body' = "dropped")
    BY <1>7
  <2>3. BodyPending' <=> BodyPending /\ body' = body
    BY <1>7 DEF BodyPending
  <2>4. clock.response_streams => (clock.finished <=> ~BodyPending)
    BY <1>8, Here DEF Bodied
  <2>5. clock'.response_streams => (clock'.finished <=> ~BodyPending')
    BY <1>7, <2>2, <2>3, <2>4
  <2> QED BY <1>3, <1>5, <1>7, <1>8, <2>1, <2>5, Here DEF Bodied
<1>12. Buffered'
  BY <1>7, <1>8 DEF Buffered
<1>13. Watching'
  <2>1. CASE clock'.notified
    BY <2>1 DEF Watching
  <2>2. CASE ~clock'.notified
    BY <1>7, <2>2, Here, StillWatching
  <2> QED BY <2>1, <2>2
<1>14. Timed'
  BY <1>1, <1>5, <1>7, <1>8, <1>9, <1>10, Here, HereKind, NextKind, TimedStep
  DEF Served, Phased, Phases, Timed, StreamsOverBody, BodyPending
<1> QED BY <1>1, <1>9, <1>10, <1>11, <1>12, <1>13, <1>14, GoingStep

\* A full body is polled, or a stream ends.
LEMMA EncodedSteps ==
    ASSUME IInv, Clocking, PollFull \/ StreamEnds
    PROVE  IInv'
<1>1. Served /\ outq' \in Seq(OutUnits)
  <2>1. Served
    BY DEF PollFull, StreamEnds
  <2>2. outq' = outq \/ outq' = Append(outq, [req |-> req, what |-> "end"])
    BY DEF PollFull, StreamEnds
  <2> QED BY <2>1, <2>2, Here, ReqTyped, AppendTyped DEF Whats
<1>2. CASE PollFull
  BY <1>1, <1>2, EncodedStep DEF PollFull
<1>3. CASE StreamEnds
  <2>1. CASE body = "open"
    BY <1>1, <1>3, <2>1, EncodedStep DEF StreamEnds
  <2>2. CASE body # "open"
    BY <1>1, <1>3, <2>2, EncodedStep DEF StreamEnds
  <2> QED BY <2>1, <2>2
<1> QED BY <1>2, <1>3

\* The watchdog looks at the clock again, and waits for what it says now.
LEMMA RearmsStep ==
    ASSUME IInv, Clocking, Rearms
    PROVE  IInv'
<1>1. /\ Served /\ wd' = Armed(clock) /\ clock' = Watched(clock)
      /\ dispatchVars' = dispatchVars /\ lapsed' = lapsed /\ req' = req /\ wire' = wire
      /\ owing' = owing /\ begun' = begun /\ bodyAge' = bodyAge /\ st' = st /\ resp' = resp
      /\ outq' = outq /\ body' = body
  BY DEF Rearms
<1>2. input' = input /\ stage' = stage /\ left' = left /\ fate' = fate
  BY <1>1 DEF dispatchVars
<1>3. waited' \in Nat
  BY <1>1, Here, WaitedTyped
<1>4. \A j : Empty(j)' = Empty(j)
  BY <1>2 DEF Empty, Positions
<1>5. clock \in Clocks /\ clock.age <= phase_timeout(clock.phase)
  BY <1>1, Here DEF Timed
<1>6. /\ clock' \in Clocks /\ clock'.phase = clock.phase /\ clock'.detached = clock.detached
      /\ clock'.age = clock.age /\ ~clock'.moved /\ ~clock'.notified
      /\ clock'.wrote_bytes = clock.wrote_bytes /\ clock'.body_left = clock.body_left
      /\ clock'.body_done = clock.body_done /\ clock'.finished = clock.finished
      /\ clock'.response_streams = clock.response_streams
  BY <1>1, <1>5 DEF Watched, Clocks
<1>7. /\ ArmFor(clock) \in Nat /\ ArmFor(clock') = ArmFor(clock)
      /\ BodyAt(clock') = BodyAt(clock)
  BY <1>5, <1>6, ArmIs, ArmSame
<1>8. /\ wd' = [waits |-> TRUE, phase |-> clock.phase, body |-> BodyAt(clock) # None,
                left |-> ArmFor(clock)]
      /\ clock.phase \in Phases
  BY <1>1, <1>5 DEF Armed, Clocks
<1>9. /\ wd' \in Watchdogs /\ wd'.waits /\ wd'.phase = clock.phase
      /\ (wd'.body <=> BodyAt(clock) # None) /\ wd'.left = ArmFor(clock)
  BY <1>7, <1>8 DEF Watchdogs
<1>10. Typed'
  BY <1>1, <1>2, <1>3, <1>6, <1>9, Here DEF Typed
<1>11. Phased'
  BY <1>1, <1>2, <1>6, Here DEF Phased
<1>12. Bodied'
  BY <1>1, <1>4, <1>6, Here DEF Bodied, FullyRead, BodyPending
<1>13. Buffered'
  BY <1>1, <1>6, Here DEF Buffered
<1>14. Watching'
  BY <1>6, <1>7, <1>9 DEF Watching
<1>15. Timed'
  BY <1>1, <1>2, <1>6, <1>10, <1>11, Here, HereKind, NextKind, TimedStep
  DEF Served, Phased, Phases, Timed, StreamsOverBody, BodyPending
<1> QED BY <1>1, <1>2, <1>10, <1>11, <1>12, <1>13, <1>14, <1>15, GoingStep

\* The watchdog stands down for the rest of the handler's run.
LEMMA ParksStep ==
    ASSUME IInv, Clocking, Parks
    PROVE  IInv'
<1>1. /\ Served /\ wd' = Parked(wd) /\ clock' = clock /\ Fired(clock, wd)
      /\ Verdict(clock, wd) = "park"
      /\ dispatchVars' = dispatchVars /\ lapsed' = lapsed /\ req' = req /\ wire' = wire
      /\ owing' = owing /\ begun' = begun /\ bodyAge' = bodyAge /\ st' = st /\ resp' = resp
      /\ outq' = outq /\ body' = body
  BY DEF Parks
<1>2. input' = input /\ stage' = stage /\ left' = left /\ fate' = fate
  BY <1>1 DEF dispatchVars
<1>3. waited' \in Nat
  BY <1>1, Here, WaitedTyped
<1>4. \A j : Empty(j)' = Empty(j)
  BY <1>2 DEF Empty, Positions
<1>5. wd.phase = "Handler" /\ clock.finished
  BY <1>1 DEF Verdict
<1>6. wd \in Watchdogs
  BY <1>1, Here DEF Typed
<1>7. wd' \in Watchdogs /\ ~wd'.waits /\ wd'.phase = wd.phase /\ wd'.body = wd.body
  BY <1>1, <1>6 DEF Parked, Watchdogs
<1>8. Typed'
  BY <1>1, <1>2, <1>3, <1>7, Here DEF Typed
<1>9. Phased'
  BY <1>1, <1>2, Here DEF Phased
<1>10. Bodied'
  BY <1>1, <1>4, Here DEF Bodied, FullyRead, BodyPending
<1>11. Buffered'
  BY <1>1, Here DEF Buffered
<1>12. Watching'
  BY <1>1, <1>5, <1>7, Here DEF Watching
<1>13. Timed'
  BY <1>1, <1>2, <1>8, <1>9, Here, HereKind, NextKind, TimedStep
  DEF Served, Phased, Phases, Timed, StreamsOverBody, BodyPending
<1> QED BY <1>1, <1>2, <1>8, <1>9, <1>10, <1>11, <1>12, <1>13, GoingStep

\* What a deadline that nothing has overtaken was armed for has run out.
LEMMA Due ==
    ASSUME IInv, Served, Fired(clock, wd), Verdict(clock, wd) = "expired"
    PROVE  /\ \/ Kind \in {"idle", "head", "body", "write"} /\ waited = Bound(Kind)
              \/ Kind = "write" /\ StreamsOverBody /\ bodyAge = BodyTimeout
           /\ wd.phase = clock.phase
           /\ Kind = "head" <=> wd.phase = "Head"
           /\ Kind = "body" <=> wd.phase = "Handler"
<1>1. ~clock.notified /\ wd.waits /\ wd.left = 0
  BY DEF Fired
<1>2. wd.phase = clock.phase /\ ArmFor(clock) = 0 /\ (wd.body <=> BodyAt(clock) # None)
  BY <1>1, Here DEF Watching
<1>3. ~(clock.phase = "Handler" /\ clock.finished)
  BY <1>2 DEF Verdict
<1>4. /\ clock \in Clocks /\ clock.age <= phase_timeout(clock.phase) /\ clock.phase \in Phases
      /\ clock.age \in Nat /\ waited \in Nat /\ bodyAge \in Nat
  BY Here DEF Timed, Clocks, Typed
<1>5. /\ Remaining(clock) = phase_timeout(clock.phase) - clock.age
      /\ Remaining(clock) \in Nat
  BY <1>4, ArmIs
<1>6. CASE clock.phase \in {"Idle", "Head"}
  <2>1. Remaining(clock) = 0
    BY <1>2, <1>4, <1>6, ArmIs
  <2>2. clock.age = phase_timeout(clock.phase) /\ clock.age > 0
    BY <1>4, <1>5, <2>1, PhaseTimeouts
  <2>3. st # "leaving"
    BY <1>6, <2>2, Here DEF Phased
  <2> QED BY <1>2, <1>6, <2>2, <2>3, Here, HereKind, PhaseTimeouts, Bounds DEF Timed
<1>7. CASE clock.phase = "Handler"
  <2>1. BodyPending /\ clock.body_left # None /\ ~clock.finished
    BY <1>3, <1>7, Here DEF Bodied
  <2>2. clock.body_left = 0
    BY <1>2, <1>4, <1>7, <2>1, ArmIs
  <2>3. Kind = "body" /\ waited = bodyAge /\ bodyAge + clock.body_left = BodyTimeout
    BY <1>7, <2>1, Here, HereKind DEF Timed
  <2>4. waited = BodyTimeout
    BY <1>4, <2>2, <2>3, TimeoutsAssumption
  <2> QED BY <1>2, <1>7, <2>3, <2>4, Bounds
<1>8. CASE clock.phase = "Write"
  <2>1. Kind = "write" /\ waited = clock.age
    BY <1>8, Here, HereKind DEF Timed
  <2>2. CASE Remaining(clock) = 0
    <3>1. waited = WriteTimeout
      BY <1>4, <1>5, <1>8, <2>1, <2>2, PhaseTimeouts
    <3> QED BY <1>2, <1>8, <2>1, <3>1, Bounds
  <2>3. CASE Remaining(clock) # 0
    <3>1. clock.response_streams /\ ~clock.finished /\ clock.body_left # None
      BY <1>2, <1>4, <1>8, <2>3, ArmIs
    <3>2. ArmFor(clock) = Least(Remaining(clock), clock.body_left)
      BY <1>4, <1>8, <3>1, ArmIs
    <3>3. clock.body_left = 0
      BY <1>2, <1>5, <2>3, <3>2 DEF Least
    <3>4. StreamsOverBody
      BY <1>8, <3>1, Here DEF Bodied, Phased, StreamsOverBody
    <3>5. bodyAge + clock.body_left = BodyTimeout
      BY <3>4, Here DEF Timed
    <3>6. bodyAge = BodyTimeout
      BY <1>4, <3>3, <3>5, TimeoutsAssumption
    <3> QED BY <1>2, <1>8, <2>1, <3>4, <3>6
  <2> QED BY <2>2, <2>3
<1> QED BY <1>4, <1>6, <1>7, <1>8 DEF Phases

\* The watchdog gives up.
LEMMA ExpiresStep ==
    ASSUME IInv, Clocking, Expires
    PROVE  IInv'
<1>1. /\ Served /\ Fired(clock, wd) /\ Verdict(clock, wd) = "expired"
      /\ lapsed' = [kind |-> Kind,
                    due |-> \/ Kind # "handler" /\ waited = Bound(Kind)
                            \/ StreamsOverBody /\ bodyAge = BodyTimeout]
      /\ outq' = <<>> /\ input' = input /\ clock' = clock /\ wd' = wd /\ st' = st
      /\ req' = req /\ body' = body /\ resp' = resp /\ wire' = wire /\ owing' = owing
      /\ begun' = begun /\ bodyAge' = bodyAge
  BY DEF Expires
<1>2. /\ \/ Kind \in {"idle", "head", "body", "write"} /\ waited = Bound(Kind)
         \/ Kind = "write" /\ StreamsOverBody /\ bodyAge = BodyTimeout
      /\ wd.phase = clock.phase
      /\ Kind = "head" <=> wd.phase = "Head"
      /\ Kind = "body" <=> wd.phase = "Handler"
  BY <1>1, Due
<1>3. lapsed'.due /\ lapsed'.kind = Kind
  BY <1>1, <1>2
<1>4. waited' \in Nat
  BY <1>1, Here, WaitedTyped
<1>5. CASE wd.phase \in {"Head", "Handler"} /\ ~Splices
  <2>1. stage' = "answer" /\ left' = WriteTimeout /\ fate' = fate
    BY <1>5 DEF Expires
  <2>2. WriteTimeout \in Nat
    BY TimeoutsAssumption
  <2>3. Typed'
    BY <1>1, <1>4, <2>1, <2>2, Here DEF Typed
  <2>4. Kind' = "answer"
    <3>1. BodyPending' \in BOOLEAN /\ owing' \in BOOLEAN /\ begun' \in BOOLEAN
      BY <2>3 DEF Typed, BodyPending
    <3> QED BY <2>1, <3>1, KindIs2, KindValue
  <2>5. waited' = 0
    BY <1>2, <2>4 DEF Clocking
  <2>6. fate' = "none"
    BY <1>1, <2>1, Here
  <2> QED BY <1>2, <1>3, <1>5, <2>1, <2>2, <2>3, <2>5, <2>6
          DEF IInv, Clockwork, Going, Lapsing
<1>6. CASE ~(wd.phase \in {"Head", "Handler"} /\ ~Splices)
  <2>1. stage' = "over" /\ left' = left /\ fate' = "lapsed"
    BY <1>6 DEF Expires, Leave
  <2>2. Typed'
    BY <1>1, <1>4, <2>1, Here DEF Typed
  <2>3. Kind \in {"head", "body"} => wire # <<>> /\ wire[Len(wire)].what \in Errs
    <3>1. ASSUME Kind \in {"head", "body"}
          PROVE  clock.phase = "Head" /\ st # "leaving" /\ clock.wrote_bytes
      <4>1. clock.phase \in {"Head", "Handler"} /\ clock.wrote_bytes
        BY <1>2, <1>6, <3>1 DEF Splices
      <4>2. clock.phase = "Head"
        BY <1>1, <4>1, Here DEF Buffered
      <4> QED BY <1>1, <3>1, <4>1, <4>2, HereKind
    <3> QED BY <1>1, <3>1, Here DEF Buffered
  <2> QED BY <1>1, <1>3, <2>1, <2>2, <2>3 DEF IInv, Clockwork, Going, Lapsing
<1> QED BY <1>5, <1>6

\* The late request is answered, or not in time.
LEMMA AnswersStep ==
    ASSUME IInv, Clocking, Answers
    PROVE  IInv'
<1>1. /\ stage = "answer" /\ stage' = "over" /\ fate' \in {"answered", "unanswered"}
      /\ input' = input /\ clock' = clock /\ wd' = wd /\ st' = st /\ left' = left
      /\ req' = req /\ body' = body /\ resp' = resp /\ outq' = outq /\ owing' = owing
      /\ begun' = begun /\ bodyAge' = bodyAge /\ lapsed' = lapsed
      /\ \/ wire' = wire
         \/ wire' = Append(wire, [req |-> IF wd.phase = "Head" THEN req + 1 ELSE req,
                                  what |-> "408"])
  BY DEF Answers, Leave
<1>2. Typed /\ waited' \in Nat
  BY WaitedTyped DEF IInv
<1>3. wire' \in Seq(OutUnits)
  <2>1. req \in Nat /\ req + 1 \in Nat /\ wire \in Seq(OutUnits)
    BY <1>2, ReqTyped DEF Typed
  <2> QED BY <1>1, <2>1, AppendTyped DEF Whats
<1>4. Typed'
  BY <1>1, <1>2, <1>3 DEF Typed
<1>5. lapsed.due /\ lapsed.kind \in {"head", "body"}
  BY <1>1 DEF IInv, Lapsing
<1> QED BY <1>1, <1>4, <1>5 DEF IInv, Clockwork, Going, Lapsing

\* While nothing is due, the deadlines that bound what is waited for have not
\* run out.
LEMMA NotDue ==
    ASSUME IInv, Served, ~Ready
    PROVE  /\ ~clock.notified
           /\ wd.waits => wd.left > 0 /\ wd.left = ArmFor(clock)
           /\ Kind \in {"idle", "head", "write"} => clock.age < phase_timeout(clock.phase)
           /\ Kind = "body" \/ StreamsOverBody => clock.body_left # None /\ clock.body_left > 0
<1>1. ~clock.notified /\ ~Fired(clock, wd) /\ (st = "leaving" => clock.phase = "Write")
  BY DEF Ready, MustLeave
<1>2. wd \in Watchdogs /\ wd.left \in Nat
  BY Here DEF Typed, Watchdogs
<1>3. wd.waits => wd.left > 0 /\ wd.left = ArmFor(clock)
  BY <1>1, <1>2, Here DEF Fired, Watching
<1>4. ~wd.waits => clock.phase = "Handler" /\ clock.finished
  BY <1>1, Here DEF Watching
<1>5. /\ clock \in Clocks /\ clock.age <= phase_timeout(clock.phase) /\ clock.phase \in Phases
      /\ clock.age \in Nat /\ phase_timeout(clock.phase) \in Nat
      /\ clock.body_left \in Nat \cup {None}
  BY Here, PhaseTimeouts DEF Timed, Clocks
<1>6. CASE clock.phase \in {"Idle", "Head"}
  <2>1. Remaining(clock) > 0 /\ Remaining(clock) = phase_timeout(clock.phase) - clock.age
    BY <1>3, <1>4, <1>5, <1>6, ArmIs
  <2>2. st # "leaving" /\ Kind # "body" /\ ~StreamsOverBody
    BY <1>1, <1>6, Here, HereKind DEF StreamsOverBody, Phased
  <2> QED BY <1>1, <1>3, <1>5, <2>1, <2>2
<1>7. CASE clock.phase = "Handler"
  <2>1. Kind \in {"body", "handler"} /\ ~StreamsOverBody
    BY <1>7, Here, HereKind DEF StreamsOverBody, Phased
  <2>2. ASSUME Kind = "body"
        PROVE  clock.body_left # None /\ clock.body_left > 0
    <3>1. ~clock.finished /\ clock.body_left # None
      BY <1>7, <2>2, Here, HereKind DEF Bodied
    <3>2. ArmFor(clock) = clock.body_left
      BY <1>5, <1>7, <3>1, ArmIs
    <3> QED BY <1>3, <1>4, <3>1, <3>2
  <2> QED BY <1>1, <1>3, <2>1, <2>2
<1>8. CASE clock.phase = "Write"
  <2>1. Kind = "write" /\ wd.waits /\ ArmFor(clock) > 0
    BY <1>3, <1>4, <1>8, HereKind
  <2>2. /\ Remaining(clock) = phase_timeout(clock.phase) - clock.age /\ Remaining(clock) \in Nat
        /\ IF clock.response_streams /\ ~clock.finished /\ clock.body_left # None
           THEN ArmFor(clock) = Least(Remaining(clock), clock.body_left)
           ELSE ArmFor(clock) = Remaining(clock)
    BY <1>5, <1>8, ArmIs
  <2>3. Remaining(clock) > 0
    BY <1>5, <2>1, <2>2 DEF Least
  <2>4. clock.age < phase_timeout(clock.phase)
    BY <1>5, <2>2, <2>3
  <2>5. ASSUME StreamsOverBody
        PROVE  clock.body_left # None /\ clock.body_left > 0
    <3>1. clock.response_streams /\ ~clock.finished /\ clock.body_left # None
      BY <1>8, <2>5, Here DEF Bodied, StreamsOverBody
    <3> QED BY <1>5, <2>1, <2>2, <3>1 DEF Least
  <2> QED BY <1>1, <1>3, <2>1, <2>4, <2>5
<1> QED BY <1>5, <1>6, <1>7, <1>8 DEF Phases

\* Time passes while hyper has the connection.
LEMMA ServedTick ==
    ASSUME IInv, Tick, Served
    PROVE  IInv'
<1>1. /\ ~Ready /\ clock' = Aged(clock) /\ wd' = [wd EXCEPT !.left = AtLeast0(@ - 1)]
      /\ left' = left
      /\ waited' = (IF Kind = "handler" THEN 0 ELSE Least(waited + 1, Bound(Kind) + 1))
      /\ bodyAge' = (IF BodyPending THEN Least(bodyAge + 1, BodyTimeout + 1) ELSE bodyAge)
      /\ input' = input /\ stage' = stage /\ fate' = fate /\ st' = st /\ req' = req
      /\ body' = body /\ resp' = resp /\ outq' = outq /\ wire' = wire /\ owing' = owing
      /\ begun' = begun /\ lapsed' = lapsed
  BY DEF Tick
<1>2. /\ ~clock.notified
      /\ wd.waits => wd.left > 0 /\ wd.left = ArmFor(clock)
      /\ Kind \in {"idle", "head", "write"} => clock.age < phase_timeout(clock.phase)
      /\ Kind = "body" \/ StreamsOverBody => clock.body_left # None /\ clock.body_left > 0
  BY <1>1, NotDue
<1>3. /\ clock \in Clocks /\ clock.age <= phase_timeout(clock.phase) /\ clock.phase \in Phases
      /\ clock.age \in Nat /\ waited \in Nat /\ bodyAge \in Nat /\ wd \in Watchdogs
      /\ wd.left \in Nat /\ BodyTimeout \in Nat /\ clock.body_left \in Nat \cup {None}
  BY Here, TimeoutsAssumption DEF Timed, Clocks, Typed, Watchdogs
<1>4. /\ clock' \in Clocks /\ clock'.phase = clock.phase /\ clock'.detached = clock.detached
      /\ clock'.moved = clock.moved /\ clock'.notified = clock.notified
      /\ clock'.wrote_bytes = clock.wrote_bytes
      /\ clock'.body_done = clock.body_done /\ clock'.finished = clock.finished
      /\ clock'.response_streams = clock.response_streams
      /\ clock'.age <= phase_timeout(clock'.phase)
      /\ clock.age < phase_timeout(clock.phase) => clock'.age = clock.age + 1
      /\ clock.body_left = None <=> clock'.body_left = None
      /\ clock.body_left # None /\ clock.body_left > 0 => clock'.body_left = clock.body_left - 1
      /\ ArmFor(clock) > 0 => ArmFor(clock') = ArmFor(clock) - 1
  BY <1>1, <1>3, AgedIs
<1>5. /\ wd' \in Watchdogs /\ wd'.waits = wd.waits /\ wd'.phase = wd.phase
      /\ wd'.body = wd.body /\ (wd.left > 0 => wd'.left = wd.left - 1)
  <2>1. AtLeast0(wd.left - 1) \in Nat /\ (wd.left > 0 => AtLeast0(wd.left - 1) = wd.left - 1)
    BY <1>3 DEF AtLeast0
  <2> QED BY <1>1, <1>3, <2>1 DEF Watchdogs
<1>6. /\ clock.phase = "Write" => Kind = "write"
      /\ clock.phase # "Write" /\ st = "leaving" => Kind = "handler"
      /\ clock.phase = "Handler" => Kind = IF BodyPending THEN "body" ELSE "handler"
      /\ clock.phase = "Idle" /\ st # "leaving" => Kind = "idle"
      /\ clock.phase = "Head" /\ st # "leaving" => Kind = "head"
  BY HereKind
<1>7. Kind \in {"write", "handler", "body", "idle", "head"}
  BY <1>3, <1>6 DEF Phases
<1>8. waited' \in Nat /\ bodyAge' \in Nat
  <2>1. \A k \in {"write", "body", "idle", "head"} : Bound(k) \in Nat
    BY Bounds, TimeoutsAssumption
  <2> QED BY <1>1, <1>3, <1>7, <2>1 DEF Least
<1>9. \A j : Empty(j)' = Empty(j)
  BY <1>1 DEF Empty, Positions
<1>10. Typed'
  BY <1>1, <1>4, <1>5, <1>8, Here DEF Typed
<1>11. Phased'
  BY <1>1, <1>4, Here DEF Phased, Ready, MustLeave
<1>12. Bodied'
  BY <1>1, <1>4, <1>9, Here DEF Bodied, FullyRead, BodyPending
<1>13. Buffered'
  BY <1>1, <1>4, Here DEF Buffered
<1>14. Watching'
  <2>1. BodyAt(clock') # None <=> BodyAt(clock) # None
    BY <1>4 DEF BodyAt
  <2> QED BY <1>2, <1>3, <1>4, <1>5, <2>1, Here DEF Watching
<1>15. Timed'
  <2>1. Kind' = Kind
    BY <1>1, KindIs, KindIs2 DEF BodyPending
  <2>2. Kind \in {"write", "head", "idle"} => waited = clock.age /\ waited < Bound(Kind)
    <3>1. Kind \in {"write", "head", "idle"} => waited = clock.age
      BY Here DEF Timed
    <3>2. /\ Kind = "write" => clock.phase = "Write"
          /\ Kind = "head" => clock.phase = "Head"
          /\ Kind = "idle" => clock.phase = "Idle"
      BY <1>3, <1>6 DEF Phases
    <3> QED BY <1>2, <3>1, <3>2, PhaseTimeouts, Bounds
  <2>3. Kind \in {"write", "head", "idle"} => waited' = clock'.age
    <3>1. \A k \in {"write", "body", "idle", "head"} : Bound(k) \in Nat
      BY Bounds, TimeoutsAssumption
    <3> QED BY <1>1, <1>2, <1>3, <1>4, <2>2, <3>1 DEF Least
  <2>4. ASSUME Kind = "body" \/ StreamsOverBody
        PROVE  /\ bodyAge' = bodyAge + 1 /\ bodyAge < BodyTimeout
               /\ clock'.body_left = clock.body_left - 1 /\ clock.body_left \in Nat
               /\ bodyAge + clock.body_left = BodyTimeout
    <3>1. bodyAge + clock.body_left = BodyTimeout
      BY <2>4, Here DEF Timed
    <3>2. clock.body_left # None /\ clock.body_left > 0
      BY <1>2, <2>4
    <3>3. BodyPending
      BY <1>3, <1>6, <2>4 DEF StreamsOverBody, Phases
    <3>4. bodyAge < BodyTimeout /\ clock.body_left \in Nat
      BY <1>3, <3>1, <3>2
    <3> QED BY <1>1, <1>3, <1>4, <3>1, <3>2, <3>3, <3>4 DEF Least
  <2>5. Kind = "body" => waited' = bodyAge'
    <3>1. Kind = "body" => waited = bodyAge
      BY Here DEF Timed
    <3> QED BY <1>1, <1>3, <2>4, <3>1, Bounds DEF Least
  <2>6. StreamsOverBody' <=> StreamsOverBody
    BY <1>1 DEF StreamsOverBody, Served, BodyPending
  <2>7. Kind = "body" \/ StreamsOverBody => bodyAge' + clock'.body_left = BodyTimeout
    BY <1>3, <2>4
  <2> QED BY <1>4, <2>1, <2>3, <2>5, <2>6, <2>7 DEF Timed
<1> QED BY <1>1, <1>10, <1>11, <1>12, <1>13, <1>14, <1>15, GoingStep

\* A step that leaves hyper, and its clock, alone while dispatch has the
\* connection.
LEMMA DispatchGoing ==
    ASSUME IInv, stage \in {"tls", "peek"}, stage' \in {"tls", "peek"}, fate' = fate,
           input' = input, hyperVars' = hyperVars, owing' = owing, begun' = begun,
           bodyAge' = bodyAge, lapsed' = lapsed, left' \in Nat, waited' \in Nat,
           waited' + left' = HeaderTimeout
    PROVE  IInv'
<1>1. /\ clock' = clock /\ wd' = wd /\ st' = st /\ req' = req /\ body' = body
      /\ resp' = resp /\ outq' = outq /\ wire' = wire
  BY DEF hyperVars
<1>2. /\ Typed /\ Phased /\ Bodied /\ Buffered /\ Watching /\ Timed /\ Before1 /\ Lapsing
  BY DEF IInv, Clockwork, Going
<1>3. \A j : Empty(j)' = Empty(j)
  BY DEF Empty, Positions
<1>4. Typed'
  BY <1>1, <1>2 DEF Typed
<1>5. Phased' /\ Bodied' /\ Buffered'
  BY <1>1, <1>2, <1>3 DEF Phased, Bodied, Buffered, FullyRead, BodyPending
<1>6. Watching'
  BY <1>1, <1>2, StillWatching
<1>7. Timed'
  <2>1. Kind' = "dispatch"
    <3>1. BodyPending' \in BOOLEAN /\ owing' \in BOOLEAN /\ begun' \in BOOLEAN
      BY <1>4 DEF Typed, BodyPending
    <3> QED BY <3>1, KindIs2, KindValue
  <2>2. ~StreamsOverBody'
    BY DEF StreamsOverBody, Served
  <2> QED BY <1>1, <1>2, <2>1, <2>2 DEF Timed
<1>8. Before1'
  BY <1>1, <1>2 DEF Before1
<1>9. Lapsing'
  BY <1>2 DEF Lapsing, Going
<1> QED BY <1>4, <1>5, <1>6, <1>7, <1>8, <1>9 DEF IInv, Clockwork

\* Time passes before hyper has the connection, or after.
LEMMA UnservedTick ==
    ASSUME IInv, Tick, ~Served
    PROVE  IInv'
<1>1. /\ stage # "over" /\ left > 0 /\ left' = left - 1 /\ clock' = clock /\ wd' = wd
      /\ waited' = (IF Kind = "handler" THEN 0 ELSE Least(waited + 1, Bound(Kind) + 1))
      /\ bodyAge' = bodyAge
      /\ input' = input /\ stage' = stage /\ fate' = fate /\ st' = st /\ req' = req
      /\ body' = body /\ resp' = resp /\ outq' = outq /\ wire' = wire /\ owing' = owing
      /\ begun' = begun /\ lapsed' = lapsed /\ hyperVars' = hyperVars
  BY DEF Tick, hyperVars
<1>2. /\ stage \in {"tls", "peek", "answer"} /\ left \in Nat /\ waited \in Nat /\ Typed
      /\ BodyPending \in BOOLEAN /\ owing \in BOOLEAN /\ begun \in BOOLEAN
  BY <1>1 DEF IInv, Typed, Served, BodyPending
<1>3. left' \in Nat
  BY <1>1, <1>2
<1>4. HeaderTimeout \in Nat /\ WriteTimeout \in Nat
  BY TimeoutsAssumption
<1>5. CASE stage \in {"tls", "peek"}
  <2>1. Kind = "dispatch"
    BY <1>2, <1>5, KindIs, KindValue
  <2>2. waited + left = HeaderTimeout
    BY <1>5 DEF IInv, Clockwork, Going, Before1
  <2>3. waited' = waited + 1
    BY <1>1, <1>2, <1>4, <2>1, <2>2, Bounds DEF Least
  <2>4. waited' \in Nat /\ waited' + left' = HeaderTimeout
    BY <1>1, <1>2, <2>2, <2>3
  <2> QED BY <1>1, <1>3, <1>5, <2>4, DispatchGoing
<1>6. CASE stage = "answer"
  <2>1. Kind = "answer"
    BY <1>2, <1>6, KindIs, KindValue
  <2>2. waited + left = WriteTimeout
    BY <1>6 DEF IInv, Lapsing
  <2>3. waited' = waited + 1
    BY <1>1, <1>2, <1>4, <2>1, <2>2, Bounds DEF Least
  <2>4. waited' \in Nat /\ waited' + left' = WriteTimeout
    BY <1>1, <1>2, <2>2, <2>3
  <2>5. Typed'
    BY <1>1, <1>2, <1>3, <2>4 DEF Typed
  <2> QED BY <1>1, <1>6, <2>4, <2>5 DEF IInv, Clockwork, Going, Lapsing
<1> QED BY <1>2, <1>5, <1>6

\* The peer is told apart, or dispatch gives up on it.
LEMMA DispatchStep ==
    ASSUME IInv, Clocking, DispatchNext, UNCHANGED <<hyperVars, owing, begun, bodyAge, lapsed>>
    PROVE  IInv'
<1>1. /\ stage \in {"tls", "peek"} /\ input' = input /\ left' = left
      /\ stage' \in {"over", "serve"} \/ (stage = "peek" /\ stage' = "peek")
      /\ stage' # "over" => fate' = fate
  <2>1. CASE Handshaken
    BY <2>1 DEF Handshaken, Leave
  <2>2. CASE PeekRead
    <3>1. PICK n \in 1..(Len(Preface) - pos) :
             LET preface == is_h2c_preface(Classes(pos + n)) IN
             /\ stage' = [Http1 |-> "serve", Http2 |-> "over", NeedMore |-> "peek"][preface]
             /\ fate' = IF preface = "Http2" THEN "h2" ELSE fate
      BY <2>2 DEF PeekRead
    <3> DEFINE preface == is_h2c_preface(Classes(pos + n))
    <3>2. preface \in {"Http1", "Http2", "NeedMore"}
      BY DEF is_h2c_preface
    <3> HIDE DEF preface
    <3>3. /\ stage' = [Http1 |-> "serve", Http2 |-> "over", NeedMore |-> "peek"][preface]
          /\ fate' = IF preface = "Http2" THEN "h2" ELSE fate
      BY <3>1 DEF preface
    <3>4. stage = "peek" /\ input' = input /\ left' = left
      BY <2>2 DEF PeekRead, PeekLeft
    <3> QED BY <3>2, <3>3, <3>4
  <2>3. CASE PeekEof
    BY <2>3 DEF PeekEof
  <2>4. CASE DispatchFails \/ DispatchTimeout
    BY <2>4 DEF DispatchFails, DispatchTimeout, Leave
  <2> QED BY <2>1, <2>2, <2>3, <2>4 DEF DispatchNext
<1>2. /\ clock' = clock /\ wd' = wd /\ st' = st /\ req' = req /\ body' = body
      /\ resp' = resp /\ outq' = outq /\ wire' = wire
      /\ owing' = owing /\ begun' = begun /\ bodyAge' = bodyAge /\ lapsed' = lapsed
      /\ hyperVars' = hyperVars
  BY DEF hyperVars
<1>3. /\ Typed /\ Phased /\ Bodied /\ Buffered /\ Watching /\ Timed /\ Before1 /\ Lapsing
  BY <1>1 DEF IInv, Clockwork, Going
<1>4. waited' \in Nat
  BY <1>3, WaitedTyped
<1>5. Typed'
  BY <1>1, <1>2, <1>3, <1>4 DEF Typed
<1>6. Kind = "dispatch"
  <2>1. BodyPending \in BOOLEAN /\ owing \in BOOLEAN /\ begun \in BOOLEAN
    BY <1>3 DEF Typed, BodyPending
  <2> QED BY <1>1, <2>1, KindIs, KindValue
<1>7. BodyPending' \in BOOLEAN /\ owing' \in BOOLEAN /\ begun' \in BOOLEAN
  BY <1>5 DEF Typed, BodyPending
<1>8. CASE stage' = "over"
  BY <1>1, <1>2, <1>5, <1>8, LeavingStep DEF Going
<1>9. CASE stage = "peek" /\ stage' = "peek"
  <2>1. Kind' = "dispatch"
    BY <1>7, <1>9, KindIs2, KindValue
  <2>2. waited' = waited
    BY <1>6, <2>1 DEF Clocking
  <2>3. waited' + left' = HeaderTimeout /\ left' \in Nat
    BY <1>1, <1>3, <2>2 DEF Before1, Typed
  <2> QED BY <1>1, <1>2, <1>4, <1>9, <2>3, DispatchGoing
<1>10. CASE stage' = "serve"
  <2>1. \A j : Empty(j)' = Empty(j)
    BY <1>1 DEF Empty, Positions
  <2>2. Phased' /\ Bodied' /\ Buffered'
    BY <1>1, <1>2, <1>3, <2>1 DEF Phased, Bodied, Buffered, FullyRead, BodyPending
  <2>3. Watching'
    BY <1>2, <1>3, StillWatching
  <2>4. clock.phase = "Idle" /\ st = "wait" /\ clock.age = 0
    BY <1>1, <1>3 DEF Before1
  <2>5. Kind' = "idle" /\ ~StreamsOverBody'
    BY <1>2, <1>5, <1>10, <2>2, <2>4, NextKind DEF Served
  <2>6. waited' = 0
    BY <1>6, <2>5 DEF Clocking
  <2>7. Timed'
    BY <1>2, <1>3, <2>4, <2>5, <2>6 DEF Timed
  <2>8. Before1' /\ Lapsing'
    BY <1>1, <1>2, <1>3, <1>10 DEF Before1, Lapsing, Going
  <2> QED BY <1>5, <2>2, <2>3, <2>7, <2>8 DEF IInv, Clockwork
<1> QED BY <1>1, <1>8, <1>9, <1>10

\* Nothing happens.
LEMMA StutterStep ==
    ASSUME IInv, UNCHANGED vars
    PROVE  IInv'
<1>1. /\ input' = input /\ stage' = stage /\ left' = left /\ fate' = fate
      /\ clock' = clock /\ wd' = wd /\ st' = st /\ req' = req /\ body' = body
      /\ resp' = resp /\ outq' = outq /\ wire' = wire /\ owing' = owing /\ begun' = begun
      /\ waited' = waited /\ bodyAge' = bodyAge /\ lapsed' = lapsed
  BY DEF vars, dispatchVars, hyperVars, history
<1>2. Typed' /\ Lapsing'
  BY <1>1 DEF IInv, Typed, Lapsing, Going
<1>3. ASSUME Going PROVE Phased' /\ Bodied' /\ Buffered' /\ Watching' /\ Timed' /\ Before1'
  <2>1. Phased /\ Bodied /\ Buffered /\ Watching /\ Timed /\ Before1
    BY <1>3 DEF IInv, Clockwork
  <2>2. \A j : Empty(j)' = Empty(j)
    BY <1>1 DEF Empty, Positions
  <2>3. Phased' /\ Bodied' /\ Buffered' /\ Before1'
    BY <1>1, <2>1, <2>2 DEF Phased, Bodied, Buffered, Before1, FullyRead, BodyPending
  <2>4. Watching'
    BY <1>1, <2>1, StillWatching
  <2>5. Kind' = Kind
    BY <1>1, KindIs, KindIs2 DEF BodyPending
  <2>6. StreamsOverBody' <=> StreamsOverBody
    BY <1>1 DEF StreamsOverBody, Served, BodyPending
  <2>7. Timed'
    BY <1>1, <2>1, <2>5, <2>6 DEF Timed
  <2> QED BY <2>1, <2>3, <2>4, <2>7
<1> QED BY <1>1, <1>2, <1>3 DEF IInv, Clockwork, Going

\* The connection as it was accepted.
LEMMA InitIInv == Init => IInv
<1> SUFFICES ASSUME Init PROVE IInv
  OBVIOUS
<1>1. /\ input \in Inputs /\ stage \in {"tls", "peek", "serve"} /\ left = HeaderTimeout
      /\ fate = "none"
  BY DEF Init, DispatchInit
<1>2. /\ clock = NewClock /\ wd = Armed(NewClock) /\ st = "wait" /\ req = 0 /\ body = "none"
      /\ resp = Nothing /\ outq = <<>> /\ wire = <<>> /\ owing = FALSE /\ begun = FALSE
      /\ waited = 0 /\ bodyAge = 0 /\ lapsed.kind = "none" /\ lapsed.due
  BY DEF Init
<1>3. {HeaderTimeout, IdleTimeout, BodyTimeout, WriteTimeout} \subseteq Nat \ {0}
  BY TimeoutsAssumption
<1>4. /\ clock \in Clocks /\ clock.phase = "Idle" /\ clock.age = 0 /\ ~clock.detached
      /\ ~clock.moved /\ ~clock.notified /\ ~clock.wrote_bytes
  BY <1>2 DEF NewClock, Clocks, Phases, None
<1>5. clock.age <= phase_timeout(clock.phase)
  BY <1>3, <1>4, PhaseTimeouts
<1>6. ArmFor(clock) \in Nat
  BY <1>4, <1>5, ArmIs
<1>7. wd = [waits |-> TRUE, phase |-> clock.phase, body |-> BodyAt(clock) # None,
            left |-> ArmFor(clock)]
  BY <1>2 DEF Armed
<1>8. /\ wd \in Watchdogs /\ wd.waits /\ wd.phase = clock.phase
      /\ (wd.body <=> BodyAt(clock) # None) /\ wd.left = ArmFor(clock)
  BY <1>4, <1>6, <1>7 DEF Watchdogs, Phases
<1>9. input.reqs \in Seq(Request) /\ Len(input.reqs) \in Nat
  BY <1>1, HyperAssumption
<1>10. resp \in Responses
  BY <1>2 DEF Nothing, Responses
<1>11. Typed
  <2>1. outq \in Seq(OutUnits) /\ wire \in Seq(OutUnits)
    BY <1>2
  <2>2. req \in 0..Len(input.reqs) /\ left \in Nat /\ waited \in Nat /\ bodyAge \in Nat
    BY <1>1, <1>2, <1>3, <1>9
  <2>3. owing \in BOOLEAN /\ begun \in BOOLEAN
    BY <1>2
  <2>4. /\ st \in {"wait", "leaving", "handler", "respond", "closing", "upgrading"}
        /\ body \in {"none", "open", "read", "failed", "dropped", "stashed"}
    BY <1>2
  <2> QED BY <1>1, <1>4, <1>8, <1>10, <2>1, <2>2, <2>3, <2>4 DEF Typed
<1>12. Phased
  BY <1>2, <1>4 DEF Phased
<1>13. Bodied
  BY <1>2, <1>4 DEF Bodied, FullyRead
<1>14. Buffered
  BY <1>2, <1>4 DEF Buffered
<1>15. Watching
  BY <1>4, <1>8 DEF Watching
<1>16. Timed
  <2>1. BodyPending \in BOOLEAN /\ ~BodyPending
    BY <1>2 DEF BodyPending
  <2>2. Kind \in {"idle", "dispatch"}
    <3>1. owing \in BOOLEAN /\ ~owing /\ begun \in BOOLEAN /\ ~begun
      BY <1>2
    <3>2. st \notin {"leaving", "handler"}
      BY <1>2
    <3>3. CASE stage = "serve"
      BY <2>1, <3>1, <3>2, <3>3, KindIs, KindValue
    <3>4. CASE stage # "serve"
      BY <1>1, <2>1, <3>1, <3>4, KindIs, KindValue
    <3> QED BY <3>3, <3>4
  <2>3. ~StreamsOverBody
    BY <1>2 DEF StreamsOverBody
  <2> QED BY <1>2, <1>4, <1>5, <2>2, <2>3 DEF Timed
<1>17. Before1
  BY <1>1, <1>2, <1>3, <1>4 DEF Before1
<1>18. Lapsing
  BY <1>1, <1>2 DEF Lapsing
<1> QED BY <1>11, <1>12, <1>13, <1>14, <1>15, <1>16, <1>17, <1>18 DEF IInv, Clockwork

\* Every step keeps the clock, the watchdog and hyper's future together.
LEMMA NextIInv == IInv /\ [Next]_vars => IInv'
<1> SUFFICES ASSUME IInv, [Next]_vars PROVE IInv'
  OBVIOUS
<1>1. CASE Step /\ Clocking
  <2>1. CASE DispatchNext /\ UNCHANGED <<hyperVars, owing, begun, bodyAge, lapsed>>
    BY <1>1, <2>1, DispatchStep
  <2>2. CASE \E n \in 1..Len(input.stream) : Read(n)
    BY <1>1, <2>2, ReadStep
  <2>3. CASE ReadEof \/ IoFails \/ StreamFails
    BY <1>1, <2>3, ReadEofStep, LeaveSteps
  <2>4. CASE \E k \in 1..Len(outq) : Write(k)
    BY <1>1, <2>4, WriteStep
  <2>5. CASE Flush
    BY <1>1, <2>5, FlushStep
  <2>6. CASE CallService \/ LeftWrite \/ HyperRefuses \/ Interim
    BY <1>1, <2>6, CallServiceStep, LeftWriteStep, HyperRefusesStep, InterimStep
  <2>7. CASE BodyRead \/ DropBody
    BY <1>1, <2>7, BodySteps
  <2>8. CASE HandlerTimeout
    BY <1>1, <2>8, HandlerTimeoutStep
  <2>9. CASE \E r \in input.reqs[req].replies, leaves \in {"dropped", "stashed", "moved"} :
                HandlerReturns(r, leaves)
    BY <1>1, <2>9, HandlerReturnsStep
  <2>10. CASE PollFull \/ StreamEnds
    BY <1>1, <2>10, EncodedSteps
  <2>11. CASE StreamFrame
    BY <1>1, <2>11, StreamFrameStep
  <2>12. CASE Rearms \/ Parks \/ Expires \/ Answers
    BY <1>1, <2>12, RearmsStep, ParksStep, ExpiresStep, AnswersStep
  <2> QED BY <1>1, <2>1, <2>2, <2>3, <2>4, <2>5, <2>6, <2>7, <2>8, <2>9, <2>10, <2>11, <2>12
          DEF Step
<1>2. CASE Tick
  BY <1>2, ServedTick, UnservedTick
<1>3. CASE UNCHANGED vars
  BY <1>3, StutterStep
<1> QED BY <1>1, <1>2, <1>3 DEF Next, Clocking

\* The clock, the watchdog and where hyper's future is agree, always.
THEOREM HyperInvariant == Spec => []IInv
BY InitIInv, NextIInv, PTL DEF Spec

\* What the invariant says of every wait.
LEMMA IInvOnTime == IInv => OnTime
<1> SUFFICES ASSUME IInv PROVE OnTime
  OBVIOUS
<1>1. Typed /\ Lapsing
  BY DEF IInv
<1>2. /\ BodyPending \in BOOLEAN /\ owing \in BOOLEAN /\ begun \in BOOLEAN /\ waited \in Nat
      /\ left \in Nat /\ bodyAge \in Nat
      /\ stage \in {"tls", "peek", "serve", "answer", "over"}
  BY <1>1 DEF Typed, BodyPending
<1>3. {HeaderTimeout, IdleTimeout, BodyTimeout, WriteTimeout} \subseteq Nat \ {0}
  BY TimeoutsAssumption
<1>4. ASSUME stage # "over", Kind # "handler" PROVE waited <= Bound(Kind)
  <2>1. CASE stage \in {"tls", "peek"}
    <3>1. Kind = "dispatch" /\ waited + left = HeaderTimeout
      BY <1>2, <2>1, KindIs, KindValue DEF IInv, Clockwork, Going, Before1
    <3> QED BY <1>2, <1>3, <3>1, Bounds
  <2>2. CASE stage = "answer"
    <3>1. Kind = "answer" /\ waited + left = WriteTimeout
      BY <1>1, <1>2, <2>2, KindIs, KindValue DEF Lapsing
    <3> QED BY <1>2, <1>3, <3>1, Bounds
  <2>3. CASE Served
    <3>1. /\ Kind \in {"write", "head", "idle", "body"} /\ clock.phase \in Phases
          /\ Kind = "write" <=> clock.phase = "Write"
          /\ Kind = "head" => clock.phase = "Head"
          /\ Kind = "idle" => clock.phase = "Idle"
      BY <1>4, <2>3, Here, HereKind DEF Phases
    <3>2. CASE Kind = "body"
      <4>1. waited = bodyAge /\ bodyAge + clock.body_left = BodyTimeout
        BY <2>3, <3>2, Here DEF Timed
      <4>2. clock.body_left # None
        BY <1>4, <2>3, <3>1, <3>2, Here, HereKind DEF Bodied, Phases
      <4>3. clock.body_left \in Nat
        BY <2>3, <4>2, Here DEF Clocks
      <4> QED BY <1>2, <1>3, <3>2, <4>1, <4>3, Bounds
    <3>3. CASE Kind # "body"
      BY <2>3, <3>1, <3>3, Here, PhaseTimeouts, Bounds DEF Timed
    <3> QED BY <3>2, <3>3
  <2> QED BY <1>2, <1>4, <2>1, <2>2, <2>3 DEF Served
<1>5. ASSUME StreamsOverBody PROVE bodyAge <= BodyTimeout
  <2>1. Served /\ owing
    BY <1>5 DEF StreamsOverBody
  <2>2. bodyAge + clock.body_left = BodyTimeout
    BY <1>5, <2>1, Here DEF Timed
  <2>3. clock.body_left # None
    BY <2>1, Here DEF Bodied, Phased
  <2>4. clock.body_left \in Nat
    BY <2>1, <2>3, Here DEF Clocks
  <2> QED BY <1>2, <1>3, <2>2, <2>4
<1> QED BY <1>1, <1>4, <1>5 DEF OnTime, Lapsing, Errs

\* No wait outlasts the deadline of what is waited for, and the watchdog gives
\* up when that has run out and not before, whatever the timeouts, the inputs
\* and the order in which hyper, the handler and the peer act.
THEOREM EveryWaitIsBounded == Spec => []OnTime
BY HyperInvariant, IInvOnTime, PTL

-----------------------------------------------------------------------------
(* What the peer reads.                                                    *)

\* What may follow unit t, by what it is.
LEMMA FollowsIs ==
    ASSUME NEW t, NEW u
    PROVE  /\ u.what = "100" => (Follows(t, u) <=> t.what \in Finals /\ u.req = t.req + 1)
           /\ u.what \in {"whole", "head", "err1", "408"} =>
                (Follows(t, u) <=> \/ t.what \in Finals /\ u.req = t.req + 1
                                   \/ t.what \in Interims /\ u.req = t.req)
           /\ u.what \in {"data", "end"} =>
                (Follows(t, u) <=> t.what \in {"head", "data"} /\ u.req = t.req)
           /\ u.what = "err2" => (Follows(t, u) <=> t.what = "err1" /\ u.req = t.req)
<1>1. u.what = "100" => (Follows(t, u) <=> t.what \in Finals /\ u.req = t.req + 1)
  BY Zenon DEF Follows
<1>2. u.what \in {"whole", "head", "err1", "408"} =>
        (Follows(t, u) <=> \/ t.what \in Finals /\ u.req = t.req + 1
                           \/ t.what \in Interims /\ u.req = t.req)
  BY Zenon DEF Follows
<1>3. u.what \in {"data", "end"} =>
        (Follows(t, u) <=> t.what \in {"head", "data"} /\ u.req = t.req)
  BY Zenon DEF Follows
<1>4. u.what = "err2" => (Follows(t, u) <=> t.what = "err1" /\ u.req = t.req)
  BY Zenon DEF Follows
<1> QED BY <1>1, <1>2, <1>3, <1>4

\* A unit that begins the answer to request k, or refuses it.
LEMMA Begun ==
    ASSUME NEW t, NEW k \in Nat, Opened(t, k), NEW w \in {"whole", "head", "err1", "408"}
    PROVE  Follows(t, [req |-> k, what |-> w])
<1> DEFINE u == [req |-> k, what |-> w]
<1>1. u.what = w /\ u.req = k
  OBVIOUS
<1> HIDE DEF u
<1>2. \/ t.what \in Finals /\ u.req = t.req + 1
      \/ t.what \in Interims /\ u.req = t.req
  BY <1>1 DEF Opened, Final
<1>3. Follows(t, u)
  BY <1>1, <1>2, FollowsIs
<1> QED BY <1>3 DEF u

\* Behind a final response the next request's may begin.
LEMMA FinalOpens ==
    ASSUME NEW t, NEW k \in Nat, Final(t, k)
    PROVE  Opened(t, k + 1)
<1>1. (k + 1) - 1 = k
  OBVIOUS
<1> QED BY <1>1 DEF Opened

\* One unit more.
LEMMA LinkedAppend ==
    ASSUME NEW s \in Seq(OutUnits), Linked(s), NEW u \in OutUnits, Follows(Tip(s), u)
    PROVE  Linked(Append(s, u)) /\ Tip(Append(s, u)) = u
<1> DEFINE a == Append(s, u)
           first == [req |-> 0, what |-> "whole"]
<1>1. /\ a \in Seq(OutUnits) /\ Len(a) = Len(s) + 1 /\ DOMAIN a = 1..(Len(s) + 1)
      /\ \A i \in 1..Len(s) : a[i] = s[i]
      /\ a[Len(s) + 1] = u /\ Len(s) \in Nat /\ DOMAIN s = 1..Len(s)
  OBVIOUS
<1> HIDE DEF a, first
<1>2. s = <<>> <=> Len(s) = 0
  BY EmptySeq
<1>3. Tip(a) = u
  <2>1. a # <<>>
    BY <1>1
  <2> QED BY <1>1, <2>1 DEF Tip
<1>4. ASSUME NEW i \in DOMAIN a
      PROVE  Follows(IF i = 1 THEN first ELSE a[i - 1], a[i])
  <2>1. CASE i = Len(s) + 1
    <3>1. (IF i = 1 THEN first ELSE a[i - 1]) = Tip(s)
      <4>1. CASE s = <<>>
        BY <1>2, <2>1, <4>1 DEF Tip, first
      <4>2. CASE s # <<>>
        <5>1. i # 1 /\ i - 1 = Len(s) /\ Len(s) \in 1..Len(s)
          BY <1>1, <1>2, <2>1, <4>2
        <5> QED BY <1>1, <4>2, <5>1 DEF Tip
      <4> QED BY <4>1, <4>2
    <3> QED BY <1>1, <2>1, <3>1
  <2>2. CASE i # Len(s) + 1
    <3>1. i \in DOMAIN s /\ a[i] = s[i] /\ (i # 1 => i - 1 \in 1..Len(s))
      BY <1>1, <2>2
    <3>2. i # 1 => a[i - 1] = s[i - 1]
      BY <1>1, <3>1
    <3>3. Follows(IF i = 1 THEN first ELSE s[i - 1], s[i])
      BY <3>1 DEF Linked, first
    <3> QED BY <3>1, <3>2, <3>3
  <2> QED BY <2>1, <2>2
<1>5. Linked(a)
  BY <1>4 DEF Linked, first
<1> QED BY <1>3, <1>5 DEF a

\* What has been written is well linked if all there is to write is.
LEMMA LinkedPrefix ==
    ASSUME NEW w \in Seq(OutUnits), NEW o \in Seq(OutUnits), Linked(w \o o)
    PROVE  Linked(w)
<1> DEFINE s == w \o o
<1>1. /\ DOMAIN w = 1..Len(w) /\ DOMAIN s = 1..(Len(w) + Len(o)) /\ Len(w) \in Nat
      /\ Len(o) \in Nat /\ \A i \in 1..Len(w) : s[i] = w[i]
  OBVIOUS
<1>2. Linked(s)
  OBVIOUS
<1> HIDE DEF s
<1>3. ASSUME NEW i \in DOMAIN w
      PROVE  /\ i \in DOMAIN s /\ s[i] = w[i]
             /\ i # 1 => i - 1 \in 1..Len(w) /\ s[i - 1] = w[i - 1]
  BY <1>1
<1> QED BY <1>2, <1>3 DEF Linked

\* A unit buffered is the last to be written.
LEMMA AppendRight ==
    ASSUME NEW w \in Seq(OutUnits), NEW o \in Seq(OutUnits), NEW u \in OutUnits
    PROVE  w \o Append(o, u) = Append(w \o o, u)
BY AppendIsConcat, ConcatAssociative, SMTT(40)

\* Another unit is buffered.
LEMMA OutAppend ==
    ASSUME Typed, Linked(Out), wire' = wire, NEW u \in OutUnits, outq' = Append(outq, u),
           Follows(Tip(Out), u)
    PROVE  Linked(Out') /\ Tip(Out') = u
<1>1. wire \in Seq(OutUnits) /\ outq \in Seq(OutUnits) /\ Out \in Seq(OutUnits)
  BY DEF Typed, Out
<1>2. wire \o Append(outq, u) = Append(wire \o outq, u)
  BY <1>1, AppendRight
<1>3. Out' = Append(Out, u)
  BY <1>2 DEF Out
<1> QED BY <1>1, <1>3, LinkedAppend

\* With nothing buffered, all there is to write is written.
LEMMA OutEmpty ==
    ASSUME Typed, outq = <<>>
    PROVE  Out = wire
BY ConcatEmptySeq DEF Typed, Out

\* What is written first, and what after it.
LEMMA Regroup ==
    ASSUME NEW w \in Seq(OutUnits), NEW f \in Seq(OutUnits), NEW r \in Seq(OutUnits)
    PROVE  (w \o f) \o r = w \o (f \o r)
<1> DEFINE c == w \o f
           d == f \o r
<1>1. /\ c \in Seq(OutUnits) /\ Len(c) = Len(w) + Len(f)
      /\ d \in Seq(OutUnits) /\ Len(d) = Len(f) + Len(r)
  OBVIOUS
<1>2. /\ \A i \in 1..Len(c) : c[i] = IF i <= Len(w) THEN w[i] ELSE f[i - Len(w)]
      /\ \A i \in 1..Len(d) : d[i] = IF i <= Len(f) THEN f[i] ELSE r[i - Len(f)]
  BY ConcatProperties
<1> QED BY <1>1, <1>2

\* Units change place, and none is lost.
LEMMA OutWrite ==
    ASSUME Typed, NEW k \in 1..Len(outq), wire' = Taken(outq, wire, k), outq' = Rest(outq, k)
    PROVE  Out' = Out
<1>1. wire \in Seq(OutUnits) /\ outq \in Seq(OutUnits)
  BY DEF Typed
<1>2. Len(outq) \in Nat /\ k \in Nat /\ 1 <= k /\ k <= Len(outq)
  BY <1>1
<1> DEFINE f == SubSeq(outq, 1, k)
           r == SubSeq(outq, k + 1, Len(outq))
<1>3. f \in Seq(OutUnits) /\ r \in Seq(OutUnits)
  BY <1>1, <1>2, SubSeqProperties
<1>4. f \o r = outq
  BY <1>1, <1>2, ConcatAdjacentSubSeq, SubSeqFull
<1> HIDE DEF f, r
<1>5. (wire \o f) \o r = wire \o outq
  <2>1. \A w, g, h \in Seq(OutUnits) : (w \o g) \o h = w \o (g \o h)
    BY Regroup
  <2>2. (wire \o f) \o r = wire \o (f \o r)
    BY <1>1, <1>3, <2>1
  <2> QED BY <1>4, <2>2
<1> QED BY <1>5 DEF Out, Taken, Rest, f, r

\* The parts of Chain, while hyper has the connection.
LEMMA ChainHere ==
    ASSUME Chain, Served
    PROVE  Linked(Out) /\ Tips /\ Pending /\ Unframed
BY DEF Chain, Going, Served

\* A step that neither buffers nor writes, and leaves hyper where it was.
LEMMA ChainKept ==
    ASSUME Chain, Going, wire' = wire, outq' = outq, st' = st, req' = req, resp' = resp,
           input' = input, stage' \in {"tls", "peek", "serve", "over"},
           clock'.phase = clock.phase \/ (clock.phase # "Write" /\ clock'.phase = "Head"
                                          /\ st # "closing"),
           clock'.wrote_bytes = clock.wrote_bytes
    PROVE  Chain'
<1>1. Out' = Out
  BY DEF Out
<1>2. Linked(Out) /\ Tips /\ Pending /\ Unframed
  BY DEF Chain
<1>3. Linked(Out')
  BY <1>1, <1>2
<1>4. Tips'
  BY <1>1, <1>2 DEF Tips
<1>5. Pending'
  BY <1>2 DEF Pending
<1>6. Unframed'
  BY <1>2 DEF Unframed
<1> QED BY <1>3, <1>4, <1>5, <1>6 DEF Chain

\* A step that ends the connection and writes nothing.
LEMMA ChainEnds ==
    ASSUME Chain, stage' = "over", wire' = wire, outq' = outq
    PROVE  Chain'
<1>1. Out' = Out
  BY DEF Out
<1> QED BY <1>1 DEF Chain, Going

\* Steps that write nothing and leave hyper where it was.
LEMMA ChainQuiet ==
    ASSUME IInv, Chain, Clocking,
           \/ DispatchNext /\ UNCHANGED <<hyperVars, owing, begun, bodyAge, lapsed>>
           \/ \E n \in 1..Len(input.stream) : Read(n)
           \/ BodyRead \/ DropBody \/ Rearms \/ Parks \/ IoFails \/ StreamFails
    PROVE  Chain'
<1>1. CASE DispatchNext /\ UNCHANGED <<hyperVars, owing, begun, bodyAge, lapsed>>
  <2>1. /\ stage \in {"tls", "peek"} /\ input' = input
        /\ stage' \in {"tls", "peek", "serve", "over"}
    <3>1. CASE PeekRead
      <4>1. PICK n \in 1..(Len(Preface) - pos) :
               LET preface == is_h2c_preface(Classes(pos + n)) IN
               stage' = [Http1 |-> "serve", Http2 |-> "over", NeedMore |-> "peek"][preface]
        BY <3>1 DEF PeekRead
      <4> DEFINE preface == is_h2c_preface(Classes(pos + n))
      <4>2. preface \in {"Http1", "Http2", "NeedMore"}
        BY DEF is_h2c_preface
      <4> HIDE DEF preface
      <4>3. stage' = [Http1 |-> "serve", Http2 |-> "over", NeedMore |-> "peek"][preface]
        BY <4>1 DEF preface
      <4>4. stage = "peek" /\ input' = input
        BY <3>1 DEF PeekRead
      <4> QED BY <4>2, <4>3, <4>4
    <3>2. CASE ~PeekRead
      BY <1>1, <3>2 DEF DispatchNext, Handshaken, PeekEof, DispatchFails, DispatchTimeout, Leave
    <3> QED BY <3>1, <3>2
  <2>2. /\ wire' = wire /\ outq' = outq /\ st' = st /\ req' = req /\ resp' = resp
        /\ clock' = clock
    BY <1>1 DEF hyperVars
  <2> QED BY <2>1, <2>2, ChainKept DEF Going
<1>2. ASSUME NEW n \in 1..Len(input.stream), Read(n) PROVE Chain'
  <2> DEFINE units == IF SocketIsNext THEN Units(pos + 1, pos + n) ELSE SubSeq(buffered, 1, n)
  <2>1. /\ Served /\ wire' = wire /\ outq' = outq /\ st' = st /\ req' = req /\ resp' = resp
        /\ input' = input /\ stage' = stage /\ st # "closing" /\ clock' = note_read(clock, units)
    BY <1>2 DEF Read
  <2> HIDE DEF units
  <2>2. IF clock.phase = "Idle" /\ Begins(units) THEN clock' = set(clock, "Head")
        ELSE clock' = clock
    BY <2>1, Here, NoteReadIs
  <2>3. CASE clock.phase = "Idle" /\ Begins(units)
    <3>1. clock'.phase = "Head" /\ clock'.wrote_bytes = clock.wrote_bytes
      BY <2>1, <2>2, <2>3, Here, SetIs DEF Phases
    <3> QED BY <2>1, <2>3, <3>1, ChainKept DEF Going, Served
  <2>4. CASE ~(clock.phase = "Idle" /\ Begins(units))
    BY <2>1, <2>2, <2>4, ChainKept DEF Going, Served
  <2> QED BY <2>3, <2>4
<1>3. CASE BodyRead \/ DropBody
  <2>1. /\ Served /\ wire' = wire /\ outq' = outq /\ st' = st /\ req' = req /\ resp' = resp
        /\ input' = input /\ stage' = stage
    BY <1>3 DEF BodyRead, DropBody, dispatchVars
  <2>2. clock' = clock \/ clock' = Finished(clock)
    BY <1>3 DEF BodyRead, DropBody
  <2>3. clock'.phase = clock.phase /\ clock'.wrote_bytes = clock.wrote_bytes
    BY <2>1, <2>2, Here, FinishedIs
  <2> QED BY <2>1, <2>3, ChainKept DEF Going, Served
<1>4. CASE Rearms \/ Parks
  <2>1. /\ Served /\ wire' = wire /\ outq' = outq /\ st' = st /\ req' = req /\ resp' = resp
        /\ input' = input /\ stage' = stage
    BY <1>4 DEF Rearms, Parks, dispatchVars
  <2>2. clock' = clock \/ clock' = Watched(clock)
    BY <1>4 DEF Rearms, Parks
  <2>3. clock'.phase = clock.phase /\ clock'.wrote_bytes = clock.wrote_bytes
    BY <2>1, <2>2, Here DEF Watched, Clocks
  <2> QED BY <2>1, <2>3, ChainKept DEF Going, Served
<1>5. CASE IoFails \/ StreamFails
  BY <1>5, ChainEnds DEF IoFails, StreamFails, Leave, hyperVars
<1> QED BY <1>1, <1>2, <1>3, <1>4, <1>5

\* The peer has closed its side.
LEMMA ChainReadEof ==
    ASSUME IInv, Chain, ReadEof
    PROVE  Chain'
<1>1. /\ Served /\ wire' = wire /\ outq' = outq /\ req' = req /\ resp' = resp
      /\ input' = input /\ clock' = clock
  BY DEF ReadEof
<1>2. CASE stage' = "over"
  BY <1>1, <1>2, ChainEnds
<1>3. CASE stage' = stage /\ st' = st
  BY <1>1, <1>3, ChainKept DEF Going, Served
<1>4. CASE stage' = stage /\ st = "wait" /\ st' = "closing"
  <2>1. Linked(Out) /\ Tips /\ Out' = Out
    BY <1>1, ChainHere DEF Out
  <2>2. clock.phase # "Write" => Out = wire
    BY <1>1, <1>4, Here, OutEmpty DEF Buffered
  <2>3. clock.phase # "Write" => Final(Tip(wire), req)
    BY <1>4, <2>1, <2>2 DEF Tips
  <2>4. Tips' /\ Pending' /\ Unframed'
    BY <1>1, <1>4, <2>3 DEF Tips, Pending, Unframed
  <2> QED BY <1>1, <1>4, <2>1, <2>4 DEF Chain, Served
<1> QED BY <1>2, <1>3, <1>4 DEF ReadEof, Leave

\* The transport takes something.
LEMMA ChainWrite ==
    ASSUME IInv, Chain, NEW k \in 1..Len(outq), Write(k)
    PROVE  Chain'
<1>1. /\ Served /\ input' = input /\ stage' = stage /\ st' = st /\ req' = req /\ resp' = resp
      /\ wire' = Taken(outq, wire, k) /\ outq' = Rest(outq, k)
      /\ clock' = note_write(clock)
  BY DEF Write, dispatchVars, Taken, Rest
<1>2. Typed /\ outq \in Seq(OutUnits) /\ wire \in Seq(OutUnits)
  BY <1>1, Here DEF Typed
<1>3. Out' = Out
  BY <1>1, <1>2, OutWrite
<1>4. /\ clock'.phase = clock.phase
      /\ clock'.wrote_bytes <=> clock.wrote_bytes \/ clock.phase \in {"Write", "Head"}
  BY <1>1, Here, NoteWriteIs
<1>5. /\ wire' \in Seq(OutUnits) /\ outq' \in Seq(OutUnits) /\ Len(outq') = Len(outq) - k
  <2>1. SentOf(outq, wire, k, wire', outq')
    BY <1>1, <1>2, Sent
  <2> QED BY <2>1 DEF SentOf
<1>6. Linked(Out) /\ Tips /\ Pending /\ Unframed
  BY <1>1, ChainHere
<1>7. Tips' /\ Unframed'
  BY <1>1, <1>3, <1>6 DEF Tips, Unframed
<1>8. ASSUME st \in {"leaving", "handler"}, clock.phase # "Write"
      PROVE  outq' = <<>> /\ Opened(Tip(wire'), req')
  <2>1. outq = <<>> \/ outq = <<[req |-> req, what |-> "100"]>>
    BY <1>6, <1>8 DEF Pending
  <2>2. Len(outq) <= 1
    <3> DEFINE u == [req |-> req, what |-> "100"]
    <3> HIDE DEF u
    <3>1. Len(<<u>>) = 1 /\ Len(<< >>) = 0
      OBVIOUS
    <3>2. outq = <<>> \/ outq = <<u>>
      BY <2>1 DEF u
    <3>3. Len(outq) = 0 \/ Len(outq) = 1
      BY <3>1, <3>2, Zenon
    <3> QED BY <3>3
  <2>3. Len(outq') = 0
    BY <1>2, <1>5, <2>2
  <2>4. outq' = <<>>
    BY <1>5, <2>3, EmptySeq
  <2>5. Out' = wire'
    BY <1>5, <2>4, ConcatEmptySeq DEF Out
  <2>6. Opened(Tip(Out'), req')
    BY <1>1, <1>7, <1>8 DEF Tips
  <2> QED BY <2>4, <2>5, <2>6
<1>9. Pending'
  BY <1>1, <1>4, <1>8 DEF Pending
<1> QED BY <1>1, <1>3, <1>6, <1>7, <1>9 DEF Chain, Served

\* All that was buffered is out.
LEMMA ChainFlush ==
    ASSUME IInv, Chain, Flush
    PROVE  Chain'
<1>1. /\ Served /\ outq = <<>> /\ wire' = wire /\ outq' = outq /\ st' = st /\ req' = req
      /\ resp' = resp /\ input' = input
  BY DEF Flush
<1>2. Out = wire /\ Out' = Out
  BY <1>1, Here, OutEmpty DEF Out
<1>3. Linked(Out) /\ Tips /\ Pending /\ Unframed
  BY <1>1, ChainHere
<1>4. CASE st \in {"closing", "upgrading"}
  BY <1>1, <1>4, ChainEnds DEF Flush, Leave
<1>5. CASE st \notin {"closing", "upgrading"}
  <2>1. stage' = stage
    BY <1>5 DEF Flush
  <2>2. Tips' /\ Unframed'
    BY <1>1, <1>2, <1>3 DEF Tips, Unframed
  <2>3. st \in {"leaving", "handler"} => Opened(Tip(wire), req)
    BY <1>2, <1>3 DEF Tips
  <2>4. Pending'
    BY <1>1, <1>5, <2>3 DEF Pending
  <2> QED BY <1>1, <1>2, <1>3, <2>1, <2>2, <2>4 DEF Chain, Served
<1> QED BY <1>4, <1>5

\* A response is handed over, while the one before it is whole.
LEMMA ChainHand ==
    ASSUME IInv, Chain, Served, NEW k \in Nat, Opened(Tip(Out), k),
           NEW encode \in {"none", "full", "stream"}, NEW then \in {"wait", "closing", "upgrading"},
           Hand(k, encode, then), input' = input, stage' = stage, req' = k, wire' = wire,
           clock'.phase = "Write",
           encode = "stream" /\ input.reqs[k].version = "1.0" => then # "wait"
    PROVE  Chain'
<1> DEFINE w == IF encode = "none" THEN "whole" ELSE "head"
           u == [req |-> k, what |-> w]
<1>1. /\ outq' = Append(outq, u)
      /\ resp' = [encode |-> encode, then |-> then, frames |-> 0, streams |-> encode = "stream"]
      /\ st' = IF encode = "none" THEN then ELSE "respond"
  BY DEF Hand
<1>2. w \in {"whole", "head"} /\ (w = "whole" <=> encode = "none")
  OBVIOUS
<1> HIDE DEF w
<1>3. u \in OutUnits /\ u.what = w /\ u.req = k
  BY <1>2 DEF OutUnits, Whats
<1>4. Follows(Tip(Out), u)
  BY <1>2, Begun
<1> HIDE DEF u
<1>5. Linked(Out') /\ Tip(Out') = u
  BY <1>1, <1>3, <1>4, Here, ChainHere, OutAppend
<1>6. Tips'
  BY <1>1, <1>2, <1>3, <1>5 DEF Tips, Final, Finals
<1>7. Pending'
  BY DEF Pending
<1>8. Unframed'
  BY <1>1 DEF Unframed
<1> QED BY <1>5, <1>6, <1>7, <1>8 DEF Chain, Served

\* The handler's window opens for request k, or closes at once.
LEMMA ChainEnter ==
    ASSUME IInv, Chain, Served, NEW k \in Nat, Enter(k), Opened(Tip(Out), k), input' = input,
           stage' = stage, req' = k, wire' = wire,
           outq = <<>> \/ outq = <<[req |-> k, what |-> "100"]>>, Opened(Tip(wire), k)
    PROVE  Chain'
<1> DEFINE c == set_body_deadline(set(clock, "Handler"))
<1>1. c \in Clocks /\ c.phase = "Handler" /\ ~c.detached
  BY Here, SetIs, BodyDeadlineIs DEF Phases
<1>2. CASE input.reqs[k].refuse = "bridge"
  <2>1. clock' = note_body_end(set(c, "Write")) /\ Hand(k, "none", "closing")
    BY <1>2 DEF Enter, reject
  <2> HIDE DEF c
  <2>2. clock'.phase = "Write"
    BY <1>1, <2>1, SetIs, BodyEndIs DEF Phases
  <2> QED BY <2>1, <2>2, ChainHand
<1>3. CASE input.reqs[k].refuse # "bridge"
  <2>1. /\ clock' = IF Empty(k) THEN Finished(c) ELSE c
        /\ st' = "handler" /\ outq' = outq
    BY <1>3 DEF Enter, Empty
  <2>2. Out' = Out
    BY <2>1 DEF Out
  <2>3. Linked(Out)
    BY ChainHere
  <2>4. Tips' /\ Unframed'
    BY <2>1, <2>2 DEF Tips, Unframed
  <2>5. Pending'
    BY <2>1 DEF Pending
  <2> QED BY <2>2, <2>3, <2>4, <2>5 DEF Chain, Served
<1> QED BY <1>2, <1>3

\* hyper calls the bridge, or the bridge waits no longer.
LEMMA ChainCalls ==
    ASSUME IInv, Chain, CallService \/ LeftWrite
    PROVE  Chain'
<1>1. /\ Served /\ input' = input /\ stage' = stage /\ wire' = wire
  BY DEF CallService, LeftWrite, dispatchVars
<1>2. req \in Nat /\ Typed
  BY <1>1, Here, ReqTyped
<1>3. Linked(Out) /\ Tips /\ Pending /\ Unframed
  BY <1>1, ChainHere
<1>4. CASE CallService
  <2>1. st = "wait" /\ req' = req + 1
    BY <1>4 DEF CallService
  <2>2. Opened(Tip(Out), req + 1)
    BY <1>2, <1>3, <2>1, FinalOpens DEF Tips
  <2>3. CASE MustLeave
    <3>1. st' = "leaving" /\ clock' = clock /\ outq' = outq /\ clock.phase = "Write"
      BY <1>4, <2>3 DEF CallService, MustLeave
    <3>2. Out' = Out
      BY <1>1, <3>1 DEF Out
    <3>3. Tips' /\ Pending' /\ Unframed'
      BY <2>1, <2>2, <3>1, <3>2 DEF Tips, Pending, Unframed
    <3> QED BY <1>1, <1>3, <3>2, <3>3 DEF Chain, Served
  <2>4. CASE ~MustLeave
    <3>1. Enter(req + 1) /\ clock.phase # "Write"
      BY <1>4, <2>4 DEF CallService, MustLeave
    <3>2. outq = <<>>
      BY <1>1, <2>1, <3>1, Here DEF Buffered
    <3>3. Out = wire
      BY <1>2, <3>2, OutEmpty
    <3>4. req + 1 \in Nat
      BY <1>2
    <3> QED BY <1>1, <2>1, <2>2, <3>1, <3>2, <3>3, <3>4, ChainEnter
  <2> QED BY <2>3, <2>4
<1>5. CASE LeftWrite
  <2>1. st = "leaving" /\ req' = req /\ Enter(req) /\ clock.phase # "Write"
    BY <1>5 DEF LeftWrite, MustLeave
  <2>2. /\ Opened(Tip(Out), req) /\ Opened(Tip(wire), req)
        /\ outq = <<>> \/ outq = <<[req |-> req, what |-> "100"]>>
    BY <1>3, <2>1 DEF Tips, Pending
  <2> QED BY <1>1, <1>2, <2>1, <2>2, ChainEnter
<1> QED BY <1>4, <1>5

\* hyper answers a head itself.
LEMMA ChainHyperRefuses ==
    ASSUME IInv, Chain, HyperRefuses
    PROVE  Chain'
<1> DEFINE u == [req |-> req + 1, what |-> "err1"]
           v == [req |-> req + 1, what |-> "err2"]
<1>1. /\ Served /\ st = "wait" /\ outq' = outq \o <<u, v>> /\ st' = "closing"
      /\ input' = input /\ stage' = stage /\ clock' = clock /\ req' = req /\ wire' = wire
  BY DEF HyperRefuses, dispatchVars
<1>2. req \in Nat /\ req + 1 \in Nat /\ Typed /\ outq \in Seq(OutUnits) /\ wire \in Seq(OutUnits)
  BY <1>1, Here, ReqTyped DEF Typed
<1>3. Linked(Out) /\ Tips /\ Out \in Seq(OutUnits)
  BY <1>1, <1>2, ChainHere DEF Out
<1>4. /\ u \in OutUnits /\ v \in OutUnits /\ u.what = "err1" /\ v.what = "err2"
      /\ u.req = v.req
  BY <1>2 DEF OutUnits, Whats
<1>5. Follows(Tip(Out), u)
  <2>1. Opened(Tip(Out), req + 1)
    BY <1>1, <1>2, <1>3, FinalOpens DEF Tips
  <2> QED BY <1>2, <2>1, Begun
<1> HIDE DEF u, v
<1>6. Follows(u, v)
  BY <1>4, FollowsIs
<1>7. Linked(Append(Out, u)) /\ Tip(Append(Out, u)) = u /\ Append(Out, u) \in Seq(OutUnits)
  BY <1>3, <1>4, <1>5, LinkedAppend
<1>8. Linked(Append(Append(Out, u), v))
  BY <1>4, <1>6, <1>7, LinkedAppend
<1>9. wire \o (outq \o <<u, v>>) = Append(Append(wire \o outq, u), v)
  <2> DEFINE o == Append(outq, u)
  <2>1. outq \o <<u, v>> = Append(o, v)
    BY <1>2, <1>4
  <2>2. o \in Seq(OutUnits) /\ wire \o o = Append(wire \o outq, u)
    BY <1>2, <1>4, AppendRight
  <2> HIDE DEF o
  <2>3. wire \o Append(o, v) = Append(wire \o o, v)
    BY <1>2, <1>4, <2>2, AppendRight
  <2> QED BY <2>1, <2>2, <2>3
<1>10. Linked(Out')
  BY <1>1, <1>8, <1>9 DEF Out
<1>11. clock.phase # "Write" => Final(Tip(wire), req)
  <2>1. clock.phase # "Write" => Out = wire
    BY <1>1, <1>2, Here, OutEmpty DEF Buffered
  <2> QED BY <1>1, <1>3, <2>1 DEF Tips
<1>12. Tips' /\ Pending' /\ Unframed'
  BY <1>1, <1>11 DEF Tips, Pending, Unframed
<1> QED BY <1>1, <1>10, <1>12 DEF Chain, Served

\* hyper asks for the body.
LEMMA ChainInterim ==
    ASSUME IInv, Chain, Interim, ~SplitInterim
    PROVE  Chain'
<1> DEFINE u == [req |-> req, what |-> "100"]
<1>1. /\ Served /\ st \in {"leaving", "handler"} /\ st' = st /\ resp' = resp
      /\ input' = input /\ stage' = stage /\ clock' = clock /\ req' = req /\ wire' = wire
      /\ outq' = outq \o <<u>>
  BY DEF Interim, dispatchVars
<1>2. \A i \in DOMAIN Out : Out[i].req = req => Out[i].what \notin {"100", "100a", "100b"}
  BY DEF Interim, Out
<1>3. req \in Nat /\ Typed /\ outq \in Seq(OutUnits) /\ wire \in Seq(OutUnits)
      /\ Out \in Seq(OutUnits)
  BY <1>1, Here, ReqTyped DEF Typed, Out
<1>4. Linked(Out) /\ Tips /\ Pending /\ Unframed
  BY <1>1, ChainHere
<1>5. u \in OutUnits /\ u.what = "100" /\ u.req = req
  BY <1>3 DEF OutUnits, Whats
<1> HIDE DEF u
<1>6. Final(Tip(Out), req - 1)
  <2>1. Opened(Tip(Out), req)
    BY <1>1, <1>4 DEF Tips
  <2>2. CASE Out = <<>>
    BY <2>1, <2>2 DEF Opened, Tip, Interims
  <2>3. CASE Out # <<>>
    <3>1. Len(Out) \in DOMAIN Out
      BY <1>3, <2>3, EmptySeq
    <3>2. Tip(Out) = Out[Len(Out)]
      BY <2>3 DEF Tip
    <3> QED BY <1>2, <2>1, <3>1, <3>2 DEF Opened, Interims
  <2> QED BY <2>2, <2>3
<1>7. Follows(Tip(Out), u)
  <2>1. Tip(Out).what \in Finals /\ u.req = Tip(Out).req + 1
    BY <1>3, <1>5, <1>6 DEF Final
  <2> QED BY <1>5, <2>1, FollowsIs
<1>8. outq' = Append(outq, u)
  BY <1>1, <1>3, <1>5
<1>9. Linked(Out') /\ Tip(Out') = u
  BY <1>1, <1>3, <1>4, <1>5, <1>7, <1>8, OutAppend
<1>10. ASSUME clock.phase # "Write"
       PROVE  outq' = <<u>> /\ Opened(Tip(wire), req)
  <2>1. /\ outq = <<>> \/ outq = <<u>>
        /\ Opened(Tip(wire), req)
    BY <1>1, <1>4, <1>10 DEF Pending, u
  <2>2. outq # <<u>>
    <3>1. SUFFICES ASSUME outq = <<u>> PROVE FALSE
      OBVIOUS
    <3>2. Out = Append(wire, u)
      BY <1>3, <1>5, <3>1 DEF Out
    <3>3. Len(wire) + 1 \in DOMAIN Out /\ Out[Len(wire) + 1] = u
      BY <1>3, <1>5, <3>2
    <3> QED BY <1>2, <1>5, <3>3
  <2>3. outq = <<>>
    BY <2>1, <2>2
  <2>4. Append(<< >>, u) = <<u>>
    OBVIOUS
  <2> QED BY <1>8, <2>1, <2>3, <2>4
<1>11. Tips'
  BY <1>1, <1>5, <1>9 DEF Tips, Opened, Interims
<1>12. Pending'
  <2>1. u' = u
    BY <1>1 DEF u
  <2> QED BY <1>1, <1>10, <2>1 DEF Pending, u
<1>13. Unframed'
  BY <1>1, <1>4 DEF Unframed
<1> QED BY <1>1, <1>9, <1>11, <1>12, <1>13 DEF Chain, Served

\* The handler has returned, or run out of time.
LEMMA ChainReturns ==
    ASSUME IInv, Chain,
           HandlerTimeout \/ (/\ st = "handler"
                              /\ \E r \in input.reqs[req].replies,
                                    leaves \in {"dropped", "stashed", "moved"} :
                                    HandlerReturns(r, leaves))
    PROVE  Chain'
<1>1. /\ Served /\ st = "handler" /\ input' = input /\ stage' = stage /\ req' = req
      /\ wire' = wire
  BY ZenonT(60) DEF HandlerTimeout, HandlerReturns, dispatchVars
<1>2. req \in Nat /\ clock \in Clocks /\ ~clock.detached
  BY <1>1, Here, ReqTyped
<1>3. Opened(Tip(Out), req)
  BY <1>1, ChainHere DEF Tips
<1>4. Finished(clock) \in Clocks /\ ~Finished(clock).detached
  BY <1>2, FinishedIs
<1>5. CASE HandlerTimeout
  <2> DEFINE c == IF body = "open" THEN Finished(clock) ELSE clock
  <2>1. clock' = note_body_end(set(c, "Write")) /\ Hand(req, "none", "closing")
    BY <1>5 DEF HandlerTimeout, reject
  <2>2. c \in Clocks /\ ~c.detached
    BY <1>2, <1>4
  <2> HIDE DEF c
  <2>3. clock'.phase = "Write"
    BY <2>1, <2>2, SetIs, BodyEndIs DEF Phases
  <2> QED BY <1>1, <1>2, <1>3, <2>1, <2>3, ChainHand
<1>6. ASSUME NEW r \in input.reqs[req].replies, NEW leaves \in {"dropped", "stashed", "moved"},
             HandlerReturns(r, leaves)
      PROVE  Chain'
  <2> DEFINE q == input.reqs[req]
             impossible == r.status = "bad" \/ (r.status = "101" /\ ~q.upgrade)
             status == IF impossible THEN "500" ELSE r.status
             sends == IF impossible THEN "none" ELSE r.body
             upgrading == status = "101" /\ FullyRead
             written == sends # "none" /\ ~q.head /\ status \notin {"101", "204"}
             encode == IF written THEN sends ELSE "none"
             streams == encode = "stream"
             keep == /\ q.keep_alive /\ FullyRead /\ ~impossible
                     /\ ~(q.version = "1.0" /\ streams)
                     /\ ~r.close
             after == IF body # "open" THEN body
                      ELSE IF leaves = "stashed" THEN "stashed"
                      ELSE IF leaves = "moved" /\ streams THEN "open"
                      ELSE "dropped"
             b == IF after = "dropped" /\ body = "open" THEN Finished(clock) ELSE clock
             c == set_response_streams(set(b, "Write"), streams)
             then == IF upgrading THEN "upgrading" ELSE IF keep THEN "wait" ELSE "closing"
  <2>1. /\ clock' = (IF encode = "none" THEN note_body_end(c) ELSE c)
        /\ Hand(req, encode, then)
    BY <1>6 DEF HandlerReturns
  <2>2. r \in Reply
    <3>1. input.reqs \in Seq(Request) /\ req \in DOMAIN input.reqs
      BY <1>1, Here, ReqTyped DEF Phased
    <3>2. input.reqs[req] \in Request
      BY <3>1
    <3>3. input.reqs[req].replies \subseteq Reply
      BY <3>2 DEF Request
    <3> QED BY <3>3
  <2>3. encode \in {"none", "full", "stream"} /\ streams \in BOOLEAN
    BY <2>2 DEF Reply
  <2>4. then \in {"wait", "closing", "upgrading"}
    OBVIOUS
  <2>5. encode = "stream" /\ q.version = "1.0" => then # "wait"
    OBVIOUS
  <2>6. b \in Clocks /\ ~b.detached
    BY <1>2, <1>4
  <2> HIDE DEF impossible, status, sends, upgrading, written, encode, streams, keep, after,
               then, b
  <2>7. c \in Clocks /\ c.phase = "Write"
    BY <2>3, <2>6, SetIs, StreamsIs DEF Phases
  <2> HIDE DEF c
  <2>8. clock'.phase = "Write"
    BY <2>1, <2>7, BodyEndIs
  <2> QED BY <1>1, <1>2, <1>3, <2>1, <2>3, <2>4, <2>5, <2>8, ChainHand
<1> QED BY <1>5, <1>6

\* hyper encodes more of a response's body, or its end.
LEMMA ChainEncodes ==
    ASSUME IInv, Chain, PollFull \/ StreamFrame \/ StreamEnds
    PROVE  Chain'
<1>1. /\ Served /\ st = "respond" /\ input' = input /\ stage' = stage /\ req' = req
      /\ wire' = wire
  BY DEF PollFull, StreamFrame, StreamEnds, dispatchVars
<1>2. /\ req \in Nat /\ Typed /\ resp \in Responses /\ clock.phase = "Write"
      /\ resp.then \in {"wait", "closing", "upgrading"}
  BY <1>1, Here, ReqTyped DEF Typed, Phased, Responses
<1>3. /\ Linked(Out) /\ Unframed
      /\ Tip(Out).what \in {"head", "data"} /\ Tip(Out).req = req
  BY <1>1, ChainHere DEF Tips
<1>4. ASSUME NEW w \in {"data", "end"}, outq' = Append(outq, [req |-> req, what |-> w])
      PROVE  /\ Linked(Out') /\ Tip(Out').what = w /\ Tip(Out').req = req
  <2> DEFINE u == [req |-> req, what |-> w]
  <2>1. u \in OutUnits /\ u.what = w /\ u.req = req /\ outq' = Append(outq, u)
    BY <1>2, <1>4 DEF OutUnits, Whats
  <2> HIDE DEF u
  <2>2. Follows(Tip(Out), u)
    BY <1>3, <2>1, FollowsIs
  <2> QED BY <1>1, <1>2, <1>3, <2>1, <2>2, OutAppend
<1>5. clock'.phase = "Write"
  <2>1. \/ clock' = clock \/ clock' = note_body_end(clock)
        \/ clock' = note_body_end(Finished(clock))
    BY DEF PollFull, StreamFrame, StreamEnds
  <2>2. clock \in Clocks
    BY <1>1, Here
  <2> QED BY <1>2, <2>1, <2>2, FinishedIs, BodyEndIs
<1>6. CASE StreamFrame
  <2>1. /\ outq' = Append(outq, [req |-> req, what |-> "data"]) /\ st' = st
        /\ resp' = [resp EXCEPT !.frames = @ + 1]
    BY <1>6 DEF StreamFrame
  <2>2. Linked(Out') /\ Tip(Out').what = "data" /\ Tip(Out').req = req
    BY <1>4, <2>1
  <2>3. resp'.encode = resp.encode /\ resp'.then = resp.then
    BY <1>2, <2>1 DEF Responses
  <2>4. Tips' /\ Pending' /\ Unframed'
    BY <1>1, <1>3, <1>5, <2>1, <2>2, <2>3 DEF Tips, Pending, Unframed
  <2> QED BY <1>1, <2>2, <2>4 DEF Chain, Served
<1>7. CASE PollFull \/ StreamEnds
  <2>1. /\ st' = resp.then
        /\ \/ outq' = Append(outq, [req |-> req, what |-> "end"])
           \/ /\ outq' = outq /\ input.reqs[req].version = "1.0" /\ resp.encode = "stream"
    BY <1>7 DEF PollFull, StreamEnds
  <2>2. CASE outq' = Append(outq, [req |-> req, what |-> "end"])
    <3>1. Linked(Out') /\ Tip(Out').what = "end" /\ Tip(Out').req = req
      BY <1>4, <2>2
    <3>2. Tips' /\ Pending' /\ Unframed'
      BY <1>1, <1>2, <1>5, <2>1, <3>1 DEF Tips, Pending, Unframed, Final, Finals
    <3> QED BY <1>1, <3>1, <3>2 DEF Chain, Served
  <2>3. CASE outq' = outq /\ input.reqs[req].version = "1.0" /\ resp.encode = "stream"
    <3>1. resp.then # "wait"
      BY <1>1, <1>3, <2>3 DEF Unframed
    <3>2. Out' = Out
      BY <1>1, <2>3 DEF Out
    <3>3. Tips' /\ Pending' /\ Unframed'
      BY <1>2, <1>5, <2>1, <3>1 DEF Tips, Pending, Unframed
    <3> QED BY <1>1, <1>3, <3>2, <3>3 DEF Chain, Served
  <2> QED BY <2>1, <2>2, <2>3
<1> QED BY <1>6, <1>7

\* The watchdog gives up: nothing of a final response has gone out where it
\* goes on to answer.
LEMMA ChainExpires ==
    ASSUME IInv, Chain, Expires
    PROVE  Chain'
<1>1. /\ Served /\ Fired(clock, wd) /\ Verdict(clock, wd) = "expired" /\ outq' = <<>>
      /\ wire' = wire /\ wd' = wd /\ req' = req
  BY DEF Expires
<1>2. Typed /\ wire \in Seq(OutUnits) /\ outq \in Seq(OutUnits)
  BY <1>1, Here DEF Typed
<1>3. Linked(Out) /\ Tips /\ Pending
  BY <1>1, ChainHere
<1>4. Linked(Out')
  <2>1. Linked(wire)
    BY <1>2, <1>3, LinkedPrefix DEF Out
  <2>2. Out' = wire
    BY <1>1, <1>2, ConcatEmptySeq DEF Out
  <2> QED BY <2>1, <2>2
<1>5. CASE stage' = "over"
  BY <1>4, <1>5 DEF Chain, Going
<1>6. CASE wd.phase \in {"Head", "Handler"} /\ ~Splices /\ stage' = "answer"
  <2>1. /\ wd.phase = clock.phase /\ ~clock.wrote_bytes
        /\ (Kind = "head" <=> wd.phase = "Head")
    BY <1>1, <1>6, Due DEF Splices
  <2>2. ASSUME wd.phase = "Head" PROVE Final(Tip(wire), req)
    <3>1. st \in {"wait", "closing"}
      BY <1>1, <1>2, <2>1, <2>2, Here, HereKind DEF Phased, Typed
    <3>2. CASE st = "wait"
      <4>1. Out = wire
        BY <1>1, <1>2, <2>1, <2>2, <3>2, Here, OutEmpty DEF Buffered
      <4> QED BY <1>3, <3>2, <4>1 DEF Tips
    <3>3. CASE st = "closing"
      BY <1>3, <2>1, <2>2, <3>3 DEF Pending
    <3> QED BY <3>1, <3>2, <3>3
  <2>3. ASSUME wd.phase = "Handler" PROVE Opened(Tip(wire), req)
    <3>1. st = "handler" /\ clock.phase # "Write"
      BY <1>1, <2>1, <2>3, Here DEF Phased
    <3> QED BY <1>3, <3>1 DEF Pending
  <2>4. Answering'
    BY <1>1, <1>6, <2>2, <2>3 DEF Answering
  <2> QED BY <1>4, <1>6, <2>4 DEF Chain, Going
<1> QED BY <1>5, <1>6 DEF Expires, Leave

\* The 408 goes out behind what the peer has read.
LEMMA ChainAnswers ==
    ASSUME IInv, Chain, Answers
    PROVE  Chain'
<1>1. stage = "answer" /\ stage' = "over" /\ outq' = outq /\ Typed
  BY DEF Answers, Leave, IInv
<1>2. Answering /\ Linked(Out)
  BY <1>1 DEF Chain
<1>3. outq = <<>> /\ wire \in Seq(OutUnits) /\ req \in Nat
  BY <1>1, <1>2, ReqTyped DEF Answering, Typed
<1>4. Out = wire
  BY <1>1, <1>3, OutEmpty
<1> DEFINE k == IF wd.phase = "Head" THEN req + 1 ELSE req
           u == [req |-> k, what |-> "408"]
<1>5. k \in Nat /\ Opened(Tip(wire), k)
  <2>1. CASE wd.phase = "Head"
    BY <1>2, <1>3, <2>1, FinalOpens DEF Answering
  <2>2. CASE wd.phase # "Head"
    BY <1>2, <1>3, <2>2 DEF Answering
  <2> QED BY <2>1, <2>2
<1>6. wire' = wire \/ wire' = Append(wire, u)
  BY DEF Answers
<1> HIDE DEF k
<1>7. u \in OutUnits /\ Follows(Tip(wire), u)
  BY <1>5, Begun DEF OutUnits, Whats
<1> HIDE DEF u
<1>8. Linked(wire')
  BY <1>2, <1>3, <1>4, <1>6, <1>7, LinkedAppend
<1>9. Out' = wire'
  <2>1. wire' \in Seq(OutUnits)
    BY <1>3, <1>6, <1>7
  <2> QED BY <1>1, <1>3, <2>1, ConcatEmptySeq DEF Out
<1> QED BY <1>1, <1>8, <1>9 DEF Chain, Going

\* Time passes, or nothing does.
LEMMA ChainTick ==
    ASSUME IInv, Chain, Tick \/ UNCHANGED vars
    PROVE  Chain'
<1>1. /\ wire' = wire /\ outq' = outq /\ st' = st /\ req' = req /\ resp' = resp
      /\ input' = input /\ stage' = stage
  BY DEF Tick, vars, dispatchVars, hyperVars
<1>2. wd'.phase = wd.phase
  <2>1. wd \in Watchdogs
    BY DEF IInv, Typed
  <2>2. wd' = wd \/ wd' = [wd EXCEPT !.left = AtLeast0(@ - 1)]
    BY DEF Tick, vars, hyperVars
  <2> QED BY <2>1, <2>2 DEF Watchdogs
<1>3. clock'.phase = clock.phase /\ clock'.wrote_bytes = clock.wrote_bytes
  <2>1. clock \in Clocks
    BY DEF IInv, Typed
  <2>2. clock' = clock \/ clock' = Aged(clock)
    BY DEF Tick, vars, hyperVars
  <2> QED BY <2>1, <2>2 DEF Aged, Clocks
<1>4. Out' = Out
  BY <1>1 DEF Out
<1>5. CASE Going
  BY <1>1, <1>3, <1>5, ChainKept DEF Going
<1>6. CASE ~Going
  BY <1>1, <1>2, <1>4, <1>6 DEF Chain, Going, Answering
<1> QED BY <1>5, <1>6

\* Nothing has been written.
LEMMA InitChain == Init => Chain
<1> SUFFICES ASSUME Init PROVE Chain
  OBVIOUS
<1>1. /\ stage \in {"tls", "peek", "serve"} /\ st = "wait" /\ req = 0 /\ outq = <<>>
      /\ wire = <<>>
  BY DEF Init, DispatchInit
<1>2. Out = <<>>
  BY <1>1 DEF Out
<1>3. Linked(Out)
  BY <1>2 DEF Linked
<1>4. Tips /\ Pending /\ Unframed
  BY <1>1, <1>2 DEF Tips, Pending, Unframed, Tip, Final, Finals
<1> QED BY <1>1, <1>3, <1>4 DEF Chain

\* Every step keeps what the peer reads well linked.
LEMMA NextChain == ~SplitInterim => (IInv /\ Chain /\ [Next]_vars => Chain')
<1> SUFFICES ASSUME ~SplitInterim, IInv, Chain, [Next]_vars PROVE Chain'
  OBVIOUS
<1>1. CASE Step /\ Clocking
  <2>1. CASE \/ DispatchNext /\ UNCHANGED <<hyperVars, owing, begun, bodyAge, lapsed>>
             \/ \E n \in 1..Len(input.stream) : Read(n)
             \/ BodyRead \/ DropBody \/ Rearms \/ Parks \/ IoFails \/ StreamFails
    BY <1>1, <2>1, ChainQuiet
  <2>2. CASE ReadEof \/ Flush
    BY <2>2, ChainReadEof, ChainFlush
  <2>3. CASE \E k \in 1..Len(outq) : Write(k)
    BY <2>3, ChainWrite
  <2>4. CASE CallService \/ LeftWrite \/ HyperRefuses \/ Interim
    BY <2>4, ChainCalls, ChainHyperRefuses, ChainInterim
  <2>5. CASE HandlerTimeout \/ (/\ st = "handler"
                                /\ \E r \in input.reqs[req].replies,
                                      leaves \in {"dropped", "stashed", "moved"} :
                                      HandlerReturns(r, leaves))
    BY <2>5, ChainReturns
  <2>6. CASE PollFull \/ StreamFrame \/ StreamEnds
    BY <2>6, ChainEncodes
  <2>7. CASE Expires \/ Answers
    BY <2>7, ChainExpires, ChainAnswers
  <2> QED BY <1>1, <2>1, <2>2, <2>3, <2>4, <2>5, <2>6, <2>7 DEF Step
<1>2. CASE Tick \/ UNCHANGED vars
  BY <1>2, ChainTick
<1> QED BY <1>1, <1>2 DEF Next, Clocking

\* What is well linked up to the buffer's end is so on the wire.
LEMMA ChainFinal == IInv /\ Chain => OneFinalResponse
<1> SUFFICES ASSUME IInv, Chain PROVE OneFinalResponse
  OBVIOUS
<1>1. wire \in Seq(OutUnits) /\ outq \in Seq(OutUnits) /\ Linked(wire \o outq)
  BY DEF IInv, Typed, Chain, Out
<1>2. Linked(wire)
  BY <1>1, LinkedPrefix
<1> QED BY <1>2 DEF Linked, OneFinalResponse, Before

\* Where the transport takes an interim response whole, the peer reads for
\* each request in turn at most one interim response and then one final one,
\* and no 408 of the watchdog's inside or after another answer.
THEOREM OneFinalEach ==
    ASSUME ~SplitInterim
    PROVE  Spec => []OneFinalResponse
<1>1. Init => IInv /\ Chain
  BY InitIInv, InitChain
<1>2. IInv /\ Chain /\ [Next]_vars => (IInv /\ Chain)'
  BY NextIInv, NextChain
<1>3. IInv /\ Chain => OneFinalResponse
  BY ChainFinal
<1> QED BY <1>1, <1>2, <1>3, PTL DEF Spec

-----------------------------------------------------------------------------
(* What changes hands.                                                     *)

\* Every non-empty set of naturals has a least element.
LEMMA LeastOf ==
    ASSUME NEW S, S \subseteq Nat, S # {}
    PROVE  \E n \in S : \A m \in S : n <= m
<1>1. PICK n \in S : \A m \in S : ~(<<m, n>> \in OpToRel(<, Nat))
  BY NatLessThanWellFounded, WFMin
<1>2. \A m \in S : ~(m < n)
  <2> TAKE m \in S
  <2>1. <<m, n>> \in Nat \X Nat
    OBVIOUS
  <2>2. <<m, n>>[1] = m /\ <<m, n>>[2] = n
    OBVIOUS
  <2> QED BY <1>1, <2>1, <2>2 DEF OpToRel
<1> QED BY <1>2

\* Where a request ends depends on the stream and on its number only.
LEMMA SameEnd ==
    ASSUME input' = input, req' = req
    PROVE  RequestEnd(req)' = RequestEnd(req)
<1>1. Positions(req, {"head", "body", "bad"})' = Positions(req, {"head", "body", "bad"})
  BY DEF Positions
<1> QED BY <1>1 DEF RequestEnd, LastOf

\* Consuming up to a position that hyper holds leaves what is behind it.
LEMMA PastIs ==
    ASSUME InOrder, NEW p, InBuffer(p)
    PROVE  /\ p \in Nat /\ p <= pos
           /\ Past(p) \in Seq(Nat)
           /\ Len(Past(p)) = Len(rbuf) - (p - Eaten)
           /\ \A i \in 1..Len(Past(p)) : Past(p)[i] = p + i
<1> DEFINE Cuts(n) == /\ \A i \in 1..n : rbuf[i] <= p
                      /\ n < Len(rbuf) => rbuf[n + 1] > p
           n == CHOOSE m \in 0..Len(rbuf) : Cuts(m)
<1>1. /\ pos \in Nat /\ Len(rbuf) \in Nat /\ Len(buffered) \in Nat /\ rbuf \in Seq(Nat)
      /\ Eaten \in Nat /\ pos = Eaten + Len(rbuf) + Len(buffered)
      /\ \A i \in 1..Len(rbuf) : rbuf[i] = Eaten + i
  BY DEF InOrder, Eaten
<1>2. PICK k \in 1..Len(rbuf) : p = Eaten + k
  BY <1>1 DEF InBuffer
<1>3. Cuts(k) /\ k \in 0..Len(rbuf)
  <2>1. ASSUME NEW i \in 1..k PROVE rbuf[i] <= p
    <3>1. i \in 1..Len(rbuf) /\ i <= k
      BY <1>1, <1>2
    <3> QED BY <1>1, <1>2, <3>1
  <2>2. ASSUME k < Len(rbuf) PROVE rbuf[k + 1] > p
    <3>1. k + 1 \in 1..Len(rbuf)
      BY <1>1, <1>2, <2>2
    <3>2. rbuf[k + 1] = Eaten + (k + 1)
      BY <1>1, <3>1
    <3> QED BY <1>1, <1>2, <3>2
  <2>3. k \in 0..Len(rbuf)
    BY <1>1, <1>2
  <2> QED BY <2>1, <2>2, <2>3
<1>4. n \in 0..Len(rbuf) /\ Cuts(n)
  <2> HIDE DEF Cuts
  <2> QED BY <1>3
<1>5. Past(p) = SubSeq(rbuf, n + 1, Len(rbuf))
  BY DEF Past
<1> HIDE DEF n
<1>6. n = k
  <2>1. n <= k
    <3>1. ASSUME n > k PROVE FALSE
      <4>1. k + 1 \in 1..n /\ k + 1 \in 1..Len(rbuf)
        BY <1>1, <1>2, <1>4, <3>1
      <4> QED BY <1>1, <1>2, <1>4, <4>1
    <3> QED BY <1>2, <1>4, <3>1
  <2>2. n >= k
    <3>1. ASSUME n < k PROVE FALSE
      <4>1. n + 1 \in 1..Len(rbuf) /\ n < Len(rbuf) /\ n + 1 <= k
        BY <1>1, <1>2, <1>4, <3>1
      <4>2. rbuf[n + 1] = Eaten + (n + 1)
        BY <1>1, <4>1
      <4> QED BY <1>1, <1>2, <1>4, <4>1, <4>2
    <3> QED BY <1>2, <1>4, <3>1
  <2> QED BY <1>2, <1>4, <2>1, <2>2
<1> HIDE DEF Cuts
<1> DEFINE f == SubSeq(rbuf, k + 1, Len(rbuf))
<1>7. /\ f \in Seq(Nat) /\ Len(f) = Len(rbuf) - k
      /\ \A i \in 1..(Len(rbuf) - k) : f[i] = rbuf[k + i]
  BY <1>1, <1>2
<1>8. Past(p) = f
  BY <1>5, <1>6
<1> HIDE DEF f
<1>9. \A i \in 1..Len(f) : f[i] = p + i
  <2> TAKE i \in 1..Len(f)
  <2>1. i \in 1..(Len(rbuf) - k) /\ k + i \in 1..Len(rbuf)
    BY <1>1, <1>2, <1>7
  <2> QED BY <1>1, <1>2, <1>7, <2>1
<1> QED BY <1>1, <1>2, <1>7, <1>8, <1>9

\* hyper consumes up to position p, and reads nothing.
LEMMA PastInOrder ==
    ASSUME InOrder, NEW p, InBuffer(p), rbuf' = Past(p), UNCHANGED <<input, pos, buffered>>
    PROVE  InOrder' /\ Eaten' = p
<1>1. /\ pos \in Nat /\ Len(rbuf) \in Nat /\ Len(buffered) \in Nat /\ rbuf \in Seq(Nat)
      /\ buffered \in Seq(Nat) /\ Eaten \in Nat /\ pos = Eaten + Len(rbuf) + Len(buffered)
      /\ \A i \in 1..Len(buffered) : buffered[i] = Eaten + Len(rbuf) + i
  BY DEF InOrder, Eaten
<1>2. /\ p \in Nat /\ Past(p) \in Seq(Nat) /\ Len(Past(p)) = Len(rbuf) - (p - Eaten)
      /\ \A i \in 1..Len(Past(p)) : Past(p)[i] = p + i
  BY PastIs
<1>3. Eaten' = p
  BY <1>1, <1>2 DEF Eaten
<1>4. p + Len(rbuf') = Eaten + Len(rbuf)
  BY <1>1, <1>2
<1>5. /\ pos' \in 0..Len(input'.stream) /\ rbuf' \in Seq(Nat) /\ buffered' \in Seq(Nat)
      /\ \A i \in 1..Len(rbuf') : rbuf'[i] = p + i
  BY <1>2 DEF InOrder
<1>6. \A i \in 1..Len(buffered') : buffered'[i] = p + Len(rbuf') + i
  <2> TAKE i \in 1..Len(buffered')
  <2>1. Len(rbuf') \in Nat
    BY <1>5
  <2> QED BY <1>1, <1>2, <1>4, <2>1
<1> QED BY <1>2, <1>3, <1>5, <1>6 DEF InOrder

\* A step that leaves what was read alone, and upgrades nothing it should not.
LEMMA HandedQuiet ==
    ASSUME Handed, Served, UNCHANGED <<input, stage, fate, pos, buffered, rbuf, req, eof>>,
           FullyRead' => FullyRead,
           st' = "respond" => resp'.then # "upgrading",
           st' = "upgrading" => req > 0 /\ FullyRead'
    PROVE  Handed'
<1>1. Eaten' = Eaten
  BY DEF Eaten
<1>2. InOrder'
  BY <1>1 DEF Handed, InOrder
<1>3. SpeaksPreface' <=> SpeaksPreface
  BY DEF SpeaksPreface, Classes
<1>4. Units(1, pos)' = Units(1, pos)
  BY DEF Units
<1>5. Verdicts'
  BY <1>3, <1>4 DEF Handed, Verdicts, Served
<1>6. Consumed'
  BY <1>1, SameEnd DEF Handed, Consumed, Served
<1> QED BY <1>2, <1>5, <1>6 DEF Handed

\* A step that ends the connection, or hyper's part in it, without handing it
\* to anybody.
LEMMA HandedOver ==
    ASSUME Handed, stage' \in {"answer", "over"}, fate' \notin {"h2", "upgraded"},
           UNCHANGED <<input, pos, buffered, rbuf>>
    PROVE  Handed'
<1>1. Eaten' = Eaten
  BY DEF Eaten
<1>2. InOrder'
  BY <1>1 DEF Handed, InOrder
<1> QED BY <1>2 DEF Handed, Verdicts, Consumed, Served

\* The steps that do.
LEMMA HandedEnds ==
    ASSUME IInv, Handed, IoFails \/ StreamFails \/ Expires \/ Answers
    PROVE  Handed'
<1>1. /\ UNCHANGED <<input, pos, buffered, rbuf>>
      /\ stage' \in {"answer", "over"}
  BY DEF IoFails, StreamFails, Expires, Answers, Leave, hyperVars
<1>2. stage # "over"
  BY DEF IoFails, StreamFails, Expires, Answers, Served
<1>3. fate = "none"
  BY <1>2 DEF IInv, Lapsing
<1>4. fate' \notin {"h2", "upgraded"}
  BY <1>3 DEF IoFails, StreamFails, Expires, Answers, Leave
<1> QED BY <1>1, <1>4, HandedOver

\* The peer's closing changes nothing of what was read.
LEMMA HandedReadEof ==
    ASSUME IInv, Handed, ReadEof
    PROVE  Handed'
<1>1. /\ Served /\ UNCHANGED <<input, pos, buffered, rbuf, req, body, resp>> /\ eof'
      /\ st \notin {"closing", "upgrading"}
  BY DEF ReadEof
<1>2. CASE stage' = "over" /\ fate' = "closed"
  BY <1>1, <1>2, HandedOver
<1>3. CASE UNCHANGED <<stage, fate>> /\ (st' = st \/ st' = "closing")
  <2>1. Eaten' = Eaten /\ Units(1, pos)' = Units(1, pos)
    BY <1>1 DEF Eaten, Units
  <2>2. InOrder'
    BY <1>1, <2>1 DEF Handed, InOrder
  <2>3. SpeaksPreface' <=> SpeaksPreface
    BY <1>1 DEF SpeaksPreface, Classes
  <2>4. Verdicts'
    BY <1>1, <1>3, <2>1, <2>3 DEF Handed, Verdicts, Served
  <2>5. Consumed'
    BY <1>1, <1>3, <2>1, SameEnd DEF Handed, Consumed, Served, FullyRead
  <2> QED BY <2>2, <2>4, <2>5 DEF Handed
<1> QED BY <1>1, <1>2, <1>3 DEF ReadEof, Leave

\* Who takes an upgraded connection over starts behind the request.
LEMMA HandedFlush ==
    ASSUME IInv, Handed, Flush
    PROVE  Handed'
<1>1. /\ Served /\ UNCHANGED <<input, pos, buffered, eof, rbuf, st, req, body, resp>>
  BY DEF Flush
<1>2. CASE UNCHANGED <<stage, fate>>
  BY <1>1, <1>2, HandedQuiet DEF Handed, Consumed, FullyRead
<1>3. CASE stage' = "over" /\ fate' = "closed"
  BY <1>1, <1>3, HandedOver
<1>4. CASE st = "upgrading" /\ stage' = "over" /\ fate' = "upgraded"
  <2>1. Eaten' = Eaten
    BY <1>1 DEF Eaten
  <2>2. InOrder'
    BY <1>1, <2>1 DEF Handed, InOrder
  <2>3. Eaten = RequestEnd(req)
    BY <1>1, <1>4 DEF Handed, Consumed
  <2>4. Verdicts' /\ Consumed'
    BY <1>1, <1>4, <2>1, <2>3, SameEnd DEF Verdicts, Consumed, Served
  <2> QED BY <2>2, <2>4 DEF Handed
<1> QED BY <1>2, <1>3, <1>4 DEF Flush, Leave

\* A sequence cut behind its n-th element.
LEMMA Split ==
    ASSUME NEW S, NEW s \in Seq(S), NEW n \in 0..Len(s)
    PROVE  /\ SubSeq(s, 1, n) \in Seq(S) /\ Len(SubSeq(s, 1, n)) = n
           /\ \A i \in 1..n : SubSeq(s, 1, n)[i] = s[i]
           /\ SubSeq(s, n + 1, Len(s)) \in Seq(S)
           /\ Len(SubSeq(s, n + 1, Len(s))) = Len(s) - n
           /\ \A i \in 1..(Len(s) - n) : SubSeq(s, n + 1, Len(s))[i] = s[n + i]
<1>1. /\ SubSeq(s, 1, n) \in Seq(S) /\ Len(SubSeq(s, 1, n)) = n
      /\ \A i \in 1..n : SubSeq(s, 1, n)[i] = s[i]
  OBVIOUS
<1>2. /\ SubSeq(s, n + 1, Len(s)) \in Seq(S)
      /\ Len(SubSeq(s, n + 1, Len(s))) = Len(s) - n
      /\ \A i \in 1..(Len(s) - n) : SubSeq(s, n + 1, Len(s))[i] = s[n + i]
  OBVIOUS
<1> QED BY <1>1, <1>2

\* Two sequences of units joined, the second of a length given apart.
LEMMA Joined ==
    ASSUME NEW s \in Seq(Nat), NEW u \in Seq(Nat), NEW n, Len(u) = n
    PROVE  /\ s \o u \in Seq(Nat) /\ Len(s \o u) = Len(s) + n
           /\ \A i \in 1..(Len(s) + n) :
                 (s \o u)[i] = IF i <= Len(s) THEN s[i] ELSE u[i - Len(s)]
  BY ConcatProperties

\* hyper reads: what dispatch handed over first, then off the socket.
LEMMA HandedRead ==
    ASSUME IInv, Handed, NEW n \in 1..Len(input.stream), Read(n)
    PROVE  Handed'
<1>1. /\ Served /\ UNCHANGED <<input, stage, fate, eof, st, req, body, resp>>
  BY DEF Read
<1>2. /\ pos \in Nat /\ Len(rbuf) \in Nat /\ Len(buffered) \in Nat /\ rbuf \in Seq(Nat)
      /\ buffered \in Seq(Nat) /\ Eaten \in Nat /\ pos = Eaten + Len(rbuf) + Len(buffered)
      /\ pos \in 0..Len(input.stream)
      /\ \A i \in 1..Len(rbuf) : rbuf[i] = Eaten + i
      /\ \A i \in 1..Len(buffered) : buffered[i] = Eaten + Len(rbuf) + i
  BY DEF Handed, InOrder, Eaten
<1>3. n \in Nat /\ n > 0
  BY <1>2
<1>4. InOrder' /\ Eaten' = Eaten
  <2>1. CASE SocketIsNext
    <3> DEFINE u == Units(pos + 1, pos + n)
    <3>1. /\ buffered = <<>> /\ buffered' = <<>> /\ pos' = pos + n
          /\ pos + n <= Len(input.stream) /\ rbuf' = rbuf \o u
      BY <2>1 DEF Read, SocketIsNext
    <3>2. u \in Seq(Nat) /\ Len(u) = n /\ \A i \in 1..n : u[i] = pos + i
      <4>1. u = [i \in 1..n |-> pos + i]
        BY <1>2, <1>3 DEF Units
      <4> HIDE DEF u
      <4>3. DOMAIN u = 1..n /\ \A i \in 1..n : u[i] = pos + i /\ u[i] \in Nat
        BY <1>2, <1>3, <4>1
      <4>4. u \in [1..n -> Nat]
        <5>1. u = [i \in 1..n |-> u[i]]
          BY <4>1, <4>3
        <5> QED BY <4>3, <5>1
      <4>5. u \in Seq(Nat) /\ Len(u) = n
        BY <1>3, <4>4
      <4> QED BY <4>3, <4>5
    <3> HIDE DEF u
    <3>3. /\ rbuf \o u \in Seq(Nat) /\ Len(rbuf \o u) = Len(rbuf) + n
          /\ \A i \in 1..(Len(rbuf) + n) :
                (rbuf \o u)[i] = IF i <= Len(rbuf) THEN rbuf[i] ELSE u[i - Len(rbuf)]
      <4>1. rbuf \in Seq(Nat) /\ u \in Seq(Nat) /\ Len(u) = n
        BY <1>2, <3>2
      <4> QED BY ONLY <4>1, Joined
    <3>4. Eaten' = Eaten /\ Len(buffered) = 0
      BY <1>2, <1>3, <3>1, <3>3 DEF Eaten
    <3>5. ASSUME NEW i \in 1..Len(rbuf') PROVE rbuf'[i] = Eaten + i
      <4>1. i \in 1..(Len(rbuf) + n)
        BY <3>1, <3>3
      <4>2. CASE i <= Len(rbuf)
        BY <1>2, <3>1, <3>3, <4>1, <4>2
      <4>3. CASE i > Len(rbuf)
        <5>1. i - Len(rbuf) \in 1..n /\ rbuf'[i] = u[i - Len(rbuf)]
          BY <1>2, <1>3, <3>1, <3>3, <4>1, <4>3
        <5> QED BY <1>2, <3>2, <3>4, <5>1
      <4> QED BY <1>2, <4>1, <4>2, <4>3
    <3>6. /\ pos' \in 0..Len(input'.stream) /\ rbuf' \in Seq(Nat) /\ buffered' \in Seq(Nat)
          /\ \A i \in 1..Len(buffered') : buffered'[i] = Eaten' + Len(rbuf') + i
      BY <1>1, <1>2, <1>3, <3>1, <3>3
    <3> QED BY <1>2, <3>4, <3>5, <3>6 DEF InOrder
  <2>2. CASE ~SocketIsNext
    <3> DEFINE u == SubSeq(buffered, 1, n)
               r == SubSeq(buffered, n + 1, Len(buffered))
    <3>1. /\ n <= Len(buffered) /\ buffered' = r /\ pos' = pos /\ rbuf' = rbuf \o u
      BY <2>2 DEF Read
    <3>2. /\ u \in Seq(Nat) /\ Len(u) = n /\ \A i \in 1..n : u[i] = buffered[i]
          /\ r \in Seq(Nat) /\ Len(r) = Len(buffered) - n
          /\ \A i \in 1..(Len(buffered) - n) : r[i] = buffered[n + i]
      <4>1. n \in 0..Len(buffered)
        BY <1>2, <1>3, <3>1
      <4>2. buffered \in Seq(Nat)
        BY <1>2
      <4> QED BY ONLY <4>1, <4>2, Split, ZenonT(60)
    <3> HIDE DEF u, r
    <3>3. /\ rbuf \o u \in Seq(Nat) /\ Len(rbuf \o u) = Len(rbuf) + n
          /\ \A i \in 1..(Len(rbuf) + n) :
                (rbuf \o u)[i] = IF i <= Len(rbuf) THEN rbuf[i] ELSE u[i - Len(rbuf)]
      <4>1. rbuf \in Seq(Nat) /\ u \in Seq(Nat) /\ Len(u) = n
        BY <1>2, <3>2
      <4> QED BY ONLY <4>1, Joined
    <3>4. Eaten' = Eaten
      BY <1>2, <1>3, <3>1, <3>2, <3>3 DEF Eaten
    <3>5. ASSUME NEW i \in 1..Len(rbuf') PROVE rbuf'[i] = Eaten + i
      <4>1. i \in 1..(Len(rbuf) + n)
        BY <3>1, <3>3
      <4>2. CASE i <= Len(rbuf)
        BY <1>2, <3>1, <3>3, <4>1, <4>2
      <4>3. CASE i > Len(rbuf)
        <5>1. i - Len(rbuf) \in 1..n /\ rbuf'[i] = u[i - Len(rbuf)]
          BY <1>2, <1>3, <3>1, <3>3, <4>1, <4>3
        <5>2. i - Len(rbuf) \in 1..Len(buffered)
          BY <1>2, <1>3, <3>1, <5>1
        <5>3. rbuf'[i] = buffered[i - Len(rbuf)]
          BY <3>2, <5>1
        <5>4. rbuf'[i] = Eaten + Len(rbuf) + (i - Len(rbuf))
          BY <1>2, <5>2, <5>3
        <5> QED BY <1>2, <4>1, <5>4
      <4> QED BY <1>2, <4>1, <4>2, <4>3
    <3>6. ASSUME NEW i \in 1..Len(buffered') PROVE buffered'[i] = Eaten + Len(rbuf') + i
      <4>1. i \in 1..(Len(buffered) - n) /\ n + i \in 1..Len(buffered)
        BY <1>2, <1>3, <3>1, <3>2
      <4>2. buffered'[i] = buffered[n + i]
        BY <3>1, <3>2, <4>1
      <4> QED BY <1>2, <1>3, <3>1, <3>3, <4>1, <4>2
    <3>7. pos' \in 0..Len(input'.stream) /\ rbuf' \in Seq(Nat) /\ buffered' \in Seq(Nat)
      BY <1>1, <1>2, <3>1, <3>2, <3>3
    <3> QED BY <1>2, <3>4, <3>5, <3>6, <3>7 DEF InOrder
  <2> QED BY <2>1, <2>2
<1>5. SpeaksPreface' <=> SpeaksPreface
  BY <1>1 DEF SpeaksPreface, Classes
<1>6. fate # "h2"
  BY <1>1 DEF IInv, Lapsing, Served
<1>7. Verdicts'
  BY <1>1, <1>5, <1>6 DEF Handed, Verdicts, Served
<1>8. Consumed'
  BY <1>1, <1>4, SameEnd DEF Handed, Consumed, Served, FullyRead
<1> QED BY <1>4, <1>7, <1>8 DEF Handed

\* A head is consumed to its last unit, and with it a request without body.
LEMMA HandedCall ==
    ASSUME IInv, Handed, CallService
    PROVE  Handed'
<1> DEFINE k == req + 1
<1>1. /\ Served /\ st = "wait" /\ HeadReady /\ req' = k /\ rbuf' = Past(HeadEnd(k))
      /\ body' = IF Positions(k, {"body", "bad"}) = {} THEN "none" ELSE "open"
      /\ UNCHANGED <<input, stage, fate, pos, buffered, eof>>
  BY DEF CallService, dispatchVars
<1>2. st' = "respond" => resp'.then # "upgrading"
  BY <1>1 DEF CallService, Enter, reject, Hand
<1>3. st' # "upgrading"
  BY <1>1 DEF CallService, Enter, reject, Hand
<1>4. req \in Nat /\ k > 0
  BY ReqTyped DEF IInv
<1>5. InBuffer(HeadEnd(k))
  BY <1>1 DEF HeadReady
<1> HIDE DEF k
<1>6. InOrder' /\ Eaten' = HeadEnd(k)
  BY <1>1, <1>5, PastInOrder DEF Handed
<1>7. FullyRead' => RequestEnd(req)' = HeadEnd(k)
  <2> SUFFICES ASSUME FullyRead' PROVE RequestEnd(req)' = HeadEnd(k)
    OBVIOUS
  <2>1. Positions(k, {"body", "bad"}) = {}
    BY <1>1 DEF FullyRead
  <2>2. Positions(k, {"head", "body", "bad"}) = Positions(k, {"head"})
    BY <2>1 DEF Positions
  <2>3. Positions(req, {"head", "body", "bad"})' = Positions(k, {"head", "body", "bad"})
    BY <1>1 DEF Positions
  <2> QED BY <2>2, <2>3 DEF RequestEnd, HeadEnd, LastOf
<1>8. SpeaksPreface' <=> SpeaksPreface
  BY <1>1 DEF SpeaksPreface, Classes
<1>9. fate = "none"
  BY <1>1 DEF IInv, Lapsing, Served
<1>10. Verdicts'
  BY <1>1, <1>8, <1>9 DEF Handed, Verdicts, Served
<1>11. Consumed'
  BY <1>1, <1>2, <1>3, <1>6, <1>7, <1>9 DEF Consumed
<1> QED BY <1>6, <1>10, <1>11 DEF Handed

\* A part of the body is consumed; the last one ends the request.
LEMMA HandedBodyRead ==
    ASSUME IInv, Handed, BodyRead
    PROVE  Handed'
<1> DEFINE got == {p \in Positions(req, {"body", "bad"}) : InBuffer(p)}
           next == CHOOSE p \in got : \A q \in got : p <= q
           ends == got # {} /\ next = RequestEnd(req)
<1>1. /\ Served /\ st \in {"handler", "respond"} /\ body = "open"
      /\ rbuf' = IF got = {} THEN rbuf ELSE Past(next)
      /\ UNCHANGED <<input, stage, fate, pos, buffered, eof, req, st, resp>>
      /\ FullyRead' => ends
  BY DEF BodyRead, dispatchVars, FullyRead
<1>2. fate = "none"
  BY <1>1 DEF IInv, Lapsing, Served
<1>3. SpeaksPreface' <=> SpeaksPreface
  BY <1>1 DEF SpeaksPreface, Classes
<1>4. InOrder' /\ (ends => Eaten' = RequestEnd(req))
  <2>1. CASE got = {}
    <3>1. Eaten' = Eaten
      BY <1>1, <2>1 DEF Eaten
    <3> QED BY <1>1, <2>1, <3>1 DEF Handed, InOrder
  <2>2. CASE got # {}
    <3>1. got \subseteq Nat
      <4>1. Positions(req, {"body", "bad"}) \subseteq 1..Len(input.stream)
        BY DEF Positions
      <4>2. 1..Len(input.stream) \subseteq Nat
        BY DEF Handed, InOrder
      <4> QED BY <4>1, <4>2
    <3>2. next \in got
      <4> HIDE DEF got
      <4>1. \E p \in got : \A q \in got : p <= q
        BY <2>2, <3>1, LeastOf
      <4> QED BY <4>1
    <3>3. InBuffer(next)
      BY <3>2
    <3> HIDE DEF next, got
    <3>4. InOrder' /\ Eaten' = next
      BY <1>1, <2>2, <3>3, PastInOrder DEF Handed
    <3> QED BY <3>4
  <2> QED BY <2>1, <2>2
<1> HIDE DEF ends
<1>5. Verdicts'
  BY <1>1, <1>2, <1>3 DEF Handed, Verdicts, Served
<1>6. Consumed'
  BY <1>1, <1>2, <1>4, SameEnd DEF Handed, Consumed, Served
<1> QED BY <1>4, <1>5, <1>6 DEF Handed

\* The steps that touch neither what was read nor who has it.
LEMMA HandedSteps ==
    ASSUME IInv, Handed,
           \/ \E k \in 1..Len(outq) : Write(k)
           \/ LeftWrite \/ HyperRefuses \/ Interim \/ DropBody \/ HandlerTimeout
           \/ PollFull \/ StreamFrame \/ StreamEnds \/ Rearms \/ Parks
           \/ Tick \/ UNCHANGED vars
    PROVE  Handed'
<1>1. UNCHANGED <<input, stage, fate, pos, buffered, rbuf, req, eof>>
  BY DEF Write, LeftWrite, HyperRefuses, Interim, DropBody, HandlerTimeout, PollFull, StreamFrame,
         StreamEnds, Rearms, Parks, Tick, vars, dispatchVars, hyperVars
<1>2. FullyRead' => FullyRead
  BY DEF Write, LeftWrite, HyperRefuses, Interim, DropBody, HandlerTimeout, PollFull, StreamFrame,
         StreamEnds, Rearms, Parks, Tick, vars, dispatchVars, hyperVars, FullyRead
<1>3. CASE Served
  <2>1. Consumed /\ resp \in Responses
    BY DEF Handed, IInv, Typed
  <2>2. st' = "respond" => resp'.then # "upgrading"
    BY <1>3, <2>1 DEF Write, LeftWrite, Enter, reject, Hand, HyperRefuses, Interim, DropBody,
         HandlerTimeout, PollFull, StreamFrame, StreamEnds, Rearms, Parks, Tick, vars,
         dispatchVars, hyperVars, Consumed, Responses
  <2>3. st' = "upgrading" => st = "upgrading" /\ body' = body
    BY <1>3, <2>1 DEF Write, LeftWrite, Enter, reject, Hand, HyperRefuses, Interim, DropBody,
         HandlerTimeout, PollFull, StreamFrame, StreamEnds, Rearms, Parks, Tick, vars,
         dispatchVars, hyperVars, Consumed, Responses, FullyRead
  <2> QED BY <1>1, <1>2, <1>3, <2>1, <2>2, <2>3, HandedQuiet DEF Consumed, FullyRead
<1>4. CASE ~Served
  <2>1. Eaten' = Eaten /\ Units(1, pos)' = Units(1, pos)
    BY <1>1 DEF Eaten, Units
  <2>2. InOrder'
    BY <1>1, <2>1 DEF Handed, InOrder
  <2>3. SpeaksPreface' <=> SpeaksPreface
    BY <1>1 DEF SpeaksPreface, Classes
  <2>4. Verdicts'
    BY <1>1, <2>1, <2>3 DEF Handed, Verdicts, Served
  <2>5. Consumed'
    BY <1>1, <1>4, <2>1, SameEnd DEF Handed, Consumed, Served
  <2> QED BY <2>2, <2>4, <2>5 DEF Handed
<1> QED BY <1>3, <1>4

\* A handler upgrades a connection only with the request's body behind it.
LEMMA HandedReturns ==
    ASSUME IInv, Handed, NEW r, NEW leaves, HandlerReturns(r, leaves)
    PROVE  Handed'
<1> DEFINE q == input.reqs[req]
           impossible == r.status = "bad" \/ (r.status = "101" /\ ~q.upgrade)
           status == IF impossible THEN "500" ELSE r.status
           sends == IF impossible THEN "none" ELSE r.body
           upgrading == status = "101" /\ FullyRead
           written == sends # "none" /\ ~q.head /\ status \notin {"101", "204"}
           encode == IF written THEN sends ELSE "none"
           streams == encode = "stream"
           keep == /\ q.keep_alive /\ FullyRead /\ ~impossible
                   /\ ~(q.version = "1.0" /\ streams)
                   /\ ~r.close
           after == IF body # "open" THEN body
                    ELSE IF leaves = "stashed" THEN "stashed"
                    ELSE IF leaves = "moved" /\ streams THEN "open"
                    ELSE "dropped"
           then == IF upgrading THEN "upgrading" ELSE IF keep THEN "wait" ELSE "closing"
<1>1. /\ Served /\ st = "handler" /\ UNCHANGED <<input, stage, fate, pos, buffered, rbuf, req, eof>>
      /\ body' = after /\ Hand(req, encode, then)
  BY DEF HandlerReturns, dispatchVars
<1>2. after \in {"none", "read"} <=> FullyRead
  BY DEF FullyRead
<1>3. FullyRead' <=> FullyRead
  BY <1>1, <1>2 DEF FullyRead
<1>4. then = "upgrading" => encode = "none" /\ FullyRead
  OBVIOUS
<1> HIDE DEF then, encode, after
<1>5. /\ st' = (IF encode = "none" THEN then ELSE "respond")
      /\ resp' = [encode |-> encode, then |-> then, frames |-> 0, streams |-> encode = "stream"]
  BY <1>1 DEF Hand
<1>6. st' = "respond" => resp'.then # "upgrading"
  BY <1>4, <1>5
<1>7. st' = "upgrading" => FullyRead'
  BY <1>3, <1>4, <1>5
<1>8. req > 0
  <2>1. req \in DOMAIN input.reqs
    BY <1>1, Here DEF Phased
  <2>2. input.reqs \in Seq(Request)
    BY HyperAssumption DEF IInv, Typed
  <2> QED BY <2>1, <2>2
<1> QED BY <1>1, <1>3, <1>6, <1>7, <1>8, HandedQuiet

\* What the classes of the first units say of a stream that speaks HTTP/2.
LEMMA PrefaceIs ==
    ASSUME input \in Inputs, NEW m \in 0..Len(Preface), m <= Len(input.stream)
    PROVE  /\ is_h2c_preface(Classes(m)) \in {"Http1", "Http2", "NeedMore"}
           /\ is_h2c_preface(Classes(m)) = "Http1" => ~SpeaksPreface
           /\ is_h2c_preface(Classes(m)) = "Http2" => SpeaksPreface /\ m = Len(Preface)
<1>1. /\ Preface \in Seq(STRING) /\ Len(Preface) \in Nat /\ Len(input.stream) \in Nat /\ m \in Nat
  BY HyperAssumption
<1> DEFINE c == Classes(m)
           w == Classes(Len(Preface))
<1>2. /\ DOMAIN c = 1..m /\ Len(c) = m /\ \A i \in 1..m : c[i] = input.stream[i].c
  BY <1>1 DEF Classes
<1>3. DOMAIN w = 1..Len(Preface) /\ \A i \in 1..Len(Preface) : w[i] = input.stream[i].c
  BY <1>1 DEF Classes
<1>4. c = [i \in 1..m |-> c[i]] /\ w = [i \in 1..Len(Preface) |-> w[i]]
  BY <1>1, <1>2, <1>3 DEF Classes
<1> HIDE DEF c, w
<1>5. Least(Len(c), Len(Preface)) = m
  BY <1>1, <1>2 DEF Least
<1>6. SubSeq(c, 1, m) = c
  <2>1. input.stream \in Seq(Unit)
    BY HyperAssumption
  <2>2. \A i \in 1..m : input.stream[i] \in Unit
    BY <1>1, <2>1
  <2>3. \A i \in 1..m : c[i] \in STRING
    BY <1>2, <2>2 DEF Unit
  <2>4. c \in Seq(STRING)
    BY <1>1, <1>4, <2>3
  <2> QED BY <1>2, <2>4, SubSeqFull
<1>7. is_h2c_preface(c) = IF c # SubSeq(Preface, 1, m) THEN "Http1"
                          ELSE IF m >= Len(Preface) THEN "Http2" ELSE "NeedMore"
  BY <1>2, <1>5, <1>6 DEF is_h2c_preface
<1>8. /\ DOMAIN SubSeq(Preface, 1, m) = 1..m
      /\ \A i \in 1..m : SubSeq(Preface, 1, m)[i] = Preface[i]
      /\ m = Len(Preface) => SubSeq(Preface, 1, m) = Preface
  BY <1>1
<1>9. ASSUME SpeaksPreface PROVE c = SubSeq(Preface, 1, m)
  <2>1. w = Preface
    BY <1>9 DEF SpeaksPreface, w
  <2>2. ASSUME NEW i \in 1..m PROVE c[i] = SubSeq(Preface, 1, m)[i]
    <3>1. i \in 1..Len(Preface)
      BY <1>1
    <3> QED BY <1>2, <1>3, <1>8, <2>1, <3>1
  <2>3. SubSeq(Preface, 1, m) = [i \in 1..m |-> SubSeq(Preface, 1, m)[i]]
    BY <1>1
  <2> QED BY <1>4, <2>2, <2>3
<1>10. ASSUME c = SubSeq(Preface, 1, m), m >= Len(Preface) PROVE SpeaksPreface /\ m = Len(Preface)
  <2>1. m = Len(Preface)
    BY <1>1, <1>10
  <2> QED BY <1>1, <1>8, <1>10, <2>1 DEF SpeaksPreface, c
<1> QED BY <1>7, <1>9, <1>10 DEF c

\* Units(1, n) is what has been read, from the first unit on.
LEMMA UnitsFrom1 ==
    ASSUME NEW n \in Nat
    PROVE  /\ Units(1, n) \in Seq(Nat) /\ Len(Units(1, n)) = n
           /\ \A i \in 1..n : Units(1, n)[i] = i
<1> DEFINE u == Units(1, n)
<1>1. u = [i \in 1..(n - 1 + 1) |-> 1 + i - 1]
  BY DEF Units
<1>2. n - 1 + 1 = n /\ \A i \in 1..n : 1 + i - 1 = i
  OBVIOUS
<1> HIDE DEF u
<1>3. u = [i \in 1..n |-> i]
  BY <1>1, <1>2
<1>4. u \in Seq(Nat) /\ Len(u) = n /\ \A i \in 1..n : u[i] = i
  BY <1>3
<1> QED BY <1>4 DEF u

\* Dispatch reads, decides, and hands over what it has read.
LEMMA HandedDispatch ==
    ASSUME IInv, Handed, DispatchNext, UNCHANGED hyperVars
    PROVE  Handed'
<1>1. /\ stage \in {"tls", "peek"} /\ UNCHANGED <<input, rbuf, st, req, body, resp>>
      /\ fate = "none" /\ input \in Inputs
  BY DEF DispatchNext, Handshaken, PeekRead, PeekEof, DispatchFails, DispatchTimeout, hyperVars,
         IInv, Lapsing, Typed
<1>2. st = "wait" /\ req = 0 /\ rbuf = <<>> /\ buffered = <<>> /\ pos \in 0..Len(input.stream)
  BY <1>1 DEF IInv, Clockwork, Going, Before1, Handed, Verdicts, InOrder
<1>3. Len(input.stream) \in Nat /\ Len(Preface) \in Nat /\ pos \in Nat
  BY <1>1, <1>2, HyperAssumption
<1>4. SpeaksPreface' <=> SpeaksPreface
  BY <1>1 DEF SpeaksPreface, Classes
<1>5. ASSUME fate' # "upgraded" PROVE Consumed'
  BY <1>1, <1>2, <1>5 DEF Consumed
<1>6. CASE Handshaken
  <2>1. /\ stage = "tls" /\ UNCHANGED <<pos, buffered, eof>> /\ input.tls /\ pos = 0
        /\ \/ input.h2 /\ stage' = "over" /\ fate' = "h2"
           \/ stage' = "serve" /\ fate' = fate
    BY <1>6 DEF Handshaken, Leave, Handed, Verdicts
  <2>2. InOrder'
    BY <1>1, <2>1 DEF Handed, InOrder, Eaten
  <2>3. Verdicts'
    BY <1>1, <1>2, <2>1 DEF Verdicts, Served
  <2> QED BY <1>1, <1>5, <2>1, <2>2, <2>3 DEF Handed
<1>7. CASE DispatchFails \/ DispatchTimeout
  BY <1>1, <1>7, HandedOver DEF DispatchFails, DispatchTimeout, Leave
<1>8. ASSUME NEW n \in Nat, n <= Len(input.stream), pos' = n, buffered' = Units(1, n)
      PROVE  InOrder'
  <2>1. /\ buffered' \in Seq(Nat) /\ Len(buffered') = n
        /\ \A i \in 1..n : buffered'[i] = i
    BY <1>8, UnitsFrom1
  <2>2. rbuf' = <<>> /\ Len(rbuf') = 0 /\ Eaten' = 0
    BY <1>1, <1>2, <1>8, <2>1 DEF Eaten
  <2>3. \A i \in 1..Len(buffered') : buffered'[i] = Eaten' + Len(rbuf') + i
    BY <2>1, <2>2
  <2> QED BY <1>1, <1>3, <1>8, <2>1, <2>2, <2>3 DEF InOrder
<1>9. CASE PeekEof
  <2>1. /\ stage' = "serve" /\ eof' /\ buffered' = Units(1, pos) /\ UNCHANGED <<pos, fate>>
    BY <1>9 DEF PeekEof
  <2>2. InOrder'
    BY <1>2, <1>3, <1>8, <2>1
  <2>3. Verdicts'
    BY <1>1, <2>1 DEF Verdicts
  <2> QED BY <1>1, <1>5, <2>1, <2>2, <2>3 DEF Handed
<1>10. CASE PeekRead
  <2>1. stage = "peek" /\ ~input.tls /\ input.detect_h2c
    BY <1>10 DEF PeekRead, Handed, Verdicts
  <2>2. PICK n \in 1..(Len(Preface) - pos) :
           /\ pos + n <= Len(input.stream)
           /\ pos' = pos + n
           /\ LET preface == is_h2c_preface(Classes(pos + n)) IN
              /\ stage' = [Http1 |-> "serve", Http2 |-> "over", NeedMore |-> "peek"][preface]
              /\ fate' = IF preface = "Http2" THEN "h2" ELSE fate
              /\ buffered' = IF preface = "NeedMore" THEN <<>> ELSE Units(1, pos + n)
    BY <1>10 DEF PeekRead
  <2> DEFINE m == pos + n
             preface == is_h2c_preface(Classes(m))
  <2>3. /\ m \in 0..Len(Preface) /\ m \in Nat /\ m <= Len(input.stream) /\ pos' = m
        /\ stage' = [Http1 |-> "serve", Http2 |-> "over", NeedMore |-> "peek"][preface]
        /\ fate' = (IF preface = "Http2" THEN "h2" ELSE fate)
        /\ buffered' = IF preface = "NeedMore" THEN <<>> ELSE Units(1, m)
    BY <1>3, <2>2
  <2> HIDE DEF m
  <2>4. /\ preface \in {"Http1", "Http2", "NeedMore"}
        /\ preface = "Http1" => ~SpeaksPreface
        /\ preface = "Http2" => SpeaksPreface /\ m = Len(Preface)
    BY <1>1, <2>3, PrefaceIs
  <2> HIDE DEF preface
  <2>5. CASE preface = "NeedMore"
    <3>1. stage' = "peek" /\ fate' = "none" /\ buffered' = <<>> /\ Len(buffered') = 0
      BY <1>1, <2>3, <2>5
    <3>2. Len(rbuf') = 0
      BY <1>1, <1>2
    <3>5. Eaten' = m
      <4>1. Len(buffered') = 0 /\ pos' = m /\ m \in Nat
        BY <2>3, <3>1
      <4> QED BY <3>2, <4>1 DEF Eaten
    <3>3. InOrder'
      <4>1. pos' \in 0..Len(input'.stream) /\ rbuf' \in Seq(Nat) /\ buffered' \in Seq(Nat)
        <5>1. rbuf' \in Seq(Nat) /\ buffered' \in Seq(Nat)
          BY <1>1, <1>2, <3>1
        <5>2. input' = input /\ pos' = m /\ m \in Nat /\ m <= Len(input.stream)
          BY <1>1, <2>3
        <5> QED BY <1>3, <5>1, <5>2
      <4>2. Len(rbuf') = 0 /\ Len(buffered') = 0 /\ Eaten' \in Nat
        BY <2>3, <3>1, <3>2, <3>5
      <4> QED BY <4>1, <4>2 DEF InOrder
    <3>4. Verdicts'
      BY <1>1, <1>2, <2>1, <3>1 DEF Verdicts, Served
    <3> QED BY <1>5, <3>1, <3>3, <3>4 DEF Handed
  <2>6. CASE preface = "Http1"
    <3>1. stage' = "serve" /\ fate' = "none" /\ buffered' = Units(1, m) /\ ~SpeaksPreface'
      BY <1>1, <1>4, <2>3, <2>4, <2>6
    <3>2. InOrder'
      BY <1>8, <2>3, <3>1
    <3>3. Verdicts'
      BY <3>1 DEF Verdicts
    <3> QED BY <1>5, <3>1, <3>2, <3>3 DEF Handed
  <2>7. CASE preface = "Http2"
    <3>1. /\ stage' = "over" /\ fate' = "h2" /\ buffered' = Units(1, m) /\ SpeaksPreface'
          /\ m = Len(Preface)
      BY <1>1, <1>4, <2>3, <2>4, <2>7
    <3>2. InOrder'
      BY <1>8, <2>3, <3>1
    <3>3. Units(1, pos)' = Units(1, m)
      BY <2>3 DEF Units
    <3>4. Verdicts'
      BY <1>1, <2>1, <2>3, <3>1, <3>3 DEF Verdicts, Served
    <3> QED BY <1>5, <3>1, <3>2, <3>4 DEF Handed
  <2> QED BY <2>4, <2>5, <2>6, <2>7
<1> QED BY <1>6, <1>7, <1>9, <1>10 DEF DispatchNext

\* Nothing has been read.
LEMMA InitHanded == Init => Handed
<1> SUFFICES ASSUME Init PROVE Handed
  OBVIOUS
<1>1. /\ input \in Inputs /\ pos = 0 /\ buffered = <<>> /\ rbuf = <<>> /\ st = "wait" /\ req = 0
      /\ fate = "none"
      /\ stage = IF input.tls THEN "tls" ELSE IF input.detect_h2c THEN "peek" ELSE "serve"
  BY DEF Init, DispatchInit
<1>2. Len(rbuf) = 0 /\ Len(buffered) = 0
  BY <1>1
<1>6. Eaten = 0
  <2>1. pos = 0
    BY <1>1
  <2> QED BY <1>2, <2>1 DEF Eaten
<1>3. InOrder
  BY <1>1, <1>2, <1>6, HyperAssumption DEF InOrder
<1>4. Verdicts
  BY <1>1 DEF Verdicts, Served
<1>5. Consumed
  BY <1>1 DEF Consumed
<1> QED BY <1>3, <1>4, <1>5 DEF Handed

\* Every step keeps what was read whole and in order.
LEMMA NextHanded == IInv /\ Handed /\ [Next]_vars => Handed'
<1> SUFFICES ASSUME IInv, Handed, [Next]_vars PROVE Handed'
  OBVIOUS
<1>1. CASE Step
  <2>1. CASE DispatchNext /\ UNCHANGED <<hyperVars, owing, begun, bodyAge, lapsed>>
    BY <2>1, HandedDispatch
  <2>2. CASE \E n \in 1..Len(input.stream) : Read(n)
    BY <2>2, HandedRead
  <2>3. CASE ReadEof \/ Flush \/ CallService \/ BodyRead
    BY <2>3, HandedReadEof, HandedFlush, HandedCall, HandedBodyRead
  <2>4. CASE IoFails \/ StreamFails \/ Expires \/ Answers
    BY <2>4, HandedEnds
  <2>5. CASE \/ \E k \in 1..Len(outq) : Write(k)
             \/ LeftWrite \/ HyperRefuses \/ Interim \/ DropBody \/ HandlerTimeout
             \/ PollFull \/ StreamFrame \/ StreamEnds \/ Rearms \/ Parks
    BY <2>5, HandedSteps
  <2>6. CASE \E r \in input.reqs[req].replies, leaves \in {"dropped", "stashed", "moved"} :
                HandlerReturns(r, leaves)
    BY <2>6, HandedReturns
  <2> QED BY <1>1, <2>1, <2>2, <2>3, <2>4, <2>5, <2>6 DEF Step
<1>2. CASE Tick \/ UNCHANGED vars
  BY <1>2, HandedSteps
<1> QED BY <1>1, <1>2 DEF Next

\* What is in order, element by element, is the stretch of the stream up to
\* what was read off the socket.
LEMMA InOrderUnits ==
    ASSUME InOrder
    PROVE  /\ rbuf \o buffered = Units(Eaten + 1, pos)
           /\ Len(rbuf \o buffered) = pos - Eaten
<1>1. /\ pos \in Nat /\ Len(rbuf) \in Nat /\ Len(buffered) \in Nat /\ rbuf \in Seq(Nat)
      /\ buffered \in Seq(Nat) /\ Eaten \in Nat /\ pos = Eaten + Len(rbuf) + Len(buffered)
      /\ \A i \in 1..Len(rbuf) : rbuf[i] = Eaten + i
      /\ \A i \in 1..Len(buffered) : buffered[i] = Eaten + Len(rbuf) + i
  BY DEF InOrder, Eaten
<1> DEFINE n == Len(rbuf) + Len(buffered)
           c == rbuf \o buffered
<1>2. /\ c \in Seq(Nat) /\ Len(c) = n
      /\ \A i \in 1..n : c[i] = IF i <= Len(rbuf) THEN rbuf[i] ELSE buffered[i - Len(rbuf)]
  BY <1>1, ConcatProperties
<1> HIDE DEF c
<1>3. ASSUME NEW i \in 1..n PROVE c[i] = Eaten + i
  <2>1. CASE i <= Len(rbuf)
    <3>1. i \in 1..Len(rbuf) /\ c[i] = rbuf[i]
      BY <1>1, <1>2, <2>1
    <3> QED BY <1>1, <3>1
  <2>2. CASE i > Len(rbuf)
    <3>1. i - Len(rbuf) \in 1..Len(buffered) /\ c[i] = buffered[i - Len(rbuf)]
      BY <1>1, <1>2, <2>2
    <3>2. c[i] = Eaten + Len(rbuf) + (i - Len(rbuf))
      BY <1>1, <3>1
    <3> QED BY <1>1, <3>2
  <2> QED BY <1>1, <2>1, <2>2
<1>4. Units(Eaten + 1, pos) = [i \in 1..(pos - (Eaten + 1) + 1) |-> (Eaten + 1) + i - 1]
  BY DEF Units
<1>5. n \in Nat /\ pos - (Eaten + 1) + 1 = n /\ pos - Eaten = n
      /\ \A i \in 1..n : (Eaten + 1) + i - 1 = Eaten + i
  BY <1>1
<1> HIDE DEF n
<1>6. Units(Eaten + 1, pos) = [i \in 1..n |-> Eaten + i]
  BY <1>4, <1>5
<1>7. c = [i \in 1..n |-> c[i]]
  BY <1>2, <1>5
<1>8. c = [i \in 1..n |-> Eaten + i]
  BY <1>3, <1>7
<1> QED BY <1>2, <1>5, <1>6, <1>8 DEF c

\* What the invariant says of every change of hands.
LEMMA HandedTakenOver == Handed => TakenOver
<1> SUFFICES ASSUME Handed PROVE TakenOver
  OBVIOUS
<1>1. /\ rbuf \o buffered = Units(Eaten + 1, pos) /\ Len(rbuf \o buffered) = pos - Eaten
      /\ pos \in Nat /\ Eaten \in Nat
  BY InOrderUnits DEF Handed, InOrder
<1>2. pos - Len(rbuf \o buffered) + 1 = Eaten + 1
  BY <1>1
<1>3. rbuf \o buffered = Units(pos - Len(rbuf \o buffered) + 1, pos)
  BY <1>1, <1>2
<1>4. fate = "upgraded" => rbuf \o buffered = Units(RequestEnd(req) + 1, pos)
  BY <1>1 DEF Handed, Consumed
<1> QED BY <1>3, <1>4 DEF Handed, Verdicts, TakenOver

\* Whoever takes a connection over, the fallback, hyper or the consumer of an
\* upgrade, gets every byte the peer sent from the one it should start at, once
\* and in order: whatever the stream, the reads that cut it and the moment.
THEOREM NothingLostChangingHands == Spec => []TakenOver
<1>1. Init => IInv /\ Handed
  BY InitIInv, InitHanded
<1>2. IInv /\ Handed /\ [Next]_vars => (IInv /\ Handed)'
  BY NextIInv, NextHanded
<1>3. Handed => TakenOver
  BY HandedTakenOver
<1> QED BY <1>1, <1>2, <1>3, PTL DEF Spec
=============================================================================
