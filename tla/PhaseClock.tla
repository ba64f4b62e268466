----------------------------- MODULE PhaseClock -----------------------------
(***************************************************************************)
(* The hyper backend's clock (src/backend/hyper/mod.rs): what a connection *)
(* is waiting for, as the IO adapter and the bridge report it, and the     *)
(* watchdog that turns it into deadlines.                                  *)
(*                                                                         *)
(* Operators on two records, of which module HyperBackend keeps one each.  *)
(* A clock's instants are kept relative to now: `age` for phase_since, and *)
(* `body_left` for body_deadline_at.  `moved` says that the generation is  *)
(* no longer the one the watchdog saw, `notified` that notify_waiters has  *)
(* run since the watchdog began to wait.                                   *)
(***************************************************************************)
EXTENDS Integers

CONSTANTS HeaderTimeout, IdleTimeout, BodyTimeout, WriteTimeout   \* Limits

ASSUME TimeoutsAssumption ==
    {HeaderTimeout, IdleTimeout, BodyTimeout, WriteTimeout} \subseteq Nat \ {0}

None == -1

AtLeast0(n) == IF n < 0 THEN 0 ELSE n
Least(m, n) == IF m < n THEN m ELSE n

Phases == {"Idle", "Head", "Handler", "Write"}

\* PhaseClock::new(Phase::Idle).
NewClock ==
    [phase |-> "Idle", moved |-> FALSE, notified |-> FALSE, wrote_bytes |-> FALSE,
     body_done |-> FALSE, detached |-> FALSE, finished |-> FALSE, flag |-> 0,
     body_left |-> None, response_streams |-> FALSE, age |-> 0]

bump(c) == [c EXCEPT !.moved = TRUE, !.notified = TRUE, !.age = 0]

\* Mutant of set: the flags of the response before it are kept.
KeepsFlags(c, p) ==
    IF c.detached THEN c ELSE bump([c EXCEPT !.phase = p])

\* Idle and Handler begin a response, and Handler a request body too, which
\* gets a flag of its own.
set(c, p) ==
    LET fresh == IF p \in {"Idle", "Handler"}
                 THEN [c EXCEPT !.wrote_bytes = FALSE, !.body_done = FALSE] ELSE c
        called == IF p = "Handler"
                  THEN [fresh EXCEPT !.finished = FALSE, !.flag = 1 - @,
                                     !.response_streams = FALSE] ELSE fresh
    IN IF c.detached THEN c ELSE bump([called EXCEPT !.phase = p])

\* In Head, bytes are those of hyper's own final error; in Handler, of an
\* interim response.  Only a response's progress buys time.
note_write(c) ==
    LET latched == [c EXCEPT !.wrote_bytes = @ \/ c.phase \in {"Write", "Head"}] IN
    IF c.detached THEN c
    ELSE IF c.phase = "Write" THEN bump(latched) ELSE latched

note_body_end(c) == [c EXCEPT !.body_done = TRUE]

note_flush(c) ==
    IF ~c.detached /\ c.phase = "Write" /\ c.body_done THEN set(c, "Idle") ELSE c

set_body_deadline(c) == [c EXCEPT !.body_left = BodyTimeout]

set_response_streams(c, streams) == [c EXCEPT !.response_streams = streams]

\* From the body that was given `flag`: a later request's is another's.
note_request_body_finished(c, flag) ==
    IF flag = c.flag THEN [c EXCEPT !.finished = TRUE, !.notified = TRUE] ELSE c

detach(c) == [c EXCEPT !.detached = TRUE]

-----------------------------------------------------------------------------
(* The watchdog.  It runs in the connection's own task, so nothing moves   *)
(* between its looking at the clock and its waiting.                       *)

phase_timeout(phase) ==
    [Idle |-> IdleTimeout, Head |-> HeaderTimeout,
     Handler |-> BodyTimeout, Write |-> WriteTimeout][phase]

\* One unit of time; an age past the phase's timeout is as good as that.
Aged(c) ==
    [c EXCEPT !.age = Least(@ + 1, phase_timeout(c.phase)),
              !.body_left = IF @ = None THEN None ELSE AtLeast0(@ - 1)]

\* body_at: the deadline of a body still awaited.
BodyAt(c) == IF c.finished THEN None ELSE c.body_left

Remaining(c) == AtLeast0(phase_timeout(c.phase) - c.age)

\* Mutant of ArmFor: a response is bounded by its own writes alone.
WritesAlone(c) ==
    IF c.phase = "Handler" /\ BodyAt(c) # None THEN BodyAt(c) ELSE Remaining(c)

ArmFor(c) ==
    IF BodyAt(c) = None THEN Remaining(c)
    ELSE IF c.phase = "Handler" THEN BodyAt(c)
    ELSE IF c.phase = "Write" /\ c.response_streams THEN Least(Remaining(c), BodyAt(c))
    ELSE Remaining(c)

\* The head of its loop: a snapshot, and the deadline armed for it.
Armed(c) ==
    [waits |-> TRUE, phase |-> c.phase, body |-> BodyAt(c) # None, left |-> ArmFor(c)]

Watched(c) == [c EXCEPT !.moved = FALSE, !.notified = FALSE]

\* Disarmed, until the phase moves.
Parked(w) == [w EXCEPT !.waits = FALSE, !.left = 0]

Fired(c, w) == w.waits /\ w.left = 0 /\ ~c.notified

\* What an expiry that nothing has overtaken means: loop, park, or give up.
Verdict(c, w) ==
    IF c.moved THEN "loop"
    ELSE IF w.phase = "Handler" /\ c.finished THEN "park"
    ELSE IF w.phase = "Write" /\ w.body /\ c.finished THEN "loop"
    ELSE "expired"
=============================================================================
