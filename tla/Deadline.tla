------------------------------ MODULE Deadline ------------------------------
(***************************************************************************)
(* The reusable per-connection timer of src/deadline.rs (ConnDeadline).    *)
(*                                                                         *)
(* One tokio `Sleep` serves every phase of a connection.  Arming is lazy:  *)
(* `arm` only records the logical deadline `target`, and moves the timer   *)
(* only when the new target is EARLIER than the instant the timer holds.   *)
(* A timer that fires too soon is re-pointed by `poll_expired`.            *)
(*                                                                         *)
(* Time is counted in the driver's own ticks (tokio rounds to 1 ms).  The  *)
(* timer driver is external: a `Sleep` reports elapsed from its deadline   *)
(* on, and wakes the task whose waker its last pending poll registered.    *)
(***************************************************************************)
EXTENDS Integers

CONSTANTS
    TickArg,      \* the `tick` passed to ConnDeadline::new; zero is replaced
    FarFuture,    \* FAR_FUTURE
    U64Max,       \* u64::MAX, scaled down with everything else
    InstantMax,   \* the last instant an `Instant` can hold
    Afters,       \* the durations the connection arms with
    LastArm,      \* bound: no arm happens after this time
    MaxNow        \* bound: the clock stops here

ASSUME DeadlineAssumption ==
    /\ TickArg \in Nat
    /\ FarFuture \in Nat
    /\ U64Max \in Nat
    /\ InstantMax \in Nat
    /\ FarFuture <= InstantMax - MaxNow
    /\ FarFuture <= U64Max
    /\ Afters \subseteq Nat
    /\ LastArm \in Nat
    /\ MaxNow \in Nat
    /\ LastArm <= MaxNow

VARIABLES
    now,         \* the clock
    sleep,       \* `sleep.deadline()`
    target,      \* the logical deadline, or None
    waker,       \* whether the timer holds the owner's waker
    task,        \* the owning task: running, or parked until woken
    result,      \* what the last poll of the current deadline said
    asked        \* history: when the current deadline was armed, and for what

vars == <<now, sleep, target, waker, task, result, asked>>

None == -1

\* The type invariant of ConnDeadline.  Arming with any duration leaves both
\* instants in the range an `Instant` can hold.
TypeOK ==
    /\ now \in 0..MaxNow
    /\ sleep \in 0..InstantMax
    /\ target \in 0..InstantMax \cup {None}
    /\ waker \in {"unset", "registered"}
    /\ task \in {"running", "parked"}
    /\ result \in {"none", "pending", "ready"}
    /\ asked \in [at : Nat, after : Nat]

-----------------------------------------------------------------------------
\* ConnDeadline::new replaces a zero tick by one millisecond.
Tick == IF TickArg = 0 THEN 1 ELSE TickArg

DivCeil(d, n) == (d \div n) + (IF d % n > 0 THEN 1 ELSE 0)

\* Mutant of round_up: rounds down to the tick boundary.
RoundDown(d, n) == (d \div n) * n

\* round_up: the next multiple of the tick, saturating at u64 nanoseconds.
round_up(d, n) ==
    IF d > U64Max \/ n > U64Max
    THEN IF d = 0 THEN d ELSE U64Max
    ELSE IF DivCeil(d, n) * n > U64Max THEN U64Max ELSE DivCeil(d, n) * n

\* Mutant of TargetOf: the addition is not checked.
UncheckedAdd(t, after) == t + round_up(after, Tick)

\* The instant `arm(after)` aims at when called at time t.
TargetOf(t, after) ==
    IF t + round_up(after, Tick) <= InstantMax
    THEN t + round_up(after, Tick)
    ELSE t + FarFuture

\* Mutant of MovedSleep: leaves the timer alone for an earlier target too.
SleepLeftAlone(t) == sleep

\* Where `arm` leaves the timer for target t: moved only if t is earlier.
MovedSleep(t) == IF sleep > t THEN t ELSE sleep

-----------------------------------------------------------------------------
Init ==
    /\ now = 0
    /\ sleep = FarFuture
    /\ target = None
    /\ waker = "unset"
    /\ task = "running"
    /\ result = "none"
    /\ asked = [at |-> 0, after |-> 0]

Advance ==
    /\ now < MaxNow
    /\ now' = now + 1
    /\ UNCHANGED <<sleep, target, waker, task, result, asked>>

\* The timer driver wakes the task that registered with it.
TimerFires ==
    /\ waker = "registered"
    /\ now >= sleep
    /\ waker' = "unset"
    /\ task' = "running"
    /\ UNCHANGED <<now, sleep, target, result, asked>>

\* Something else the task waits for (its transport) wakes it.
OtherWake ==
    /\ task = "parked"
    /\ task' = "running"
    /\ UNCHANGED <<now, sleep, target, waker, result, asked>>

\* ConnDeadline::arm.
Arm(after) ==
    /\ task = "running"
    /\ now <= LastArm
    /\ target' = TargetOf(now, after)
    /\ sleep' = MovedSleep(TargetOf(now, after))
    /\ result' = "none"
    /\ asked' = [at |-> now, after |-> after]
    /\ UNCHANGED <<now, waker, task>>

\* ConnDeadline::disarm leaves the timer where it is.
Disarm ==
    /\ task = "running"
    /\ target # None
    /\ target' = None
    /\ result' = "none"
    /\ UNCHANGED <<now, sleep, waker, task, asked>>

\* poll_expired with nothing armed: pending, and no waker is registered.
PollDisarmed ==
    /\ task = "running"
    /\ target = None
    /\ result' = "pending"
    /\ task' = "parked"
    /\ UNCHANGED <<now, sleep, target, waker, asked>>

\* Mutant of PolledSleep: an early wake is not chased.
EarlyWakeForgotten == sleep

\* The instant poll_expired's loop leaves the timer at: one that has elapsed
\* short of the target is re-pointed at the target and polled again.
PolledSleep == IF now >= sleep /\ sleep < target THEN target ELSE sleep

\* Mutant of Elapsed: reports an early wake as an expiry.
AnyWakeIsExpiry == now >= sleep

\* Whether that loop ends in Ready.
Elapsed == now >= PolledSleep /\ PolledSleep >= target

\* poll_expired with a deadline armed.
Poll ==
    /\ task = "running"
    /\ target # None
    /\ sleep' = PolledSleep
    /\ IF Elapsed
       THEN /\ result' = "ready"
            /\ UNCHANGED <<waker, task>>
       ELSE /\ result' = "pending"
            /\ waker' = "registered"
            /\ task' = "parked"
    /\ UNCHANGED <<now, target, asked>>

Next ==
    \/ Advance
    \/ TimerFires
    \/ OtherWake
    \/ \E after \in Afters : Arm(after)
    \/ Disarm
    \/ PollDisarmed
    \/ Poll

\* The clock advances, the timer driver runs, and the executor polls a task
\* that has been woken; nothing else wakes the task for certain.
Fairness ==
    /\ WF_vars(Advance)
    /\ WF_vars(TimerFires)
    /\ WF_vars(Poll)

Spec == Init /\ [][Next]_vars

FairSpec == Spec /\ Fairness

-----------------------------------------------------------------------------
\* While a deadline is armed the timer is never set past it, whatever was
\* armed and disarmed before, so the only wrong wake it can cause is an early
\* one (the comment on the field `sleep`).
SleepNeverLate == target # None => sleep <= target

\* A deadline never fires before the duration it was armed with has passed
\* (arm: "a deadline must never fire early, or a slow-but-legitimate client
\* gets a 408 it did not earn").  A duration too large to represent counts as
\* the year FAR_FUTURE stands for.
NeverEarly ==
    result = "ready" =>
        \/ now >= asked.at + asked.after
        \/ now >= asked.at + FarFuture

Targets(t) == { TargetOf(t, after) : after \in Afters }

Eager == INSTANCE EagerDeadline WITH Targets <- Targets, now <- now, target <- target,
                                   result <- result

\* The lazy timer answers every poll as a timer moved by every arm would:
\* sleep, wakers and early wakes are invisible to the connection.
ImplementsEager == Eager!Spec

\* A task parked on an armed deadline is told: the deadline is reported, or
\* the owner replaces it.  Lost if an early wake were swallowed without
\* registering for the real target.
Reported ==
    \A t \in 0..MaxNow :
        (target = t /\ result = "pending") ~> (result = "ready" \/ target # t)
=============================================================================
