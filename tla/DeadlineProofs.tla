--------------------------- MODULE DeadlineProofs ---------------------------
(***************************************************************************)
(* Proofs about the lazy timer: its types, that it never fires early, and  *)
(* that it implements the eager one, for every tick, every set of          *)
(* durations and every bound on the clock.                                 *)
(***************************************************************************)
EXTENDS Deadline, TLAPS

\* Dividing and rounding up gives a multiple that is not smaller.
LEMMA DivCeilCovers ==
    ASSUME NEW d \in Nat, NEW n \in Nat, n > 0
    PROVE  DivCeil(d, n) \in Nat /\ DivCeil(d, n) * n \in Nat /\ DivCeil(d, n) * n >= d
<1>1. /\ d \div n \in Nat
      /\ d % n \in 0..(n - 1)
      /\ d = n * (d \div n) + (d % n)
  BY SMT
<1> DEFINE q == d \div n
<1>2. CASE d % n > 0
  <2>1. DivCeil(d, n) = q + 1
    BY <1>2 DEF DivCeil
  <2>2. (q + 1) * n = n * q + n
    BY <1>1
  <2>3. QED
    BY <1>1, <2>1, <2>2
<1>3. CASE ~(d % n > 0)
  <2>1. DivCeil(d, n) = q /\ d % n = 0
    BY <1>1, <1>3 DEF DivCeil
  <2>2. q * n = n * q
    BY <1>1
  <2>3. QED
    BY <1>1, <2>1, <2>2
<1>4. QED
  BY <1>2, <1>3

\* The timer driver's tick is a positive natural.
LEMMA TickPositive == Tick \in Nat /\ Tick > 0
  BY DeadlineAssumption DEF Tick

\* round_up never shortens a duration, except to the largest representable.
LEMMA RoundUpCovers ==
    ASSUME NEW d \in Nat
    PROVE  /\ round_up(d, Tick) \in Nat
           /\ round_up(d, Tick) >= d \/ round_up(d, Tick) = U64Max
  BY DivCeilCovers, TickPositive, DeadlineAssumption DEF round_up

\* An arm at a time the clock can show aims at an instant that exists, and at
\* no earlier one than was asked for, a year standing in for what is too long.
LEMMA TargetCovers ==
    ASSUME NEW t \in 0..MaxNow, NEW after \in Nat
    PROVE  /\ TargetOf(t, after) \in 0..InstantMax
           /\ \/ TargetOf(t, after) >= t + after
              \/ TargetOf(t, after) >= t + FarFuture
  BY RoundUpCovers, DeadlineAssumption DEF TargetOf

-----------------------------------------------------------------------------
(* Type correctness, and that a parked timer is never late.                *)

\* A new deadline is typed and its timer is not late.
LEMMA InitTyped == Init => TypeOK /\ SleepNeverLate
  BY DeadlineAssumption DEF Init, TypeOK, SleepNeverLate, None

\* Every method keeps the types, and the timer at or before the target.
LEMMA NextTyped == TypeOK /\ SleepNeverLate /\ [Next]_vars => TypeOK' /\ SleepNeverLate'
<1> SUFFICES ASSUME TypeOK, SleepNeverLate, [Next]_vars
             PROVE  TypeOK' /\ SleepNeverLate'
  OBVIOUS
<1> USE DeadlineAssumption DEF TypeOK, SleepNeverLate, None
<1>1. CASE Advance
  BY <1>1 DEF Advance
<1>2. CASE TimerFires
  BY <1>2 DEF TimerFires
<1>3. CASE OtherWake
  BY <1>3 DEF OtherWake
<1>4. ASSUME NEW after \in Afters, Arm(after)
      PROVE  TypeOK' /\ SleepNeverLate'
  <2>1. TargetOf(now, after) \in 0..InstantMax
    BY TargetCovers
  <2>2. target' = TargetOf(now, after) /\ sleep' = MovedSleep(target')
    BY <1>4 DEF Arm
  <2>3. sleep' \in 0..InstantMax /\ sleep' <= target'
    BY <2>1, <2>2 DEF MovedSleep
  <2>4. QED
    BY <1>4, <2>1, <2>2, <2>3 DEF Arm
<1>5. CASE Disarm
  BY <1>5 DEF Disarm
<1>6. CASE PollDisarmed
  BY <1>6 DEF PollDisarmed
<1>7. CASE Poll
  <2>1. sleep' \in 0..InstantMax /\ sleep' <= target'
    BY <1>7 DEF Poll, PolledSleep
  <2>2. QED
    BY <1>7, <2>1 DEF Poll
<1>8. CASE UNCHANGED vars
  BY <1>8 DEF vars
<1>9. QED
  BY <1>1, <1>2, <1>3, <1>4, <1>5, <1>6, <1>7, <1>8 DEF Next

\* Every reachable state of the timer is well typed: in particular no armed
\* instant leaves the representable range, whatever duration was asked for.
THEOREM TypeCorrect == Spec => []TypeOK
<1>1. QED
  BY InitTyped, NextTyped, PTL DEF Spec

\* In every reachable state the timer is set at or before the armed deadline:
\* the comment on `sleep` in ConnDeadline.
THEOREM TimerNeverLate == Spec => []SleepNeverLate
<1>1. QED
  BY InitTyped, NextTyped, PTL DEF Spec

-----------------------------------------------------------------------------
(* A deadline never fires early.  The inductive part: the armed target is   *)
(* no earlier than what was asked for, and a reported target is past.       *)

TargetHonest ==
    target # None =>
        target >= asked.at + asked.after \/ target >= asked.at + FarFuture

ReadyIsPast == result = "ready" => target # None /\ now >= target

\* Every report of an expiry comes at least the armed duration after the arm
\* (ConnDeadline::arm and poll_expired), for every tick and duration.
THEOREM NeverFiresEarly == Spec => []NeverEarly
<1> DEFINE IInv == TypeOK /\ TargetHonest /\ ReadyIsPast
<1>1. Init => IInv
  BY InitTyped DEF Init, TargetHonest, ReadyIsPast, None
<1>2. IInv /\ SleepNeverLate /\ [Next]_vars => IInv'
  <2> SUFFICES ASSUME TypeOK, TargetHonest, ReadyIsPast, SleepNeverLate, [Next]_vars
               PROVE  TargetHonest' /\ ReadyIsPast'
    BY NextTyped
  <2> USE DeadlineAssumption DEF TypeOK, TargetHonest, ReadyIsPast, None
  <2>1. CASE Advance
    BY <2>1 DEF Advance
  <2>2. CASE TimerFires
    BY <2>2 DEF TimerFires
  <2>3. CASE OtherWake
    BY <2>3 DEF OtherWake
  <2>4. ASSUME NEW after \in Afters, Arm(after)
        PROVE  TargetHonest' /\ ReadyIsPast'
    <3>1. \/ TargetOf(now, after) >= now + after
          \/ TargetOf(now, after) >= now + FarFuture
      BY TargetCovers
    <3>2. /\ target' = TargetOf(now, after)
          /\ asked'.at = now
          /\ asked'.after = after
          /\ result' = "none"
      BY <2>4 DEF Arm
    <3>3. QED
      BY <3>1, <3>2
  <2>5. CASE Disarm
    BY <2>5 DEF Disarm
  <2>6. CASE PollDisarmed
    BY <2>6 DEF PollDisarmed
  <2>7. CASE Poll
    BY <2>7 DEF Poll, Elapsed, PolledSleep
  <2>8. CASE UNCHANGED vars
    BY <2>8 DEF vars
  <2>9. QED
    BY <2>1, <2>2, <2>3, <2>4, <2>5, <2>6, <2>7, <2>8 DEF Next
<1>3. IInv => NeverEarly
  BY DeadlineAssumption DEF TypeOK, TargetHonest, ReadyIsPast, NeverEarly, None
<1>4. QED
  BY <1>1, <1>2, <1>3, TimerNeverLate, PTL DEF Spec

-----------------------------------------------------------------------------
(* Refinement.  The key fact is that, with the timer never late, the loop   *)
(* of poll_expired ends in Ready exactly when the target has passed.        *)

\* With the timer at or before the target, a poll is ready exactly when the
\* clock has reached the target.
LEMMA PollIsExact ==
    ASSUME TypeOK, SleepNeverLate, target # None
    PROVE  Elapsed <=> now >= target
  BY DeadlineAssumption DEF TypeOK, SleepNeverLate, Elapsed, PolledSleep, None

\* The lazily moved timer of ConnDeadline answers every poll as the eager one
\* of EagerDeadline: never early and never later.
THEOREM LazyImplementsEager == Spec => ImplementsEager
<1>1. Init => Eager!Init
  BY DEF Init, Eager!Init, None, Eager!None
<1>2. TypeOK /\ SleepNeverLate /\ [Next]_vars => [Eager!Next]_Eager!evars
  <2> SUFFICES ASSUME TypeOK, SleepNeverLate, [Next]_vars
               PROVE  Eager!Next \/ UNCHANGED <<now, target, result>>
    BY DEF Eager!evars
  <2> USE DEF Eager!Next, None, Eager!None
  <2>1. CASE Advance
    BY <2>1 DEF Advance, Eager!Advance
  <2>2. CASE TimerFires
    BY <2>2 DEF TimerFires
  <2>3. CASE OtherWake
    BY <2>3 DEF OtherWake
  <2>4. ASSUME NEW after \in Afters, Arm(after)
        PROVE  Eager!Arm
    BY <2>4 DEF Arm, Eager!Arm, Targets
  <2>5. CASE Disarm
    BY <2>5 DEF Disarm, Eager!Disarm
  <2>6. CASE PollDisarmed
    BY <2>6 DEF PollDisarmed, Eager!Poll
  <2>7. CASE Poll
    BY <2>7, PollIsExact DEF Poll, Eager!Poll
  <2>8. CASE UNCHANGED vars
    BY <2>8 DEF vars
  <2>9. QED
    BY <2>1, <2>2, <2>3, <2>4, <2>5, <2>6, <2>7, <2>8 DEF Next
<1>3. QED
  BY <1>1, <1>2, TypeCorrect, TimerNeverLate, PTL DEF Spec, ImplementsEager, Eager!Spec
=============================================================================
