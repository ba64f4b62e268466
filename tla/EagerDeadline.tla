--------------------------- MODULE EagerDeadline ---------------------------
(***************************************************************************)
(* What a connection deadline promises (src/deadline.rs, module comment):  *)
(* "The deadline still never fires early, and never later than it would    *)
(* have" had every arm moved the timer at once.  There is no timer here:   *)
(* a poll reports the armed target exactly when the clock has reached it.  *)
(***************************************************************************)
EXTENDS Integers

CONSTANT Targets(_)     \* Targets(t): the targets an arm at time t may set

VARIABLES now, target, result

evars == <<now, target, result>>

\* No deadline is armed: `target: None`.
None == -1

Init ==
    /\ now = 0
    /\ target = None
    /\ result = "none"

Advance ==
    /\ now' = now + 1
    /\ UNCHANGED <<target, result>>

Arm ==
    /\ target' \in Targets(now)
    /\ result' = "none"
    /\ UNCHANGED now

Disarm ==
    /\ target' = None
    /\ result' = "none"
    /\ UNCHANGED now

Poll ==
    /\ result' = IF target # None /\ now >= target THEN "ready" ELSE "pending"
    /\ UNCHANGED <<now, target>>

Next == Advance \/ Arm \/ Disarm \/ Poll

Spec == Init /\ [][Next]_evars
=============================================================================
