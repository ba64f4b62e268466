----------------------------- MODULE MCDeadline -----------------------------
(* Instance of Deadline for TLC: a tick of 2, durations that round to the   *)
(* same tick, to different ticks, to zero, and one too large to represent.  *)
EXTENDS Deadline
=============================================================================
