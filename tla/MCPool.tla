------------------------------- MODULE MCPool -------------------------------
(* Small pools: workers, connections and the width of a count. *)
EXTENDS Pool, TLC

Clients == Permutations(Conns)

(* The pool once every worker has reached its loop and serve_with joins. *)
Running ==
    /\ open = [w \in Workers |-> 0]
    /\ freed = {}
    /\ conn = [c \in Conns |-> [at |-> "new", w |-> 0]]
    /\ wk = [w \in Workers |-> Idle(w, "top")]
    /\ started = Workers
    /\ main = [pc |-> "join", next |-> N, outcome |-> "none",
               stop |-> FALSE, early |-> FALSE]

RunningSpec == Running /\ [][Next]_vars

RunningFairSpec == RunningSpec /\ Fairness
============================================================================
