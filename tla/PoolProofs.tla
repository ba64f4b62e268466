----------------------------- MODULE PoolProofs -----------------------------
(***************************************************************************)
(* The pool's safety, for every number of workers and connections, every   *)
(* cap and every width of a count.                                         *)
(*                                                                         *)
(* None of Pool's invariants is inductive by itself.  IInv says besides    *)
(* where a worker must be for a connection to be where it is (Placement),  *)
(* which workers a handoff can be under way to (Aim), how far the locals   *)
(* and serve_with have come (Locals, StartUp), and what the count of a     *)
(* worker is in each of three cases (Counts): exact while it lives; past   *)
(* the cap, by a margin that only finished connections eat into, once it   *)
(* retired; either for one that died before its loop.                      *)
(***************************************************************************)
EXTENDS Pool, FiniteSetTheorems, TLAPS

Reserving == {"placed", "send", "landing"}
Busy == InPlace \cup {"adopting"}
Retired == {"close", "exited"} \cup Closed
Never == {"dead", "panicked", "absent"}
Finals == {"ended", "failed", "cut", "reset"}

\* A worker that routes or drains has one connection in hand, and with one in
\* hand or held there is no other.
Hands ==
    /\ \A w \in Workers : wk[w].pc \in Busy => \E c \in Conns : conn[c].at = "hand" /\ conn[c].w = w
    /\ \A c, d \in Conns :
           conn[c].at \in {"hand", "held"} /\ conn[d].at \in {"hand", "held"}
           /\ conn[c].w = conn[d].w => c = d

Placement ==
    \A c \in Conns :
        LET pc == wk[conn[c].w].pc IN
        /\ conn[c].at = "hand" => pc \in Busy
        /\ conn[c].at = "held" => pc \in {"top", "check", "parked", "retire", "close", "drain"}
        /\ conn[c].at = "serving" => pc \notin Before \cup Never \cup {"exited"}
        /\ conn[c].at = "queued" => pc \notin {"grace", "cutting"} \cup Gone
        /\ conn[c].at = "reset" => pc \in Never

\* A handoff goes to another worker, and one that is landing to a worker that
\* has not stopped draining.
Aim ==
    \A w \in Workers :
        /\ wk[w].pc \in {"send", "landing"} => wk[w].target # w
        /\ wk[w].pc = "landing" => wk[wk[w].target].pc \notin {"grace", "cutting", "exited"}

Counter(pc, k) ==
    /\ pc \in Before \cup {"top", "check"} => k = 0
    /\ pc \in {"room", "scan"} => k <= N
    /\ pc = "consider" => k <= Samples

Locals == \A w \in Workers : Counter(wk[w].pc, wk[w].k)

StartUp ==
    /\ main.pc = "spawn" => \A w \in Workers : w >= main.next => wk[w].pc = "unspawned"
    /\ \A w \in started : wk[w].pc \notin {"unspawned", "starting", "dead", "absent"}
    /\ main.pc = "join" /\ main.outcome = "none" =>
           \A w \in Workers : wk[w].pc \notin {"starting", "dead"}
    /\ main.pc = "done" => \A w \in Workers : wk[w].pc \in Gone
    /\ main.pc = "done" /\ main.outcome = "ok" =>
           \A w \in Workers : wk[w].pc \in {"exited", "absent"}

Shape == Hands /\ Placement /\ Aim /\ Locals /\ StartUp

Finished == {c \in Conns : conn[c].at \in Finals}

\* The connections a draining worker may have counted again.
Recounted ==
    {c \in Conns : \/ conn[c].at \in Finals \cup {"serving"}
                   \/ conn[c].at = "hand" /\ wk[conn[c].w].pc = "adopting"}

Low(w) == Cardinality(Slots(w)) <= open[w] /\ open[w] <= Cap

High(w) ==
    /\ RETIRED - Cardinality(Finished) <= open[w]
    /\ open[w] <= RETIRED + Cardinality(Recounted)

Count(w) ==
    /\ Live(w) => open[w] = Cardinality(Slots(w)) /\ open[w] <= Cap
    /\ wk[w].pc \in Retired => High(w)
    /\ wk[w].pc \in Never => High(w) \/ Low(w)

Counts == \A w \in Workers : Count(w)

\* What a worker that left its loop serves or will still serve.
Load(w) ==
    {c \in Conns : \/ c \in Slots(w)
                   \/ conn[c].at = "held" /\ conn[c].w = w
                   \/ conn[c].at = "hand" /\ conn[c].w = w /\ wk[w].pc = "adopting"}

Loads == \A w \in Workers : wk[w].pc \in Retired => Cardinality(Load(w)) <= Cap + 1

IInv == TypeOK /\ Shape /\ Counts /\ Loads
(***************************************************************************)
(* What a step does to a worker and to a connection.                       *)
(***************************************************************************)
OthersStay(w) == \A v \in Workers \ {w} : wk'[v] = wk[v]
OthersLie(c) == \A d \in Conns \ {c} : conn'[d] = conn[d]

\* w's locals after a step that changes no other worker's.
Leads(w, pc, target) ==
    /\ wk' \in [Workers -> Local]
    /\ wk'[w].pc = pc
    /\ wk'[w].target = target
    /\ OthersStay(w)
    /\ Locals'

Lies(c, place, w) ==
    /\ conn' \in [Conns -> Spot]
    /\ conn'[c].at = place
    /\ conn'[c].w = w
    /\ OthersLie(c)

Resets(ws) ==
    \A c \in Conns :
        /\ conn'[c].w = conn[c].w
        /\ conn'[c].at = IF conn[c].at = "queued" /\ conn[c].w \in ws THEN "reset"
                         ELSE conn[c].at

\* The cap, a retirement and the most that can follow it fit a count.
LEMMA Constants ==
    /\ Cap \in Nat /\ Cap >= 1 /\ RETIRED \in Nat /\ UMAX \in Nat /\ N \in Nat /\ N >= 1
    /\ PICK_SAMPLES \in Nat
    /\ Cardinality(Conns) \in Nat
    /\ Cap + Cardinality(Conns) <= RETIRED
    /\ RETIRED + Cardinality(Conns) <= UMAX
<1>1. Cardinality(Conns) \in Nat
  BY PoolAssumption, FS_CardinalityType
<1>2. UMAX \in Nat /\ Cap \in Nat /\ Cap >= 1 /\ N \in Nat /\ N >= 1 /\ PICK_SAMPLES \in Nat
  BY PoolAssumption DEF Cap
<1>3. RETIRED \in Nat /\ 2 * RETIRED <= UMAX
  BY <1>2 DEF RETIRED
<1> QED BY <1>1, <1>2, <1>3, PoolAssumption

\* The machine word's arithmetic, where it does not wrap.
LEMMA Up ==
    ASSUME NEW x \in 0..UMAX
    PROVE  /\ (x + 1) % (UMAX + 1) \in 0..UMAX
           /\ x < UMAX => (x + 1) % (UMAX + 1) = x + 1
BY Constants

\* A release: adding UMAX to a positive count takes one off it.
LEMMA Down ==
    ASSUME NEW x \in 0..UMAX
    PROVE  /\ (x + UMAX) % (UMAX + 1) \in 0..UMAX
           /\ x >= 1 => (x + UMAX) % (UMAX + 1) = x - 1
BY Constants

\* What a reserve, a release and a retirement make of the counts.
LEMMA CountStep ==
    ASSUME open \in [Workers -> 0..UMAX], NEW t \in Workers
    PROVE  /\ Reserved(t) \in [Workers -> 0..UMAX]
           /\ Released(t) \in [Workers -> 0..UMAX]
           /\ [open EXCEPT ![t] = RETIRED] \in [Workers -> 0..UMAX]
           /\ open[t] < UMAX => Reserved(t)[t] = open[t] + 1
           /\ open[t] >= 1 => Released(t)[t] = open[t] - 1
           /\ \A v \in Workers \ {t} : Reserved(t)[v] = open[v] /\ Released(t)[v] = open[v]
<1>1. open[t] \in 0..UMAX
  OBVIOUS
<1>2. /\ (open[t] + 1) % (UMAX + 1) \in 0..UMAX
      /\ (open[t] + UMAX) % (UMAX + 1) \in 0..UMAX
      /\ RETIRED \in 0..UMAX
  BY <1>1, Up, Down, Constants
<1>3. open[t] < UMAX => (open[t] + 1) % (UMAX + 1) = open[t] + 1
  BY <1>1, Up
<1>4. open[t] >= 1 => (open[t] + UMAX) % (UMAX + 1) = open[t] - 1
  BY <1>1, Down
<1> QED BY <1>2, <1>3, <1>4 DEF Reserved, Released

\* Zero is a count and a counter for every label.
LEMMA Zero == 0 \in 0..(N + PICK_SAMPLES) /\ 0 \in 0..UMAX /\ \A pc : Counter(pc, 0)
BY Constants DEF Counter, Samples

\* The groups of labels are labels.
LEMMA Named ==
    /\ Before \subseteq Labels /\ InPlace \subseteq Labels /\ InLoop \subseteq Labels
    /\ Closing \subseteq Labels /\ Closed \subseteq Labels /\ Gone \subseteq Labels
BY DEF Labels

\* A step that replaces w's locals by typed ones changes no other worker's.
LEMMA WkSet ==
    ASSUME wk \in [Workers -> Local], Locals, NEW w \in Workers, NEW r \in Local,
           Counter(r.pc, r.k), wk' = [wk EXCEPT ![w] = r]
    PROVE  Leads(w, r.pc, r.target)
<1>1. /\ wk' \in [Workers -> Local] /\ wk'[w] = r
      /\ \A v \in Workers : v # w => wk'[v] = wk[v]
  OBVIOUS
<1>2. Locals'
  BY <1>1 DEF Locals, Counter, Samples
<1> QED BY <1>1, <1>2 DEF Leads, OthersStay

\* So does one that sets the locals of place.
LEMMA PlacingStep ==
    ASSUME wk \in [Workers -> Local], Locals, NEW w \in Workers, NEW pc \in Labels,
           NEW k \in 0..(N + PICK_SAMPLES), NEW t \in Workers,
           NEW d \in BOOLEAN, NEW top \in BOOLEAN, Counter(pc, k),
           wk' = [wk EXCEPT ![w] = Placing(w, pc, k, t, d, top)]
    PROVE  Leads(w, pc, t)
<1>1. 0 \in 0..UMAX
  BY Constants
<1>2. Placing(w, pc, k, t, d, top) \in Local
  BY <1>1 DEF Placing, Local
<1>3. /\ Placing(w, pc, k, t, d, top).pc = pc
      /\ Placing(w, pc, k, t, d, top).k = k
      /\ Placing(w, pc, k, t, d, top).target = t
  BY DEF Placing
<1> QED BY <1>2, <1>3, WkSet

\* The locals of pick_least_loaded are typed.
LEMMA ConsideringLocal ==
    ASSUME wk \in [Workers -> Local], NEW w \in Workers, NEW k \in 0..(N + PICK_SAMPLES),
           NEW m \in 0..UMAX, NEW b \in Workers, NEW l \in 0..UMAX
    PROVE  LET r == Considering(w, k, m, b, l) IN
           r \in Local /\ r.pc = "consider" /\ r.k = k
<1>1. wk[w].detached \in BOOLEAN /\ wk[w].top \in BOOLEAN
  BY DEF Local
<1>2. "consider" \in Labels
  BY DEF Labels, InPlace
<1> QED BY <1>1, <1>2 DEF Considering, Local

\* place returns, to a label with no local.
LEMMA ReturnStep ==
    ASSUME TypeOK, Locals, NEW w \in Workers, NEW pc \in Labels, Return(w, pc)
    PROVE  Leads(w, pc, w)
BY Zero, PlacingStep DEF Return, Idle, TypeOK

\* place goes on with a worker it has chosen.
LEMMA PlacedStep ==
    ASSUME TypeOK, Locals, NEW w \in Workers, NEW pc \in Labels,
           NEW t \in Workers, Placed(w, pc, 0, t)
    PROVE  Leads(w, pc, t)
<1>1. wk[w].detached \in BOOLEAN /\ wk[w].top \in BOOLEAN
  BY DEF Local, TypeOK
<1> QED BY <1>1, Zero, PlacingStep DEF Placed, TypeOK

\* A step that changes only the label.
LEMMA GotoStep ==
    ASSUME TypeOK, Locals, NEW w \in Workers, NEW pc \in Labels,
           Counter(pc, wk[w].k), Goto(w, pc)
    PROVE  Leads(w, pc, wk[w].target)
<1> DEFINE r == [wk[w] EXCEPT !.pc = pc]
<1>1. r \in Local /\ r.pc = pc /\ r.k = wk[w].k /\ r.target = wk[w].target
  BY DEF Local, TypeOK
<1>2. wk' = [wk EXCEPT ![w] = r]
  BY DEF Goto
<1> HIDE DEF r
<1> QED BY <1>1, <1>2, WkSet DEF TypeOK

\* A label that no counter is bound to.
LEMMA GotoPlain ==
    ASSUME TypeOK, Locals, NEW w \in Workers, NEW pc \in Labels, Goto(w, pc),
           pc \notin Before \cup {"top", "check", "room", "scan", "consider"}
    PROVE  Leads(w, pc, wk[w].target)
<1>1. Counter(pc, wk[w].k)
  BY DEF Counter
<1> QED BY <1>1, GotoStep

\* A step that moves one connection.
LEMMA MoveStep ==
    ASSUME conn \in [Conns -> Spot], NEW c \in Conns,
           NEW place \in Places, NEW w \in Workers, Move(c, place, w)
    PROVE  Lies(c, place, w)
BY DEF Move, Lies, OthersLie, Spot

(***************************************************************************)
(* The kinds of step: each action is of one of them.                       *)
(***************************************************************************)
Seeking == {"pick", "consider", "reserve", "own", "scan"}
Holding == {"top", "check", "parked", "retire", "close", "drain"}

\* Only w's locals change.
Turns(w) ==
    LET pc == wk[w].pc  to == wk'[w].pc  t == wk[w].target IN
    /\ OthersStay(w) /\ conn' = conn /\ open' = open
    /\ \/ pc \in Seeking /\ to \in Seeking \cup {"full"}
       \/ pc = "placed" /\ t # w /\ to = "send" /\ wk'[w].target = t
       \/ pc = "send" /\ InboxOpen(t) /\ to = "landing" /\ wk'[w].target = t
       \/ /\ pc \in InLoop /\ to \in InLoop \cup {"retire"}
          /\ pc \in Holding /\ At("held", w) # {} => to \in Holding
       \/ pc = "close" /\ to = "drain"
       \/ pc = "drain" /\ At("held", w) = {} /\ InboxDrained(w) /\ to = "grace"
       \/ pc = "grace" /\ to = "cutting"
       \/ pc \in {"grace", "cutting"} /\ At("serving", w) = {} /\ to = "exited"
       \/ pc = "unspawned" /\ to = "starting"
       \/ pc = "starting" /\ to = "making"
       \/ pc = "making" /\ to = "top"

\* w takes a slot of t for the connection in its hand.
Takes(w, t) ==
    /\ wk[w].pc \in Seeking /\ wk'[w].pc = "placed" /\ wk'[w].target = t
    /\ HasRoomFor(t) /\ open' = Reserved(t)
    /\ OthersStay(w) /\ conn' = conn

\* c goes from w's hand to be served by w, or by an inbox to another worker.
Settles(w, c) ==
    /\ OthersStay(w) /\ OthersLie(c) /\ open' = open
    /\ conn[c].w = w
    /\ \/ /\ wk[w].pc = "placed" /\ wk[w].target = w /\ wk'[w].pc \in {"top", "check"}
          /\ conn[c].at = "hand" /\ conn'[c].at = "serving" /\ conn'[c].w = w
       \/ /\ wk[w].pc = "landing" /\ wk'[w].pc \in {"top", "check"}
          /\ conn[c].at = "hand" /\ conn'[c].w = wk[w].target
          /\ conn'[c].at = IF wk[wk[w].target].pc \in Gone THEN "reset" ELSE "queued"
       \/ /\ wk[w].pc \in {"idle", "parked"} /\ wk'[w].pc = "top"
          /\ conn[c].at = "queued" /\ conn'[c].at = "serving" /\ conn'[c].w = w
       \/ /\ wk[w].pc = "adopting" /\ wk'[w].pc = "drain"
          /\ conn[c].at = "hand" /\ conn'[c].at = "serving" /\ conn'[c].w = w

\* c is over, and gives a slot of t back.
Drops(w, c, t) ==
    /\ OthersStay(w) /\ OthersLie(c) /\ open' = Released(t)
    /\ conn[c].w = w /\ conn'[c].w = w /\ conn'[c].at \in Finals \ {"reset"}
    /\ \/ /\ wk[w].pc = "placed" /\ wk[w].target = t /\ wk'[w].pc \in {"top", "check"}
          /\ conn[c].at = "hand"
       \/ /\ wk[w].pc \in {"idle", "parked"} /\ t = w /\ wk'[w].pc = "top"
          /\ conn[c].at = "queued"
       \/ /\ wk[w].pc = "adopting" /\ t = w /\ wk'[w].pc = "drain"
          /\ conn[c].at = "hand"
       \/ /\ wk[w].pc \in {"idle", "parked", "backoff", "drain", "grace", "cutting"}
          /\ t = w /\ wk'[w].pc = wk[w].pc
          /\ conn[c].at = "serving"

\* c comes into w's hand, or leaves it, without a slot.
Carries(w, c) ==
    /\ OthersStay(w) /\ OthersLie(c) /\ open' = open /\ conn'[c].w = w
    /\ \/ /\ wk[w].pc = "idle" /\ wk'[w].pc = "pick"
          /\ conn[c].at = "new" /\ conn'[c].at = "hand"
       \/ /\ wk[w].pc = "top" /\ wk'[w].pc = "pick"
          /\ conn[c].at = "held" /\ conn[c].w = w /\ conn'[c].at = "hand"
       \/ /\ wk[w].pc = "full" /\ wk'[w].pc \in {"top", "check"}
          /\ conn[c].at = "hand" /\ conn[c].w = w /\ conn'[c].at \in {"held", "failed"}

\* Draining, w counts c again.
Recounts(w, c) ==
    /\ OthersStay(w) /\ OthersLie(c) /\ open' = Reserved(w)
    /\ wk[w].pc = "drain" /\ wk'[w].pc = "adopting"
    /\ conn[c].w = w /\ conn'[c].w = w /\ conn'[c].at = "hand"
    /\ \/ conn[c].at = "held"
       \/ conn[c].at = "queued" /\ At("held", w) = {}

\* t is retired: by itself, or by a worker whose send it refused.
Retires(w, t) ==
    /\ OthersStay(w) /\ conn' = conn /\ open' = [open EXCEPT ![t] = RETIRED]
    /\ \/ wk[w].pc = "retire" /\ t = w /\ wk'[w].pc = "close"
       \/ wk[w].pc = "send" /\ t = wk[w].target /\ ~InboxOpen(t) /\ wk'[w].pc = "pick"

\* A worker that never reaches its loop drops its inbox.
Perishes(w) ==
    /\ OthersStay(w) /\ Resets({w})
    /\ wk[w].pc \in Before /\ wk'[w].pc \in Never
    /\ open' = open \/ open' = [open EXCEPT ![w] = RETIRED]

\* serve_with returns: its workers are gone, or were never spawned.
Ends ==
    /\ \A w \in Workers :
           IF wk[w].pc = "unspawned" THEN wk'[w].pc = "absent"
           ELSE wk[w].pc \in Gone /\ wk'[w] = wk[w]
    /\ Resets({w \in Workers : wk[w].pc = "unspawned"})
    /\ open' = open

(***************************************************************************)
(* Where workers and connections are, kind by kind.                        *)
(***************************************************************************)
Sorts == (\A c \in Conns : conn[c].w \in Workers) /\ (\A w \in Workers : wk[w].target \in Workers)

Whereabouts == Hands /\ Placement /\ Aim

\* A worker that only turns keeps the whereabouts.
LEMMA TurnsShape ==
    ASSUME Sorts, Whereabouts, NEW w \in Workers, Turns(w)
    PROVE  Whereabouts'
<1>1. Hands'
  BY DEF Sorts, Whereabouts, Hands, Placement, Turns, OthersStay, InboxOpen,
     InboxDrained, At, Closed, InLoop, Seeking, Holding, Busy, InPlace
<1>2. Placement'
  BY DEF Sorts, Whereabouts, Hands, Placement, Aim, Turns, OthersStay, InboxOpen,
     InboxDrained, At, Closed, InLoop, Seeking, Holding, Busy, InPlace, Before, Never, Gone
<1>3. Aim'
  BY DEF Sorts, Whereabouts, Aim, Turns, OthersStay, InboxOpen, InboxDrained, At, Closed,
     InLoop, Seeking, Holding, Gone
<1> QED BY <1>1, <1>2, <1>3 DEF Whereabouts

\* A reservation keeps the whereabouts.
LEMMA TakesShape ==
    ASSUME Sorts, Whereabouts, NEW w \in Workers, NEW t \in Workers, Takes(w, t)
    PROVE  Whereabouts'
<1>1. Hands'
  BY DEF Sorts, Whereabouts, Hands, Placement, Takes, OthersStay, Seeking, Busy, InPlace
<1>2. Placement'
  BY DEF Sorts, Whereabouts, Hands, Placement, Aim, Takes, OthersStay, Seeking, Busy,
     InPlace, Before, Never, Gone
<1>3. Aim'
  BY DEF Sorts, Whereabouts, Aim, Takes, OthersStay, Seeking, Gone
<1> QED BY <1>1, <1>2, <1>3 DEF Whereabouts

\* A connection that settles keeps the whereabouts.
LEMMA SettlesShape ==
    ASSUME Sorts, Whereabouts, NEW w \in Workers, NEW c \in Conns, Settles(w, c)
    PROVE  Whereabouts'
<1>1. Hands'
  BY DEF Sorts, Whereabouts, Hands, Placement, Settles, OthersStay, OthersLie, Busy, InPlace
<1>2. Placement'
  BY DEF Sorts, Whereabouts, Hands, Placement, Aim, Settles, OthersStay, OthersLie, Busy,
     InPlace, Before, Never, Gone
<1>3. Aim'
  BY DEF Sorts, Whereabouts, Aim, Settles, OthersStay, OthersLie, Gone
<1> QED BY <1>1, <1>2, <1>3 DEF Whereabouts

\* A connection that is over keeps the whereabouts.
LEMMA DropsShape ==
    ASSUME Sorts, Whereabouts, NEW w \in Workers, NEW c \in Conns, NEW t \in Workers, Drops(w, c, t)
    PROVE  Whereabouts'
<1>1. Hands'
  BY DEF Sorts, Whereabouts, Hands, Placement, Drops, OthersStay, OthersLie, Finals,
     Busy, InPlace
<1>2. Placement'
  BY DEF Sorts, Whereabouts, Hands, Placement, Aim, Drops, OthersStay, OthersLie, Finals,
     Busy, InPlace, Before, Never, Gone
<1>3. Aim'
  BY DEF Sorts, Whereabouts, Aim, Drops, OthersStay, OthersLie, Finals, Gone
<1> QED BY <1>1, <1>2, <1>3 DEF Whereabouts

\* A connection taken up or put aside keeps the whereabouts.
LEMMA CarriesShape ==
    ASSUME Sorts, Whereabouts, NEW w \in Workers, NEW c \in Conns, Carries(w, c)
    PROVE  Whereabouts'
<1>1. Hands'
  BY DEF Sorts, Whereabouts, Hands, Placement, Carries, OthersStay, OthersLie, Busy, InPlace
<1>2. Placement'
  BY DEF Sorts, Whereabouts, Hands, Placement, Aim, Carries, OthersStay, OthersLie, Busy,
     InPlace, Before, Never, Gone
<1>3. Aim'
  BY DEF Sorts, Whereabouts, Aim, Carries, OthersStay, OthersLie, Gone
<1> QED BY <1>1, <1>2, <1>3 DEF Whereabouts

\* A recount keeps the whereabouts.
LEMMA RecountsShape ==
    ASSUME Sorts, Whereabouts, NEW w \in Workers, NEW c \in Conns, Recounts(w, c)
    PROVE  Whereabouts'
<1>1. Hands'
  BY DEF Sorts, Whereabouts, Hands, Placement, Recounts, OthersStay, OthersLie, At, Busy,
     InPlace
<1>2. Placement'
  BY DEF Sorts, Whereabouts, Hands, Placement, Aim, Recounts, OthersStay, OthersLie, At,
     Busy, InPlace, Before, Never, Gone
<1>3. Aim'
  BY DEF Sorts, Whereabouts, Aim, Recounts, OthersStay, OthersLie, At, Gone
<1> QED BY <1>1, <1>2, <1>3 DEF Whereabouts

\* A retirement keeps the whereabouts.
LEMMA RetiresShape ==
    ASSUME Sorts, Whereabouts, NEW w \in Workers, NEW t \in Workers, Retires(w, t)
    PROVE  Whereabouts'
<1>1. Hands'
  BY DEF Sorts, Whereabouts, Hands, Placement, Retires, OthersStay, InboxOpen, Closed,
     Busy, InPlace
<1>2. Placement'
  BY DEF Sorts, Whereabouts, Hands, Placement, Aim, Retires, OthersStay, InboxOpen,
     Closed, Busy, InPlace, Before, Never, Gone
<1>3. Aim'
  BY DEF Sorts, Whereabouts, Aim, Retires, OthersStay, InboxOpen, Closed, Gone
<1> QED BY <1>1, <1>2, <1>3 DEF Whereabouts

\* A worker that never reached its loop keeps the whereabouts.
LEMMA PerishesShape ==
    ASSUME Sorts, Whereabouts, NEW w \in Workers, Perishes(w)
    PROVE  Whereabouts'
<1>1. Hands'
  BY DEF Sorts, Whereabouts, Hands, Placement, Perishes, OthersStay, Resets, Busy,
     InPlace, Before, Never
<1>2. Placement'
  BY DEF Sorts, Whereabouts, Hands, Placement, Aim, Perishes, OthersStay, Resets, Busy,
     InPlace, Before, Never, Gone
<1>3. Aim'
  BY DEF Sorts, Whereabouts, Aim, Perishes, OthersStay, Before, Never
<1> QED BY <1>1, <1>2, <1>3 DEF Whereabouts

\* serve_with's return keeps the whereabouts.
LEMMA EndsShape ==
    ASSUME Sorts, Whereabouts, Ends
    PROVE  Whereabouts'
<1>1. Hands'
  BY DEF Sorts, Whereabouts, Hands, Placement, Ends, Resets, Busy, InPlace, Gone
<1>2. Placement'
  BY DEF Sorts, Whereabouts, Placement, Ends, Resets, Busy, InPlace, Before, Never, Gone
<1>3. Aim'
  BY DEF Sorts, Whereabouts, Aim, Ends, Gone
<1> QED BY <1>1, <1>2, <1>3 DEF Whereabouts

(***************************************************************************)
(* Every action is of a kind, and keeps types and locals.                  *)
(***************************************************************************)
Sound == TypeOK' /\ Locals'

\* The type invariant names a worker for every connection and target.
LEMMA SortsFact ==
    ASSUME TypeOK
    PROVE  Sorts
BY DEF TypeOK, Sorts, Local, Spot

\* A step that changes only a worker's locals.
LEMMA Quiet ==
    ASSUME TypeOK, NEW w, NEW pc, NEW t, Leads(w, pc, t), UNCHANGED <<open, freed, conn, started, main>>
    PROVE  Sound
BY DEF TypeOK, Leads, Sound

\* The kind of step Pick is: it only turns the worker.
LEMMA PickKind ==
    ASSUME TypeOK, Locals, NEW w \in Workers, Pick(w)
    PROVE  Sound /\ Turns(w)
<1>1. CASE open[w] < HANDOFF_MARGIN
  <2>1. Placed(w, "reserve", 0, w)
    BY <1>1 DEF Pick
  <2>2. Leads(w, "reserve", w)
    BY <2>1, PlacedStep, Named DEF InPlace
  <2> QED
    BY <2>2, Quiet DEF Leads, Turns, Seeking, Pick
<1>2. CASE ~(open[w] < HANDOFF_MARGIN)
  <2> DEFINE r == Considering(w, 0, open[w], w, open[w])
  <2>1. wk' = [wk EXCEPT ![w] = r]
    BY <1>2 DEF Pick
  <2>2. r \in Local /\ r.pc = "consider" /\ r.k = 0
    BY ConsideringLocal, Zero DEF TypeOK
  <2>3. Counter(r.pc, r.k)
    BY <2>2, Zero
  <2> HIDE DEF r
  <2>4. Leads(w, "consider", r.target)
    BY <2>1, <2>2, <2>3, WkSet DEF TypeOK
  <2> QED
    BY <2>4, Quiet DEF Leads, Turns, Seeking, Pick
<1> QED BY <1>1, <1>2

\* The kind of step Consider is: it only turns the worker.
LEMMA ConsiderKind ==
    ASSUME TypeOK, Locals, NEW w \in Workers, Consider(w)
    PROVE  Sound /\ Turns(w)
<1>0. /\ wk[w].mine \in 0..UMAX /\ wk[w].least \in 0..UMAX /\ wk[w].best \in Workers
      /\ wk[w].k \in 0..(N + PICK_SAMPLES)
  BY DEF TypeOK, Local
<1>1. CASE wk[w].k < Samples
  <2>1. PICK i \in Probes(wk[w].k) :
           wk' = [wk EXCEPT ![w] =
               IF open[i] < wk[w].least
               THEN Considering(w, wk[w].k + 1, wk[w].mine, i, open[i])
               ELSE Considering(w, wk[w].k + 1, wk[w].mine, wk[w].best, wk[w].least)]
    BY <1>1 DEF Consider
  <2>2. i \in Workers /\ wk[w].k + 1 \in 0..(N + PICK_SAMPLES) /\ wk[w].k + 1 <= Samples
    BY <1>0, <1>1, Constants DEF Probes, Samples, Workers
  <2>3. open[i] \in 0..UMAX
    BY <2>2 DEF TypeOK
  <2>0. wk \in [Workers -> Local]
    BY DEF TypeOK
  <2> DEFINE a == Considering(w, wk[w].k + 1, wk[w].mine, i, open[i])
             b == Considering(w, wk[w].k + 1, wk[w].mine, wk[w].best, wk[w].least)
             r == IF open[i] < wk[w].least THEN a ELSE b
  <2>a. a \in Local /\ a.pc = "consider" /\ a.k = wk[w].k + 1
    BY <1>0, <2>0, <2>2, <2>3, ConsideringLocal
  <2>b. b \in Local /\ b.pc = "consider" /\ b.k = wk[w].k + 1
    BY <1>0, <2>0, <2>2, ConsideringLocal
  <2>5. wk' = [wk EXCEPT ![w] = r]
    BY <2>1
  <2> HIDE DEF a, b
  <2>4. r \in Local /\ r.pc = "consider" /\ r.k = wk[w].k + 1
    BY <2>a, <2>b
  <2> HIDE DEF r
  <2>6. Counter(r.pc, r.k)
    BY <2>2, <2>4 DEF Counter, Before
  <2>7. Leads(w, "consider", r.target)
    BY <2>4, <2>5, <2>6, WkSet DEF TypeOK
  <2> QED
    BY <2>7, Quiet DEF Leads, Turns, Seeking, Consider
<1>2. CASE ~(wk[w].k < Samples)
  <2> DEFINE t == IF wk[w].mine - wk[w].least >= HANDOFF_MARGIN THEN wk[w].best ELSE w
  <2>1. t \in Workers /\ Placed(w, "reserve", 0, t)
    BY <1>0, <1>2 DEF Consider
  <2>2. Leads(w, "reserve", t)
    BY <2>1, PlacedStep, Named DEF InPlace
  <2> QED
    BY <2>2, Quiet DEF Leads, Turns, Seeking, Consider
<1> QED BY <1>1, <1>2

\* The kind of step Reserve is: it takes a slot.
LEMMA ReserveKind ==
    ASSUME TypeOK, Locals, NEW w \in Workers, NEW t \in Workers,
           wk[w].pc \in Seeking, Reserve(w, t)
    PROVE  Sound /\ Takes(w, t)
<1>1. Leads(w, "placed", t)
  BY PlacedStep, Named DEF Reserve, InPlace
<1>2. open' \in [Workers -> 0..UMAX]
  BY CountStep DEF TypeOK, Reserve
<1>3. Sound
  BY <1>1, <1>2 DEF Reserve, TypeOK, Leads, Sound
<1> QED BY <1>1, <1>3 DEF Reserve, Leads, Takes

\* The kind of step ReservePicked is: it only turns the worker, or takes a slot.
LEMMA ReservePickedKind ==
    ASSUME TypeOK, Locals, NEW w \in Workers, ReservePicked(w)
    PROVE  Sound /\ (Turns(w) \/ \E t \in Workers : Takes(w, t))
<1>1. CASE Reserve(w, wk[w].target)
  BY <1>1, ReserveKind, SortsFact DEF ReservePicked, Sorts, Seeking
<1>2. CASE Placed(w, "own", 0, w) /\ UNCHANGED <<open, freed, conn, started, main>>
  <2>1. Leads(w, "own", w)
    BY <1>2, PlacedStep, Named DEF InPlace
  <2> QED BY <1>2, <2>1, Quiet DEF Leads, Turns, Seeking, ReservePicked
<1> QED BY <1>1, <1>2 DEF ReservePicked

\* The kind of step ReserveOwn is: it only turns the worker, or takes a slot.
LEMMA ReserveOwnKind ==
    ASSUME TypeOK, Locals, NEW w \in Workers, ReserveOwn(w)
    PROVE  Sound /\ (Turns(w) \/ \E t \in Workers : Takes(w, t))
<1>1. CASE Reserve(w, w)
  BY <1>1, ReserveKind DEF ReserveOwn, Seeking
<1>2. CASE Placed(w, "scan", 0, w) /\ UNCHANGED <<open, freed, conn, started, main>>
  <2>1. Leads(w, "scan", w)
    BY <1>2, PlacedStep, Named DEF InPlace
  <2> QED BY <1>2, <2>1, Quiet DEF Leads, Turns, Seeking, ReserveOwn
<1> QED BY <1>1, <1>2 DEF ReserveOwn

\* The kind of step ReserveAny is: it only turns the worker, or takes a slot.
LEMMA ReserveAnyKind ==
    ASSUME TypeOK, Locals, NEW w \in Workers, ReserveAny(w)
    PROVE  Sound /\ (Turns(w) \/ \E t \in Workers : Takes(w, t))
<1>0. wk[w].k \in 0..(N + PICK_SAMPLES) /\ wk[w].detached \in BOOLEAN /\ wk[w].top \in BOOLEAN
  BY DEF TypeOK, Local
<1>1. CASE wk[w].k < N /\ Reserve(w, wk[w].k)
  <2>1. wk[w].k \in Workers
    BY <1>0, <1>1, Constants DEF Workers
  <2> QED BY <1>1, <2>1, ReserveKind DEF ReserveAny, Seeking
<1>2. CASE /\ wk[w].k < N /\ Placed(w, "scan", wk[w].k + 1, w)
           /\ UNCHANGED <<open, freed, conn, started, main>>
  <2>1. wk[w].k + 1 \in 0..(N + PICK_SAMPLES) /\ wk[w].k + 1 <= N
    BY <1>0, <1>2, Constants
  <2>2. Counter("scan", wk[w].k + 1)
    BY <2>1 DEF Counter, Before
  <2>3. "scan" \in Labels
    BY Named DEF InPlace
  <2>4. wk' = [wk EXCEPT ![w] = Placing(w, "scan", wk[w].k + 1, w, wk[w].detached, wk[w].top)]
    BY <1>2 DEF Placed
  <2>5. Leads(w, "scan", w)
    BY <1>0, <2>1, <2>2, <2>3, <2>4, PlacingStep DEF TypeOK
  <2> QED BY <1>2, <2>5, Quiet DEF Leads, Turns, Seeking, ReserveAny
<1>3. CASE Placed(w, "full", 0, w) /\ UNCHANGED <<open, freed, conn, started, main>>
  <2>1. Leads(w, "full", w)
    BY <1>3, PlacedStep, Named DEF InPlace
  <2> QED BY <1>3, <2>1, Quiet DEF Leads, Turns, Seeking, ReserveAny
<1> QED BY <1>1, <1>2, <1>3 DEF ReserveAny

\* A step that releases a slot, and one that leaves the counts alone.
LEMMA GivesBack ==
    ASSUME TypeOK, NEW t \in Workers, Release(t)
    PROVE  open' \in [Workers -> 0..UMAX] /\ freed' \subseteq Workers /\ open' = Released(t)
BY CountStep DEF TypeOK, Release

\* A step of one worker that moves one connection keeps the types.
LEMMA Moves ==
    ASSUME TypeOK, NEW w, NEW pc, NEW t, Leads(w, pc, t), NEW c, NEW place, NEW v,
           Lies(c, place, v), UNCHANGED <<started, main>>,
           open' \in [Workers -> 0..UMAX], freed' \subseteq Workers
    PROVE  Sound
BY DEF TypeOK, Leads, Lies, Sound

\* Where route returns to.
LEMMA AfterRouteStep ==
    ASSUME TypeOK, Locals, NEW w \in Workers, AfterRoute(w)
    PROVE  \E pc \in {"top", "check"} : Leads(w, pc, w)
<1> DEFINE l == IF wk[w].top THEN "check" ELSE "top"
<1>1. l \in Labels /\ l \in {"top", "check"}
  BY Named DEF InLoop
<1>2. Return(w, l)
  BY DEF AfterRoute
<1> HIDE DEF l
<1>3. Leads(w, l, w)
  BY <1>1, <1>2, ReturnStep
<1> QED BY <1>1, <1>3

\* The kind of step PlacedHere is: it settles or drops a connection.
LEMMA PlacedHereKind ==
    ASSUME TypeOK, Locals, NEW w \in Workers, PlacedHere(w)
    PROVE  Sound /\ \E c \in Conns : Settles(w, c) \/ Drops(w, c, w)
<1>1. PICK c \in At("hand", w) : Serve(w, c)
  BY DEF PlacedHere
<1>2. c \in Conns /\ conn[c].at = "hand" /\ conn[c].w = w
  BY DEF At
<1>3. PICK pc \in {"top", "check"} : Leads(w, pc, w)
  BY AfterRouteStep DEF PlacedHere
<1>4. CASE Move(c, "serving", w) /\ UNCHANGED <<open, freed>>
  <2>1. Lies(c, "serving", w)
    BY <1>2, <1>4, MoveStep DEF TypeOK, Places
  <2>2. Sound
    BY <1>3, <1>4, <2>1, Moves DEF TypeOK, PlacedHere
  <2>3. Settles(w, c)
    BY <1>2, <1>3, <1>4, <2>1 DEF Settles, Leads, Lies, PlacedHere
  <2> QED BY <1>2, <2>2, <2>3
<1>5. CASE Move(c, "failed", w) /\ Release(w)
  <2>1. Lies(c, "failed", w)
    BY <1>2, <1>5, MoveStep DEF TypeOK, Places
  <2>2. Sound
    BY <1>3, <1>5, <2>1, Moves, GivesBack DEF PlacedHere
  <2>3. Drops(w, c, w)
    BY <1>2, <1>3, <1>5, <2>1, GivesBack DEF Drops, Finals, Leads, Lies, PlacedHere
  <2> QED BY <1>2, <2>2, <2>3
<1> QED BY <1>1, <1>4, <1>5 DEF Serve

\* The kind of step PlacedElsewhere is: it only turns the worker.
LEMMA PlacedElsewhereKind ==
    ASSUME TypeOK, Locals, NEW w \in Workers, PlacedElsewhere(w)
    PROVE  Sound /\ Turns(w)
<1>1. Leads(w, "send", wk[w].target)
  BY GotoPlain, Named DEF PlacedElsewhere, InPlace, Before
<1> QED BY <1>1, Quiet DEF Leads, Turns, PlacedElsewhere

\* The kind of step DetachFails is: it drops a connection.
LEMMA DetachFailsKind ==
    ASSUME TypeOK, Locals, NEW w \in Workers, DetachFails(w)
    PROVE  Sound /\ \E c \in Conns, t \in Workers : Drops(w, c, t)
<1> DEFINE t == wk[w].target
<1>0. t \in Workers
  BY SortsFact DEF Sorts
<1>1. PICK c \in At("hand", w) : Move(c, "failed", w)
  BY DEF DetachFails
<1>2. c \in Conns /\ conn[c].at = "hand" /\ conn[c].w = w
  BY DEF At
<1>3. Leads(w, "top", w)
  BY ReturnStep, Named DEF DetachFails, InLoop
<1>4. Lies(c, "failed", w)
  BY <1>1, <1>2, MoveStep DEF TypeOK, Places
<1>5. Release(t)
  BY DEF DetachFails
<1>6. Sound
  BY <1>0, <1>3, <1>4, <1>5, Moves, GivesBack DEF DetachFails
<1>7. Drops(w, c, t)
  BY <1>0, <1>2, <1>3, <1>4, <1>5, GivesBack DEF Drops, Finals, Leads, Lies, DetachFails
<1> QED BY <1>0, <1>2, <1>6, <1>7

\* The kind of step Send is: it only turns the worker.
LEMMA SendKind ==
    ASSUME TypeOK, Locals, NEW w \in Workers, Send(w)
    PROVE  Sound /\ Turns(w)
<1>1. Leads(w, "landing", wk[w].target)
  BY GotoPlain, Named DEF Send, InPlace, Before
<1> QED BY <1>1, Quiet DEF Leads, Turns, Send

\* The kind of step SendRefused is: it retires a worker.
LEMMA SendRefusedKind ==
    ASSUME TypeOK, Locals, NEW w \in Workers, SendRefused(w)
    PROVE  Sound /\ \E t \in Workers : Retires(w, t)
<1> DEFINE t == wk[w].target
<1>0. t \in Workers /\ wk[w].top \in BOOLEAN
  BY DEF TypeOK, Local
<1>1. "pick" \in Labels
  BY Named DEF InPlace
<1>2. Leads(w, "pick", w)
  BY <1>0, <1>1, Zero, PlacingStep DEF SendRefused, TypeOK
<1>3. open' = [open EXCEPT ![t] = RETIRED]
  BY DEF SendRefused, Retire
<1>4. open' \in [Workers -> 0..UMAX]
  BY <1>0, <1>3, CountStep DEF TypeOK
<1>5. Sound
  BY <1>2, <1>4 DEF SendRefused, TypeOK, Leads, Sound
<1>6. Retires(w, t)
  BY <1>2, <1>3 DEF Retires, Leads, SendRefused
<1> QED BY <1>0, <1>5, <1>6

\* The kind of step Land is: it settles a connection.
LEMMA LandKind ==
    ASSUME TypeOK, Locals, NEW w \in Workers, Land(w)
    PROVE  Sound /\ \E c \in Conns : Settles(w, c)
<1> DEFINE t == wk[w].target
           place == IF wk[t].pc \in Gone THEN "reset" ELSE "queued"
<1>0. t \in Workers /\ place \in Places
  BY SortsFact DEF Sorts, Places
<1>1. PICK c \in At("hand", w) : Move(c, place, t)
  BY DEF Land
<1>2. c \in Conns /\ conn[c].at = "hand" /\ conn[c].w = w
  BY DEF At
<1>3. PICK pc \in {"top", "check"} : Leads(w, pc, w)
  BY AfterRouteStep DEF Land
<1>4. Lies(c, place, t)
  BY <1>0, <1>1, <1>2, MoveStep DEF TypeOK
<1>5. Sound
  BY <1>3, <1>4, Moves DEF Land, TypeOK
<1>6. Settles(w, c)
  BY <1>2, <1>3, <1>4 DEF Settles, Leads, Lies, Land
<1> QED BY <1>2, <1>5, <1>6

\* The kind of step Hold is: it carries a connection.
LEMMA HoldKind ==
    ASSUME TypeOK, Locals, NEW w \in Workers, Hold(w)
    PROVE  Sound /\ \E c \in Conns : Carries(w, c)
<1>1. PICK c \in At("hand", w), place \in {"held", "failed"} : Move(c, place, w)
  BY DEF Hold
<1>2. c \in Conns /\ conn[c].at = "hand" /\ conn[c].w = w
  BY DEF At
<1>3. PICK pc \in {"top", "check"} : Leads(w, pc, w)
  BY AfterRouteStep DEF Hold
<1>4. Lies(c, place, w)
  BY <1>1, <1>2, MoveStep DEF TypeOK, Places
<1>5. Sound
  BY <1>3, <1>4, Moves DEF Hold, TypeOK
<1>6. Carries(w, c)
  BY <1>2, <1>3, <1>4 DEF Carries, Leads, Lies, Hold
<1> QED BY <1>2, <1>5, <1>6

\* The kind of step Top is: it only turns the worker, or carries a connection.
LEMMA TopKind ==
    ASSUME TypeOK, Locals, NEW w \in Workers, Top(w)
    PROVE  Sound /\ (Turns(w) \/ \E c \in Conns : Carries(w, c))
<1>1. wk[w].k = 0
  BY DEF Locals, Counter, Top
<1>2. CASE Goto(w, "retire") /\ UNCHANGED conn
  <2>1. Leads(w, "retire", wk[w].target)
    BY <1>2, GotoPlain, Named DEF Closing, Before
  <2> QED BY <1>2, <2>1, Quiet DEF Leads, Turns, Top, InLoop, Holding
<1>3. CASE Goto(w, "check") /\ UNCHANGED conn
  <2>1. Leads(w, "check", wk[w].target)
    BY <1>1, <1>3, GotoStep, Named, Zero DEF InLoop
  <2> QED BY <1>3, <2>1, Quiet DEF Leads, Turns, Top, InLoop, Holding
<1>4. ASSUME NEW c \in At("held", w), Move(c, "hand", w),
             wk' = [wk EXCEPT ![w] = Placing(w, "pick", 0, w, TRUE, TRUE)]
      PROVE  Sound /\ \E d \in Conns : Carries(w, d)
  <2>1. c \in Conns /\ conn[c].at = "held" /\ conn[c].w = w
    BY DEF At
  <2>2. "pick" \in Labels
    BY Named DEF InPlace
  <2>3. Leads(w, "pick", w)
    BY <1>4, <2>2, Zero, PlacingStep DEF TypeOK
  <2>4. Lies(c, "hand", w)
    BY <1>4, <2>1, MoveStep DEF TypeOK, Places
  <2>5. Sound
    BY <2>3, <2>4, Moves DEF TypeOK, Top
  <2>6. Carries(w, c)
    BY <2>1, <2>3, <2>4 DEF Carries, Leads, Lies, Top
  <2> QED BY <2>1, <2>5, <2>6
<1> QED BY <1>2, <1>3, <1>4 DEF Top

\* The kind of step Check is: it only turns the worker.
LEMMA CheckKind ==
    ASSUME TypeOK, Locals, NEW w \in Workers, Check(w)
    PROVE  Sound /\ Turns(w)
<1>1. PICK pc \in {"parked", "room", "select"} :
          Goto(w, pc) /\ (At("held", w) # {} => pc = "parked")
  BY DEF Check, MustPark
<1>2. wk[w].k = 0
  BY DEF Locals, Counter, Check
<1>3. Leads(w, pc, wk[w].target)
  BY <1>1, <1>2, GotoStep, Named, Zero DEF InLoop
<1> QED BY <1>1, <1>3, Quiet DEF Leads, Turns, Check, InLoop, Holding

\* The kind of step LookForRoom is: it only turns the worker.
LEMMA LookForRoomKind ==
    ASSUME TypeOK, Locals, NEW w \in Workers, LookForRoom(w)
    PROVE  Sound /\ Turns(w)
<1>1. CASE Return(w, "parked") \/ Return(w, "select")
  <2>1. PICK pc \in {"parked", "select"} : Return(w, pc)
    BY <1>1
  <2>2. Leads(w, pc, w)
    BY <2>1, ReturnStep, Named DEF InLoop
  <2> QED BY <2>2, Quiet DEF Leads, Turns, LookForRoom, InLoop, Holding
<1>2. CASE wk[w].k # N /\ wk' = [wk EXCEPT ![w].k = @ + 1]
  <2> DEFINE r == [wk[w] EXCEPT !.k = @ + 1]
  <2>1. wk[w].k \in 0..(N + PICK_SAMPLES) /\ wk[w].k <= N
    BY DEF TypeOK, Local, Locals, Counter, LookForRoom
  <2>2. wk[w].k + 1 \in 0..(N + PICK_SAMPLES) /\ wk[w].k + 1 <= N
    BY <1>2, <2>1, Constants
  <2>3. r \in Local /\ r.pc = "room" /\ r.k = wk[w].k + 1
    BY <2>2 DEF TypeOK, Local, LookForRoom
  <2>4. wk' = [wk EXCEPT ![w] = r]
    BY <1>2
  <2> HIDE DEF r
  <2>5. Counter(r.pc, r.k)
    BY <2>2, <2>3 DEF Counter, Before
  <2>6. Leads(w, "room", r.target)
    BY <2>3, <2>4, <2>5, WkSet DEF TypeOK
  <2> QED BY <2>6, Quiet DEF Leads, Turns, LookForRoom, InLoop, Holding
<1> QED BY <1>1, <1>2 DEF LookForRoom

\* The kind of step Select is: it only turns the worker.
LEMMA SelectKind ==
    ASSUME TypeOK, Locals, NEW w \in Workers, Select(w)
    PROVE  Sound /\ Turns(w)
<1> DEFINE i == Idle(w, "idle")
           r == [i EXCEPT !.recheck = open[w] >= Cap]
<1>1. i \in Local /\ i.pc = "idle" /\ i.k = 0
  <2>1. "idle" \in Labels
    BY Named DEF InLoop
  <2> QED BY <2>1, Zero DEF Idle, Placing, Local
<1>2. (open[w] >= Cap) \in BOOLEAN
  OBVIOUS
<1>3. r \in Local /\ r.pc = "idle" /\ r.k = 0
  BY <1>1, <1>2 DEF Local
<1>4. wk' = [wk EXCEPT ![w] = r]
  BY DEF Select
<1> HIDE DEF r
<1>5. Leads(w, "idle", r.target)
  BY <1>3, <1>4, Zero, WkSet DEF TypeOK
<1> QED BY <1>5, Quiet DEF Leads, Turns, Select, InLoop, Holding

\* The loop's steps that only go on to another label.
LEMMA LoopKind ==
    ASSUME TypeOK, Locals, NEW w \in Workers, wk[w].pc \in {"idle", "parked", "backoff"},
           NEW pc \in {"top", "backoff", "retire"}, Return(w, pc), pc = "backoff" => wk[w].pc = "idle",
           UNCHANGED <<open, conn, started, main>>, freed' \subseteq freed
    PROVE  Sound /\ Turns(w)
<1>1. Leads(w, pc, w)
  BY ReturnStep, Named DEF InLoop, Closing
<1>2. Sound
  BY <1>1 DEF TypeOK, Leads, Sound
<1> QED BY <1>1, <1>2 DEF Leads, Turns, InLoop, Holding

\* An adopted connection is served, or fails and gives its slot back.
LEMMA AdoptInKind ==
    ASSUME TypeOK, NEW w \in Workers, NEW c \in Conns, AdoptIn(w, c)
    PROVE  \E place \in {"serving", "failed"} :
               /\ Lies(c, place, w)
               /\ open' \in [Workers -> 0..UMAX] /\ freed' \subseteq Workers
               /\ place = "serving" => open' = open
               /\ place = "failed" => open' = Released(w)
<1>1. CASE Move(c, "serving", w) /\ UNCHANGED <<open, freed>>
  <2>1. Lies(c, "serving", w)
    BY <1>1, MoveStep DEF TypeOK, Places
  <2> QED BY <1>1, <2>1 DEF TypeOK
<1>2. CASE Move(c, "failed", w) /\ Release(w)
  <2>1. Lies(c, "failed", w)
    BY <1>2, MoveStep DEF TypeOK, Places
  <2> QED BY <1>2, <2>1, GivesBack
<1> QED BY <1>1, <1>2 DEF AdoptIn

\* The kind of step Adopt is: it settles or drops a connection.
LEMMA AdoptKind ==
    ASSUME TypeOK, Locals, NEW w \in Workers, Adopt(w)
    PROVE  Sound /\ \E c \in Conns : Settles(w, c) \/ Drops(w, c, w)
<1>1. PICK c \in At("queued", w) : AdoptIn(w, c)
  BY DEF Adopt
<1>2. c \in Conns /\ conn[c].at = "queued" /\ conn[c].w = w
  BY DEF At
<1>3. Leads(w, "top", w)
  BY ReturnStep, Named DEF Adopt, InLoop
<1>4. PICK place \in {"serving", "failed"} :
          /\ Lies(c, place, w)
          /\ open' \in [Workers -> 0..UMAX] /\ freed' \subseteq Workers
          /\ place = "serving" => open' = open
          /\ place = "failed" => open' = Released(w)
  BY <1>1, <1>2, AdoptInKind
<1>5. Sound
  BY <1>3, <1>4, Moves DEF Adopt
<1>6. Settles(w, c) \/ Drops(w, c, w)
  BY <1>2, <1>3, <1>4 DEF Settles, Drops, Finals, Leads, Lies, Adopt
<1> QED BY <1>2, <1>5, <1>6

\* The kind of step DrainOne is: it settles or drops a connection.
LEMMA DrainOneKind ==
    ASSUME TypeOK, Locals, NEW w \in Workers, DrainOne(w)
    PROVE  Sound /\ \E c \in Conns : Settles(w, c) \/ Drops(w, c, w)
<1>1. PICK c \in At("hand", w) : AdoptIn(w, c)
  BY DEF DrainOne
<1>2. c \in Conns /\ conn[c].at = "hand" /\ conn[c].w = w
  BY DEF At
<1>3. Leads(w, "drain", wk[w].target)
  BY GotoPlain, Named DEF DrainOne, Closed, Before
<1>4. PICK place \in {"serving", "failed"} :
          /\ Lies(c, place, w)
          /\ open' \in [Workers -> 0..UMAX] /\ freed' \subseteq Workers
          /\ place = "serving" => open' = open
          /\ place = "failed" => open' = Released(w)
  BY <1>1, <1>2, AdoptInKind
<1>5. Sound
  BY <1>3, <1>4, Moves DEF DrainOne
<1>6. Settles(w, c) \/ Drops(w, c, w)
  BY <1>2, <1>3, <1>4 DEF Settles, Drops, Finals, Leads, Lies, DrainOne
<1> QED BY <1>2, <1>5, <1>6

\* The kind of step Accept is: it carries a connection.
LEMMA AcceptKind ==
    ASSUME TypeOK, Locals, NEW w \in Workers, NEW c \in Conns, Accept(w, c)
    PROVE  Sound /\ Carries(w, c)
<1>1. Leads(w, "pick", w)
  BY ReturnStep, Named DEF Accept, InPlace
<1>2. Lies(c, "hand", w)
  BY MoveStep DEF Accept, TypeOK, Places
<1>3. Sound
  BY <1>1, <1>2, Moves DEF Accept, TypeOK
<1> QED BY <1>1, <1>2, <1>3 DEF Carries, Leads, Lies, Accept

\* A served connection that ends, or is cancelled.
LEMMA EndKind ==
    ASSUME TypeOK, Locals, NEW c \in Conns, NEW w \in Workers, NEW place \in {"ended", "cut"},
           conn[c].at = "serving", conn[c].w = w,
           wk[w].pc \in {"idle", "parked", "backoff", "drain", "grace", "cutting"},
           Move(c, place, w), Release(w), UNCHANGED <<wk, started, main>>
    PROVE  Sound /\ Drops(w, c, w)
<1>1. Lies(c, place, w)
  BY MoveStep DEF TypeOK, Places
<1>2. Locals'
  BY DEF Locals, Counter, Samples
<1>3. Sound
  BY <1>1, <1>2, GivesBack DEF TypeOK, Lies, Sound
<1> QED BY <1>1, <1>3, GivesBack DEF Drops, Finals, Lies, OthersStay

\* The kind of step ConnEnds is: it drops a connection.
LEMMA ConnEndsKind ==
    ASSUME TypeOK, Locals, NEW c \in Conns, ConnEnds(c)
    PROVE  Sound /\ \E w \in Workers : Drops(w, c, w)
<1> DEFINE w == conn[c].w
<1>1. w \in Workers
  BY SortsFact DEF Sorts
<1>2. /\ conn[c].at = "serving" /\ Move(c, "ended", w) /\ Release(w) /\ UNCHANGED <<wk, started, main>>
      /\ wk[w].pc \in {"idle", "parked", "backoff", "drain", "grace"}
  BY DEF ConnEnds
<1> QED BY <1>1, <1>2, EndKind

\* The kind of step Cancel is: it drops a connection.
LEMMA CancelKind ==
    ASSUME TypeOK, Locals, NEW w \in Workers, Cancel(w)
    PROVE  Sound /\ \E c \in Conns : Drops(w, c, w)
<1>1. PICK c \in At("serving", w) : Move(c, "cut", w)
  BY DEF Cancel
<1>2. c \in Conns /\ conn[c].at = "serving" /\ conn[c].w = w
  BY DEF At
<1>3. wk[w].pc = "cutting" /\ Release(w) /\ UNCHANGED <<wk, started, main>>
  BY DEF Cancel
<1> QED BY <1>1, <1>2, <1>3, EndKind

\* The kind of step RetireSelf is: it retires a worker.
LEMMA RetireSelfKind ==
    ASSUME TypeOK, Locals, NEW w \in Workers, RetireSelf(w)
    PROVE  Sound /\ Retires(w, w)
<1>1. Leads(w, "close", wk[w].target)
  BY GotoPlain, Named DEF RetireSelf, Closing, Before
<1>2. open' = [open EXCEPT ![w] = RETIRED]
  BY DEF RetireSelf, Retire
<1>3. open' \in [Workers -> 0..UMAX]
  BY <1>2, CountStep DEF TypeOK
<1>4. Sound
  BY <1>1, <1>3 DEF RetireSelf, TypeOK, Leads, Sound
<1> QED BY <1>1, <1>2, <1>4 DEF Retires, Leads, RetireSelf

\* The kind of step Recount is: it recounts.
LEMMA RecountKind ==
    ASSUME TypeOK, Locals, NEW w \in Workers, Recount(w)
    PROVE  Sound /\ \E c \in Conns : Recounts(w, c)
<1>1. PICK c \in IF At("held", w) # {} THEN At("held", w) ELSE At("queued", w) : Move(c, "hand", w)
  BY DEF Recount
<1>2. /\ c \in Conns /\ conn[c].w = w
      /\ conn[c].at = "held" \/ (conn[c].at = "queued" /\ At("held", w) = {})
  BY DEF At
<1>3. Leads(w, "adopting", wk[w].target)
  BY GotoPlain, Named DEF Recount, Closed, Before
<1>4. Lies(c, "hand", w)
  BY <1>1, <1>2, MoveStep DEF TypeOK, Places
<1>5. open' \in [Workers -> 0..UMAX]
  BY CountStep DEF TypeOK, Recount
<1>6. Sound
  BY <1>3, <1>4, <1>5, Moves DEF Recount, TypeOK
<1>7. Recounts(w, c)
  BY <1>2, <1>3, <1>4 DEF Recounts, Leads, Lies, Recount
<1> QED BY <1>2, <1>6, <1>7

\* The kind of step CloseInbox is: it only turns the worker.
LEMMA CloseInboxKind ==
    ASSUME TypeOK, Locals, NEW w \in Workers, CloseInbox(w)
    PROVE  Sound /\ Turns(w)
<1>1. Leads(w, "drain", wk[w].target)
  BY GotoPlain, Named DEF CloseInbox, Closed, Before
<1> QED BY <1>1, Quiet DEF Leads, Turns, CloseInbox

\* The kind of step DrainEnds is: it only turns the worker.
LEMMA DrainEndsKind ==
    ASSUME TypeOK, Locals, NEW w \in Workers, DrainEnds(w)
    PROVE  Sound /\ Turns(w)
<1>1. Leads(w, "grace", wk[w].target)
  BY GotoPlain, Named DEF DrainEnds, Closed, Before
<1> QED BY <1>1, Quiet DEF Leads, Turns, DrainEnds

\* The kind of step GraceEnds is: it only turns the worker.
LEMMA GraceEndsKind ==
    ASSUME TypeOK, Locals, NEW w \in Workers, GraceEnds(w)
    PROVE  Sound /\ Turns(w)
<1>1. Leads(w, "cutting", wk[w].target)
  BY GotoPlain, Named DEF GraceEnds, Closed, Before
<1> QED BY <1>1, Quiet DEF Leads, Turns, GraceEnds

\* The kind of step Exit is: it only turns the worker.
LEMMA ExitKind ==
    ASSUME TypeOK, Locals, NEW w \in Workers, Exit(w)
    PROVE  Sound /\ Turns(w)
<1>1. Leads(w, "exited", w)
  BY ReturnStep, Named DEF Exit, Gone
<1> QED BY <1>1, Quiet DEF Leads, Turns, Exit

\* The kind of step Announce is: it only turns the worker.
LEMMA AnnounceKind ==
    ASSUME TypeOK, Locals, NEW w \in Workers, Announce(w)
    PROVE  Sound /\ Turns(w)
<1>1. wk[w].k = 0
  BY DEF Locals, Counter, Announce, Before
<1>2. Leads(w, "making", wk[w].target)
  BY <1>1, GotoStep, Named, Zero DEF Announce, Before
<1>3. Sound
  BY <1>2 DEF Announce, TypeOK, Leads, Sound
<1> QED BY <1>2, <1>3 DEF Leads, Turns, Announce

\* The kind of step Made is: it only turns the worker.
LEMMA MadeKind ==
    ASSUME TypeOK, Locals, NEW w \in Workers, Made(w)
    PROVE  Sound /\ Turns(w)
<1>1. wk[w].k = 0
  BY DEF Locals, Counter, Made, Before
<1>2. Leads(w, "top", wk[w].target)
  BY <1>1, GotoStep, Named, Zero DEF Made, InLoop
<1> QED BY <1>2, Quiet DEF Leads, Turns, Made

\* A dropped inbox resets what was queued in it.
LEMMA ResetStep ==
    ASSUME TypeOK, NEW ws, InboxesDropped(ws)
    PROVE  conn' \in [Conns -> Spot] /\ Resets(ws)
<1>1. ASSUME NEW c \in Conns
      PROVE  /\ conn[c] \in Spot /\ [conn[c] EXCEPT !.at = "reset"] \in Spot
             /\ [conn[c] EXCEPT !.at = "reset"].at = "reset"
             /\ [conn[c] EXCEPT !.at = "reset"].w = conn[c].w
  BY DEF TypeOK, Spot, Places
<1> QED BY <1>1 DEF InboxesDropped, Resets

\* The kind of step Perish is: the worker perishes.
LEMMA PerishKind ==
    ASSUME TypeOK, Locals, NEW w \in Workers, wk[w].pc \in Before, NEW pc \in Never,
           Goto(w, pc), InboxesDropped({w}), open' = open \/ open' = [open EXCEPT ![w] = RETIRED],
           main' \in ServeWith, UNCHANGED <<freed, started>>
    PROVE  Sound /\ Perishes(w) /\ wk'[w].pc = pc
<1>1. Leads(w, pc, wk[w].target)
  BY GotoPlain, Named DEF Never, Gone, Before
<1>2. conn' \in [Conns -> Spot] /\ Resets({w})
  BY ResetStep
<1>3. open' \in [Workers -> 0..UMAX]
  BY CountStep DEF TypeOK
<1>4. Sound
  BY <1>1, <1>2, <1>3 DEF TypeOK, Leads, Sound
<1> QED BY <1>1, <1>2, <1>4 DEF Perishes, Leads

(***************************************************************************)
(* The counts, kind by kind.                                               *)
(***************************************************************************)
LEMMA Cards ==
    ASSUME NEW S, S \subseteq Conns
    PROVE  /\ IsFiniteSet(S)
           /\ Cardinality(S) \in Nat
           /\ Cardinality(S) <= Cardinality(Conns)
           /\ \A T : T \subseteq S => Cardinality(T) <= Cardinality(S)
           /\ \A c \in Conns : c \notin S => Cardinality(S \cup {c}) = Cardinality(S) + 1
           /\ \A c \in S : Cardinality(S) >= 1 /\ Cardinality(S \ {c}) = Cardinality(S) - 1
<1>1. IsFiniteSet(S) /\ Cardinality(S) <= Cardinality(Conns)
  BY PoolAssumption, FS_Subset
<1>2. Cardinality(S) \in Nat
  BY <1>1, FS_CardinalityType
<1>3. \A T : T \subseteq S => Cardinality(T) <= Cardinality(S)
  BY <1>1, FS_Subset
<1>4. \A c \in Conns : c \notin S => Cardinality(S \cup {c}) = Cardinality(S) + 1
  BY <1>1, FS_AddElement
<1>5. ASSUME NEW c \in S
      PROVE  Cardinality(S) >= 1 /\ Cardinality(S \ {c}) = Cardinality(S) - 1
  <2>1. Cardinality(S \ {c}) = Cardinality(S) - 1
    BY <1>1, FS_RemoveElement
  <2>2. IsFiniteSet(S \ {c})
    BY <1>1, FS_Subset
  <2>3. Cardinality(S \ {c}) \in Nat
    BY <2>2, FS_CardinalityType
  <2> QED BY <1>2, <2>1, <2>3
<1> QED BY <1>1, <1>2, <1>3, <1>4, <1>5

\* What is counted is connections.
LEMMA Parts ==
    /\ \A v \in Workers : Slots(v) \subseteq Conns /\ Load(v) \subseteq Conns
    /\ Finished \subseteq Conns /\ Recounted \subseteq Conns
BY DEF Slots, Load, Finished, Recounted

Grows == Finished \subseteq Finished' /\ Recounted \subseteq Recounted'

\* The labels divide: a worker lives, or has retired, or never was.
LEMMA Divide ==
    ASSUME NEW w \in Workers
    PROVE  /\ Live(w) <=> wk[w].pc \notin Retired \cup Never
           /\ ~(wk[w].pc \in Retired /\ wk[w].pc \in Never)
BY DEF Live, Retired, Never, Closed, Gone

\* A count that a step leaves alone.
LEMMA CountKept ==
    ASSUME NEW v \in Workers, Count(v), Grows, open \in [Workers -> 0..UMAX], open'[v] = open[v],
           Live(v)' => Live(v) /\ Slots(v)' = Slots(v),
           wk'[v].pc \in Retired => wk[v].pc \in Retired,
           wk'[v].pc \in Never => wk[v].pc \notin Retired /\ Slots(v)' \subseteq Slots(v)
    PROVE  Count(v)'
<1>0. open[v] \in Int
  OBVIOUS
<1>1. /\ Cardinality(Finished) \in Nat /\ Cardinality(Recounted) \in Nat
      /\ Cardinality(Finished') \in Nat /\ Cardinality(Recounted') \in Nat
      /\ Cardinality(Finished) <= Cardinality(Finished')
      /\ Cardinality(Recounted) <= Cardinality(Recounted')
  <2>1. Finished' \subseteq Conns /\ Recounted' \subseteq Conns
    BY DEF Finished, Recounted
  <2> QED BY <2>1, Parts, Cards DEF Grows
<1>2. High(v) => High(v)'
  BY <1>0, <1>1, Constants DEF High
<1>3. Live(v)' => (open[v] = Cardinality(Slots(v)) /\ open[v] <= Cap)'
  BY DEF Count
<1>4. wk'[v].pc \in Retired => High(v)'
  BY <1>2 DEF Count
<1>5. wk'[v].pc \in Never => High(v)' \/ Low(v)'
  <2> SUFFICES ASSUME wk'[v].pc \in Never, ~High(v)
               PROVE  Low(v)'
    BY <1>2
  <2>1. Low(v)
    <3>1. Cardinality(Slots(v)) \in Nat
      BY Parts, Cards
    <3> QED BY <1>0, <3>1, Divide DEF Count, Low
  <2>2. /\ Cardinality(Slots(v)) \in Nat /\ Cardinality(Slots(v)') \in Nat
        /\ Cardinality(Slots(v)') <= Cardinality(Slots(v))
    <3>1. Slots(v)' \subseteq Slots(v)
      OBVIOUS
    <3>2. Slots(v)' \subseteq Conns
      BY <3>1, Parts
    <3> QED BY <3>1, <3>2, Parts, Cards
  <2> QED BY <1>0, <2>1, <2>2, Constants DEF Low
<1> QED BY <1>3, <1>4, <1>5 DEF Count

\* No worker that has retired has room.
LEMMA NoRoom ==
    ASSUME NEW v \in Workers, open \in [Workers -> 0..UMAX], High(v)
    PROVE  open[v] >= Cap
<1>1. Cardinality(Finished) \in Nat /\ Cardinality(Finished) <= Cardinality(Conns)
  BY Parts, Cards
<1>2. open[v] \in Int
  OBVIOUS
<1> QED BY <1>1, <1>2, Constants DEF High

Books == Counts /\ Loads

\* Loads never grow once a worker has retired.
LEMMA LoadKept ==
    ASSUME Loads, NEW v \in Workers, wk[v].pc \in Retired, Load(v)' \subseteq Load(v)
    PROVE  Cardinality(Load(v)') <= Cap + 1
<1>1. Cardinality(Load(v)') <= Cardinality(Load(v)) /\ Cardinality(Load(v)) \in Nat
  BY Parts, Cards
<1>2. Load(v)' \subseteq Conns
  BY Parts
<1>3. Cardinality(Load(v)') \in Nat
  BY <1>2, Cards
<1> QED BY <1>1, <1>3, Constants DEF Loads

\* A worker that only turns keeps the counts: the slots are as they were.
LEMMA TurnsBooks ==
    ASSUME TypeOK, Whereabouts, Books, NEW w \in Workers, Turns(w)
    PROVE  Books'
<1> USE SortsFact
<1>1. \A v \in Workers : Slots(v)' = Slots(v)
  BY DEF Slots, Turns, Sorts, OthersStay, Seeking, InLoop
<1>2. Finished' = Finished /\ Recounted' = Recounted
  BY DEF Finished, Recounted, Turns, Sorts, OthersStay, Seeking, InLoop
<1>3. \A v \in Workers : Load(v)' = Load(v)
  BY <1>1 DEF Load, Turns, Sorts, OthersStay, Seeking, InLoop
<1>4. \A v \in Workers :
          /\ Live(v)' => Live(v)
          /\ wk'[v].pc \in Retired => wk[v].pc \in Retired
          /\ wk'[v].pc \in Never => wk[v].pc \in Never
  BY DEF Live, Turns, OthersStay, Seeking, InLoop, Closed, Gone, Retired, Never
<1>5. Counts'
  <2> SUFFICES ASSUME NEW v \in Workers
               PROVE  Count(v)'
    BY DEF Counts
  <2>1. Grows /\ open'[v] = open[v]
    BY <1>2 DEF Grows, Turns
  <2> QED BY <1>1, <1>4, <2>1, CountKept, Divide DEF Books, Counts, TypeOK
<1>6. Loads'
  BY <1>3, <1>4 DEF Loads, Books
<1> QED BY <1>5, <1>6 DEF Books

\* A reservation adds the slot that it counts.
LEMMA TakesBooks ==
    ASSUME TypeOK, Whereabouts, Books, NEW w \in Workers, NEW t \in Workers, Takes(w, t)
    PROVE  Books'
<1> USE SortsFact
<1>1. PICK c \in Conns : conn[c].at = "hand" /\ conn[c].w = w
  BY DEF Whereabouts, Hands, Takes, Busy, InPlace, Seeking
<1>2. \A v \in Workers \ {t} : Slots(v)' = Slots(v)
  BY DEF Slots, Takes, Sorts, OthersStay, Seeking
<1>3. c \notin Slots(t) /\ Slots(t)' = Slots(t) \cup {c}
  BY <1>1 DEF Slots, Takes, Sorts, OthersStay, Seeking, Whereabouts, Hands
<1>4. Finished' = Finished /\ Recounted' = Recounted
  BY DEF Finished, Recounted, Takes, Sorts, OthersStay, Seeking
<1>5. \A v \in Workers :
          /\ Live(v)' <=> Live(v)
          /\ wk'[v].pc \in Retired <=> wk[v].pc \in Retired
          /\ wk'[v].pc \in Never <=> wk[v].pc \in Never
  BY DEF Live, Takes, OthersStay, Seeking, Closed, Gone, Retired, Never
<1>6. open[t] < Cap /\ open[t] \in Nat /\ open'[t] = open[t] + 1
      /\ \A v \in Workers \ {t} : open'[v] = open[v]
  BY CountStep, Constants DEF Takes, HasRoomFor, TypeOK
<1>7. ~High(t)
  BY <1>6, NoRoom, Constants DEF TypeOK
<1>8. wk[t].pc \notin Retired
  BY <1>7 DEF Books, Counts, Count
<1>9. Counts'
  <2> SUFFICES ASSUME NEW v \in Workers
               PROVE  Count(v)'
    BY DEF Counts
  <2>1. CASE v # t
    <3>1. Grows /\ open'[v] = open[v]
      BY <1>4, <1>6, <2>1 DEF Grows
    <3> QED BY <1>2, <1>5, <2>1, <3>1, CountKept, Divide DEF Books, Counts, TypeOK
  <2>2. CASE v = t
    <3>1. /\ Cardinality(Slots(t)) \in Nat
          /\ Cardinality(Slots(t)') = Cardinality(Slots(t)) + 1
      BY <1>3, Parts, Cards
    <3>2. /\ Live(t) => open[t] = Cardinality(Slots(t))
          /\ wk[t].pc \in Never => Cardinality(Slots(t)) <= open[t]
      BY <1>7 DEF Books, Counts, Count, Low
    <3>3. Live(t)' => (open[t] = Cardinality(Slots(t)) /\ open[t] <= Cap)'
      BY <1>5, <1>6, <3>1, <3>2, Constants
    <3>4. wk'[t].pc \in Never => Low(t)'
      BY <1>5, <1>6, <3>1, <3>2, Constants DEF Low
    <3> QED BY <1>5, <1>8, <2>2, <3>3, <3>4 DEF Count
  <2> QED BY <2>1, <2>2
<1>10. \A v \in Workers : wk'[v].pc \in Retired => Load(v)' \subseteq Load(v)
  BY <1>2, <1>5, <1>8 DEF Load, Takes, Sorts, OthersStay, Seeking
<1>11. Loads'
  BY <1>5, <1>10, LoadKept DEF Loads, Books
<1> QED BY <1>9, <1>11 DEF Books

\* A connection that settles keeps its slot.
LEMMA SettlesBooks ==
    ASSUME TypeOK, Whereabouts, Books, NEW w \in Workers, NEW c \in Conns, Settles(w, c)
    PROVE  Books'
<1> USE SortsFact
<1>1. \A v \in Workers :
          /\ Live(v)' <=> Live(v)
          /\ wk'[v].pc \in Retired <=> wk[v].pc \in Retired
          /\ wk'[v].pc \in Never <=> wk[v].pc \in Never
  BY DEF Live, Settles, OthersStay, Closed, Gone, Retired, Never
<1>2. \A v \in Workers : Live(v) => Slots(v)' = Slots(v)
  BY DEF Live, Slots, Settles, Sorts, OthersStay, OthersLie, Closed, Gone, Whereabouts,
     Hands, Placement, Busy, InPlace
<1>3. \A v \in Workers : wk[v].pc \in Never => Slots(v)' \subseteq Slots(v)
  BY DEF Never, Slots, Settles, Sorts, OthersStay, OthersLie, Whereabouts, Hands,
     Placement, Busy, InPlace
<1>4. Grows
  BY DEF Grows, Finished, Recounted, Finals, Settles, Sorts, OthersStay, OthersLie,
     Whereabouts, Hands, Placement, Busy, InPlace
<1>5. \A v \in Workers : wk[v].pc \in Retired => Load(v)' \subseteq Load(v)
  BY DEF Load, Slots, Retired, Closed, Gone, Settles, Sorts, OthersStay, OthersLie,
     Whereabouts, Hands, Placement, Busy, InPlace
<1>6. Counts'
  <2> SUFFICES ASSUME NEW v \in Workers
               PROVE  Count(v)'
    BY DEF Counts
  <2>1. open'[v] = open[v]
    BY DEF Settles
  <2> QED BY <1>1, <1>2, <1>3, <1>4, <2>1, CountKept, Divide DEF Books, Counts, TypeOK
<1>7. Loads'
  BY <1>1, <1>5, LoadKept DEF Loads, Books
<1> QED BY <1>6, <1>7 DEF Books

\* A connection that is over gives back the one slot it had.
LEMMA DropsBooks ==
    ASSUME TypeOK, Whereabouts, Books, NEW w \in Workers, NEW c \in Conns, NEW t \in Workers,
           Drops(w, c, t)
    PROVE  Books'
<1> USE SortsFact
<1>1. \A v \in Workers :
          /\ Live(v)' <=> Live(v)
          /\ wk'[v].pc \in Retired <=> wk[v].pc \in Retired
          /\ wk'[v].pc \in Never <=> wk[v].pc \in Never
  BY DEF Live, Drops, OthersStay, Closed, Gone, Retired, Never
<1>2. \A v \in Workers \ {t} : Slots(v)' = Slots(v)
  BY DEF Slots, Drops, Sorts, OthersStay, OthersLie, Finals, Whereabouts, Hands,
     Placement, Busy, InPlace
<1>3. Slots(t)' = Slots(t) \ {c}
  BY DEF Slots, Drops, Sorts, OthersStay, OthersLie, Finals, Whereabouts, Hands,
     Placement, Busy, InPlace
<1>4. wk[t].pc \notin Retired => c \in Slots(t)
  BY DEF Slots, Drops, Retired, Closed
<1>5. c \notin Finished /\ Finished' = Finished \cup {c}
  BY DEF Finished, Finals, Drops, OthersLie
<1>6. Recounted \subseteq Recounted'
  BY DEF Recounted, Finals, Drops, Sorts, OthersStay, OthersLie, Whereabouts, Hands,
     Placement, Busy, InPlace
<1>7. \A v \in Workers : wk[v].pc \in Retired => Load(v)' \subseteq Load(v)
  BY <1>2, <1>3 DEF Load, Retired, Closed, Finals, Drops, Sorts, OthersStay, OthersLie,
     Whereabouts, Hands, Placement, Busy, InPlace
<1>8. Counts'
  <2> SUFFICES ASSUME NEW v \in Workers
               PROVE  Count(v)'
    BY DEF Counts
  <2>1. CASE v # t
    <3>1. Grows
      BY <1>5, <1>6 DEF Grows
    <3>2. open'[v] = open[v]
      BY <2>1, CountStep DEF Drops, TypeOK
    <3> QED BY <1>1, <1>2, <2>1, <3>1, <3>2, CountKept, Divide DEF Books, Counts, TypeOK
  <2>2. CASE v = t
    <3>1. /\ Cardinality(Slots(t)) \in Nat
          /\ Cardinality(Slots(t)') <= Cardinality(Slots(t)) /\ Cardinality(Slots(t)') \in Nat
          /\ c \in Slots(t) => /\ Cardinality(Slots(t)) >= 1
                               /\ Cardinality(Slots(t)') = Cardinality(Slots(t)) - 1
      <4>1. Slots(t)' \subseteq Slots(t) /\ Slots(t)' \subseteq Conns
        BY <1>3, Parts
      <4> QED BY <1>3, <4>1, Parts, Cards
    <3>2. /\ Cardinality(Finished) \in Nat /\ Cardinality(Finished) <= Cardinality(Conns)
          /\ Cardinality(Finished') = Cardinality(Finished) + 1
      BY <1>5, Parts, Cards
    <3>3. /\ Cardinality(Recounted) \in Nat /\ Cardinality(Recounted') \in Nat
          /\ Cardinality(Recounted) <= Cardinality(Recounted')
      <4>1. Recounted' \subseteq Conns
        BY DEF Recounted
      <4> QED BY <1>6, <4>1, Parts, Cards
    <3>4. open[t] \in Nat /\ (open[t] >= 1 => open'[t] = open[t] - 1)
      BY CountStep DEF Drops, TypeOK
    <3>5. High(t) => High(t)'
      <4> SUFFICES ASSUME High(t)
                   PROVE  High(t)'
        OBVIOUS
      <4>1. open[t] >= 1
        BY <3>4, NoRoom, Constants DEF TypeOK
      <4> QED BY <3>2, <3>3, <3>4, <4>1, Constants DEF High
    <3>6. Live(t)' => (open[t] = Cardinality(Slots(t)) /\ open[t] <= Cap)'
      <4> SUFFICES ASSUME Live(t)
                   PROVE  (open[t] = Cardinality(Slots(t)) /\ open[t] <= Cap)'
        BY <1>1
      <4>1. c \in Slots(t)
        BY <1>4, Divide
      <4>2. open[t] = Cardinality(Slots(t)) /\ open[t] <= Cap
        BY DEF Books, Counts, Count
      <4> QED BY <3>1, <3>4, <4>1, <4>2, Constants
    <3>7. wk'[t].pc \in Never => High(t)' \/ Low(t)'
      <4> SUFFICES ASSUME wk[t].pc \in Never, ~High(t)
                   PROVE  Low(t)'
        BY <1>1, <3>5
      <4>1. c \in Slots(t)
        BY <1>4, Divide
      <4>2. Low(t)
        BY DEF Books, Counts, Count
      <4> QED BY <3>1, <3>4, <4>1, <4>2, Constants DEF Low
    <3>8. wk'[t].pc \in Retired => High(t)'
      BY <1>1, <3>5 DEF Books, Counts, Count
    <3> QED BY <2>2, <3>6, <3>7, <3>8 DEF Count
  <2> QED BY <2>1, <2>2
<1>9. Loads'
  BY <1>1, <1>7, LoadKept DEF Loads, Books
<1> QED BY <1>8, <1>9 DEF Books

\* A connection taken up or put aside without a slot counts nowhere.
LEMMA CarriesBooks ==
    ASSUME TypeOK, Whereabouts, Books, NEW w \in Workers, NEW c \in Conns, Carries(w, c)
    PROVE  Books'
<1> USE SortsFact
<1>1. \A v \in Workers :
          /\ Live(v)' <=> Live(v)
          /\ wk'[v].pc \in Retired <=> wk[v].pc \in Retired
          /\ wk'[v].pc \in Never <=> wk[v].pc \in Never
  BY DEF Live, Carries, OthersStay, Closed, Gone, Retired, Never
<1>2. \A v \in Workers : Slots(v)' = Slots(v)
  BY DEF Slots, Carries, Sorts, OthersStay, OthersLie, Whereabouts, Hands, Placement,
     Busy, InPlace
<1>3. Grows
  BY DEF Grows, Finished, Recounted, Finals, Carries, Sorts, OthersStay, OthersLie,
     Whereabouts, Hands, Placement, Busy, InPlace
<1>4. \A v \in Workers : wk[v].pc \in Retired => Load(v)' \subseteq Load(v)
  BY <1>2 DEF Load, Retired, Closed, Carries, Sorts, OthersStay, OthersLie
<1>5. Counts'
  <2> SUFFICES ASSUME NEW v \in Workers
               PROVE  Count(v)'
    BY DEF Counts
  <2>1. open'[v] = open[v]
    BY DEF Carries
  <2> QED BY <1>1, <1>2, <1>3, <2>1, CountKept, Divide DEF Books, Counts, TypeOK
<1>6. Loads'
  BY <1>1, <1>4, LoadKept DEF Loads, Books
<1> QED BY <1>5, <1>6 DEF Books

\* A recount moves a retired count by one, and the recounted by as much.
LEMMA RecountsBooks ==
    ASSUME TypeOK, Whereabouts, Books, NEW w \in Workers, NEW c \in Conns, Recounts(w, c)
    PROVE  Books'
<1> USE SortsFact
<1>1. \A v \in Workers :
          /\ Live(v)' <=> Live(v)
          /\ wk'[v].pc \in Retired <=> wk[v].pc \in Retired
          /\ wk'[v].pc \in Never <=> wk[v].pc \in Never
  BY DEF Live, Recounts, OthersStay, Closed, Gone, Retired, Never
<1>2. \A v \in Workers \ {w} : Slots(v)' = Slots(v)
  BY DEF Slots, Recounts, Sorts, OthersStay, OthersLie, Whereabouts, Hands, Placement,
     Busy, InPlace
<1>3. Finished' = Finished
  BY DEF Finished, Finals, Recounts, OthersLie
<1>4. c \notin Recounted /\ Recounted' = Recounted \cup {c}
  BY DEF Recounted, Finals, Recounts, Sorts, OthersStay, OthersLie, Whereabouts, Hands,
     Placement, Busy, InPlace
<1>5. \A v \in Workers : wk[v].pc \in Retired => Load(v)' \subseteq Load(v)
  BY DEF Load, Slots, Recounts, Sorts, OthersStay, OthersLie, Whereabouts, Hands,
     Placement, Busy, InPlace
<1>6. wk[w].pc \in Retired
  BY DEF Recounts, Retired, Closed
<1>7. Counts'
  <2> SUFFICES ASSUME NEW v \in Workers
               PROVE  Count(v)'
    BY DEF Counts
  <2>1. CASE v # w
    <3>1. Grows
      BY <1>3, <1>4 DEF Grows
    <3>2. open'[v] = open[v]
      BY <2>1, CountStep DEF Recounts, TypeOK
    <3> QED BY <1>1, <1>2, <2>1, <3>1, <3>2, CountKept, Divide DEF Books, Counts, TypeOK
  <2>2. CASE v = w
    <3>1. Cardinality(Finished) \in Nat
      BY Parts, Cards
    <3>2. /\ Cardinality(Recounted) \in Nat
          /\ Cardinality(Recounted') = Cardinality(Recounted) + 1
          /\ Cardinality(Recounted') <= Cardinality(Conns)
      <4>1. Recounted' \subseteq Conns
        BY DEF Recounted
      <4> QED BY <1>4, <4>1, Parts, Cards
    <3>3. High(w)
      BY <1>6 DEF Books, Counts, Count
    <3>4. open[w] < UMAX
      BY <3>2, <3>3, Constants DEF High, TypeOK
    <3>5. open[w] \in Nat /\ open'[w] = open[w] + 1
      BY <3>4, CountStep DEF Recounts, TypeOK
    <3>6. High(w)'
      BY <1>3, <3>1, <3>2, <3>3, <3>5, Constants DEF High
    <3> QED BY <1>1, <1>6, <2>2, <3>6, Divide DEF Count
  <2> QED BY <2>1, <2>2
<1>8. Loads'
  BY <1>1, <1>5, LoadKept DEF Loads, Books
<1> QED BY <1>7, <1>8 DEF Books

\* A retirement is past the cap whatever has finished.
LEMMA RetiredIsHigh ==
    ASSUME NEW v \in Workers, open'[v] = RETIRED
    PROVE  High(v)'
<1>1. Finished' \subseteq Conns /\ Recounted' \subseteq Conns
  BY DEF Finished, Recounted
<1>2. Cardinality(Finished') \in Nat /\ Cardinality(Recounted') \in Nat
  BY <1>1, Cards
<1> QED BY <1>2, Constants DEF High

\* A retirement sets the count past the cap, whatever it was.
LEMMA RetiresBooks ==
    ASSUME TypeOK, Whereabouts, Books, NEW w \in Workers, NEW t \in Workers, Retires(w, t)
    PROVE  Books'
<1> USE SortsFact
<1>1. /\ \A v \in Workers \ {t} :
             /\ Live(v)' <=> Live(v)
             /\ wk'[v].pc \in Retired <=> wk[v].pc \in Retired
             /\ wk'[v].pc \in Never <=> wk[v].pc \in Never
      /\ ~Live(t)'
  BY DEF Live, Retires, InboxOpen, OthersStay, Closed, Gone, Retired, Never
<1>2. \A v \in Workers \ {t} : Slots(v)' = Slots(v)
  BY DEF Slots, Retires, InboxOpen, Closed, Gone, Sorts, OthersStay
<1>3. Slots(t)' \subseteq Slots(t)
  BY DEF Slots, Retires, Sorts, OthersStay
<1>4. Grows
  BY DEF Grows, Finished, Recounted, Finals, Retires, Sorts, OthersStay
<1>5. open'[t] = RETIRED /\ \A v \in Workers \ {t} : open'[v] = open[v]
  BY DEF Retires, TypeOK
<1>6. Counts'
  <2> SUFFICES ASSUME NEW v \in Workers
               PROVE  Count(v)'
    BY DEF Counts
  <2>1. CASE v # t
    BY <1>1, <1>2, <1>4, <1>5, <2>1, CountKept, Divide DEF Books, Counts, TypeOK
  <2>2. CASE v = t
    BY <1>1, <1>5, <2>2, RetiredIsHigh DEF Count
  <2> QED BY <2>1, <2>2
<1>7. Loads'
  <2> SUFFICES ASSUME NEW v \in Workers, wk'[v].pc \in Retired
               PROVE  Cardinality(Load(v)') <= Cap + 1
    BY DEF Loads
  <2>1. CASE wk[v].pc \in Retired
    <3>1. Load(v)' \subseteq Load(v)
      BY <1>2, <1>3, <2>1 DEF Load, Retires, Sorts, OthersStay, Retired, Closed
    <3> QED BY <2>1, <3>1, LoadKept DEF Books
  <2>2. CASE wk[v].pc \notin Retired
    <3>1. v = w /\ wk[w].pc = "retire"
      BY <2>2 DEF Retires, OthersStay, Retired, Closed
    <3>2. Cardinality(Slots(w)) \in Nat /\ Cardinality(Slots(w)) <= Cap
      <4>1. Live(w)
        BY <3>1 DEF Live, Closed, Gone
      <4> QED BY <4>1, Parts, Cards DEF Books, Counts, Count
    <3>3. Load(w)' = Slots(w) \cup {c \in Conns : conn[c].at = "held" /\ conn[c].w = w}
      BY <3>1 DEF Load, Slots, Retires, Sorts, OthersStay, Whereabouts, Placement, Busy, InPlace
    <3>4. CASE \E c \in Conns : conn[c].at = "held" /\ conn[c].w = w
      <4>1. PICK c \in Conns : conn[c].at = "held" /\ conn[c].w = w
        BY <3>4
      <4>2. Load(w)' = Slots(w) \cup {c} /\ c \notin Slots(w)
        BY <3>3, <4>1 DEF Slots, Whereabouts, Hands
      <4> QED BY <3>1, <3>2, <4>2, Parts, Cards, Constants
    <3>5. CASE ~\E c \in Conns : conn[c].at = "held" /\ conn[c].w = w
      <4>1. Load(w)' = Slots(w)
        BY <3>3, <3>5
      <4> QED BY <3>1, <3>2, <4>1, Constants
    <3> QED BY <3>4, <3>5
  <2> QED BY <2>1, <2>2
<1> QED BY <1>6, <1>7 DEF Books

\* A worker that never reached its loop leaves its count low or retired.
LEMMA PerishesBooks ==
    ASSUME TypeOK, Whereabouts, Books, NEW w \in Workers, Perishes(w)
    PROVE  Books'
<1> USE SortsFact
<1>1. /\ \A v \in Workers \ {w} :
             /\ Live(v)' <=> Live(v)
             /\ wk'[v].pc \in Retired <=> wk[v].pc \in Retired
             /\ wk'[v].pc \in Never <=> wk[v].pc \in Never
      /\ ~Live(w)' /\ Live(w) /\ wk'[w].pc \notin Retired
  BY DEF Live, Perishes, OthersStay, Before, Closed, Gone, Retired, Never
<1>2. \A v \in Workers \ {w} : Slots(v)' = Slots(v)
  BY DEF Slots, Perishes, Resets, Sorts, OthersStay, Before, Never
<1>3. Slots(w)' \subseteq Slots(w)
  BY DEF Slots, Perishes, Resets, Sorts, OthersStay, Before, Never
<1>4. Grows
  BY DEF Grows, Finished, Recounted, Finals, Perishes, Resets, Sorts, OthersStay, Before, Never
<1>5. \A v \in Workers : wk'[v].pc \in Retired => Load(v)' \subseteq Load(v)
  BY <1>1, <1>2 DEF Load, Perishes, Resets, Sorts, OthersStay
<1>6. Counts'
  <2> SUFFICES ASSUME NEW v \in Workers
               PROVE  Count(v)'
    BY DEF Counts
  <2>1. CASE v # w
    <3>1. open'[v] = open[v]
      BY <2>1 DEF Perishes, TypeOK
    <3> QED BY <1>1, <1>2, <1>4, <2>1, <3>1, CountKept, Divide DEF Books, Counts, TypeOK
  <2>2. CASE v = w /\ open' = open
    BY <1>1, <1>3, <1>4, <2>2, CountKept, Divide DEF Books, Counts, TypeOK
  <2>3. CASE v = w /\ open' = [open EXCEPT ![w] = RETIRED]
    <3>1. open'[w] = RETIRED
      BY <2>3 DEF TypeOK
    <3> QED BY <1>1, <2>3, <3>1, RetiredIsHigh DEF Count
  <2> QED BY <2>1, <2>2, <2>3 DEF Perishes
<1>7. Loads'
  BY <1>1, <1>5, LoadKept DEF Loads, Books
<1> QED BY <1>6, <1>7 DEF Books

\* serve_with's return keeps the counts.
LEMMA EndsBooks ==
    ASSUME TypeOK, Whereabouts, Books, Ends
    PROVE  Books'
<1> USE SortsFact
<1>1. \A v \in Workers :
          /\ ~Live(v)'
          /\ wk'[v].pc \in Retired => wk[v].pc \in Retired
          /\ wk'[v].pc \in Never => wk[v].pc \notin Retired
  BY DEF Live, Ends, Closed, Gone, Retired, Never
<1>2. \A v \in Workers : Slots(v)' \subseteq Slots(v)
  BY DEF Slots, Ends, Resets, Sorts, Gone
<1>3. Grows
  BY DEF Grows, Finished, Recounted, Finals, Ends, Resets, Sorts, Gone
<1>4. \A v \in Workers : Load(v)' \subseteq Load(v)
  BY <1>2 DEF Load, Ends, Resets, Sorts, Gone
<1>5. Counts'
  <2> SUFFICES ASSUME NEW v \in Workers
               PROVE  Count(v)'
    BY DEF Counts
  <2>1. open'[v] = open[v]
    BY DEF Ends
  <2> QED BY <1>1, <1>2, <1>3, <2>1, CountKept DEF Books, Counts, TypeOK
<1>6. Loads'
  BY <1>1, <1>4, LoadKept DEF Loads, Books
<1> QED BY <1>5, <1>6 DEF Books

(***************************************************************************)
(* The invariant, kind by kind and then action by action.                  *)
(***************************************************************************)
LEMMA Whole ==
    IInv <=> TypeOK /\ Locals /\ Whereabouts /\ Books /\ StartUp
BY DEF IInv, Shape, Whereabouts, Books

\* A worker's steps do not disturb what serve_with has established.
LEMMA StartUpKept ==
    ASSUME StartUp, NEW w \in Workers, OthersStay(w), main' = main,
           started \subseteq Workers, started' = started \/ started' = started \cup {w},
           wk[w].pc \notin Gone \cup {"unspawned"},
           wk'[w].pc \notin {"unspawned", "starting", "dead", "absent"}
    PROVE  StartUp'
BY DEF StartUp, OthersStay, Gone

\* A step that only turns a worker keeps the invariant.
LEMMA TurnsStep ==
    ASSUME IInv, NEW w \in Workers, Sound, Turns(w), wk[w].pc # "unspawned",
           main' = main, started' = started \/ started' = started \cup {w}
    PROVE  IInv'
<1>1. Whereabouts' /\ Books'
  BY SortsFact, TurnsShape, TurnsBooks, Whole
<1>2. wk[w].pc \notin Gone /\ wk'[w].pc \notin {"unspawned", "starting", "dead", "absent"}
  BY DEF Turns, Gone, Seeking, InLoop
<1>3. OthersStay(w) /\ started \subseteq Workers /\ StartUp
  BY Whole DEF Turns, TypeOK
<1>4. StartUp'
  BY <1>2, <1>3, StartUpKept
<1> QED BY <1>1, <1>4 DEF Sound, IInv, Shape, Whereabouts, Books

\* A step that takes a slot keeps the invariant.
LEMMA TakesStep ==
    ASSUME IInv, NEW w \in Workers, NEW t \in Workers, Takes(w, t), Sound, UNCHANGED <<started, main>>
    PROVE  IInv'
<1>1. Whereabouts' /\ Books'
  BY SortsFact, TakesShape, TakesBooks, Whole
<1>2. /\ wk[w].pc \notin Gone \cup {"unspawned"}
      /\ wk'[w].pc \notin {"unspawned", "starting", "dead", "absent"}
  BY DEF Takes, Seeking, Gone
<1>3. OthersStay(w) /\ started \subseteq Workers /\ StartUp
  BY Whole DEF Takes, TypeOK
<1>4. StartUp'
  BY <1>2, <1>3, StartUpKept
<1> QED BY <1>1, <1>4 DEF Sound, IInv, Shape, Whereabouts, Books

\* A step that settles a connection keeps the invariant.
LEMMA SettlesStep ==
    ASSUME IInv, NEW w \in Workers, NEW c \in Conns, Settles(w, c), Sound, UNCHANGED <<started, main>>
    PROVE  IInv'
<1>1. Whereabouts' /\ Books'
  BY SortsFact, SettlesShape, SettlesBooks, Whole
<1>2. /\ wk[w].pc \notin Gone \cup {"unspawned"}
      /\ wk'[w].pc \notin {"unspawned", "starting", "dead", "absent"}
  BY DEF Settles, Gone
<1>3. OthersStay(w) /\ started \subseteq Workers /\ StartUp
  BY Whole DEF Settles, TypeOK
<1>4. StartUp'
  BY <1>2, <1>3, StartUpKept
<1> QED BY <1>1, <1>4 DEF Sound, IInv, Shape, Whereabouts, Books

\* A step that drops a connection keeps the invariant.
LEMMA DropsStep ==
    ASSUME IInv, NEW w \in Workers, NEW c \in Conns, NEW t \in Workers, Drops(w, c, t), Sound, UNCHANGED <<started, main>>
    PROVE  IInv'
<1>1. Whereabouts' /\ Books'
  BY SortsFact, DropsShape, DropsBooks, Whole
<1>2. /\ wk[w].pc \notin Gone \cup {"unspawned"}
      /\ wk'[w].pc \notin {"unspawned", "starting", "dead", "absent"}
  BY DEF Drops, Gone
<1>3. OthersStay(w) /\ started \subseteq Workers /\ StartUp
  BY Whole DEF Drops, TypeOK
<1>4. StartUp'
  BY <1>2, <1>3, StartUpKept
<1> QED BY <1>1, <1>4 DEF Sound, IInv, Shape, Whereabouts, Books

\* A step that carries a connection keeps the invariant.
LEMMA CarriesStep ==
    ASSUME IInv, NEW w \in Workers, NEW c \in Conns, Carries(w, c), Sound, UNCHANGED <<started, main>>
    PROVE  IInv'
<1>1. Whereabouts' /\ Books'
  BY SortsFact, CarriesShape, CarriesBooks, Whole
<1>2. /\ wk[w].pc \notin Gone \cup {"unspawned"}
      /\ wk'[w].pc \notin {"unspawned", "starting", "dead", "absent"}
  BY DEF Carries, Gone
<1>3. OthersStay(w) /\ started \subseteq Workers /\ StartUp
  BY Whole DEF Carries, TypeOK
<1>4. StartUp'
  BY <1>2, <1>3, StartUpKept
<1> QED BY <1>1, <1>4 DEF Sound, IInv, Shape, Whereabouts, Books

\* A step that recounts keeps the invariant.
LEMMA RecountsStep ==
    ASSUME IInv, NEW w \in Workers, NEW c \in Conns, Recounts(w, c), Sound, UNCHANGED <<started, main>>
    PROVE  IInv'
<1>1. Whereabouts' /\ Books'
  BY SortsFact, RecountsShape, RecountsBooks, Whole
<1>2. /\ wk[w].pc \notin Gone \cup {"unspawned"}
      /\ wk'[w].pc \notin {"unspawned", "starting", "dead", "absent"}
  BY DEF Recounts, Gone
<1>3. OthersStay(w) /\ started \subseteq Workers /\ StartUp
  BY Whole DEF Recounts, TypeOK
<1>4. StartUp'
  BY <1>2, <1>3, StartUpKept
<1> QED BY <1>1, <1>4 DEF Sound, IInv, Shape, Whereabouts, Books

\* A step that retires a worker keeps the invariant.
LEMMA RetiresStep ==
    ASSUME IInv, NEW w \in Workers, NEW t \in Workers, Retires(w, t), Sound, UNCHANGED <<started, main>>
    PROVE  IInv'
<1>1. Whereabouts' /\ Books'
  BY SortsFact, RetiresShape, RetiresBooks, Whole
<1>2. /\ wk[w].pc \notin Gone \cup {"unspawned"}
      /\ wk'[w].pc \notin {"unspawned", "starting", "dead", "absent"}
  BY DEF Retires, Gone
<1>3. OthersStay(w) /\ started \subseteq Workers /\ StartUp
  BY Whole DEF Retires, TypeOK
<1>4. StartUp'
  BY <1>2, <1>3, StartUpKept
<1> QED BY <1>1, <1>4 DEF Sound, IInv, Shape, Whereabouts, Books

\* A step that ends a worker before its loop keeps the invariant.
LEMMA PerishesStep ==
    ASSUME IInv, NEW w \in Workers, Perishes(w), Sound, StartUp'
    PROVE  IInv'
<1>1. Whereabouts' /\ Books'
  BY SortsFact, PerishesShape, PerishesBooks, Whole
<1> QED BY <1>1 DEF Sound, IInv, Shape, Whereabouts, Books

\* StartFails keeps the invariant.
LEMMA StartFailsStep ==
    ASSUME IInv, NEW w \in Workers, StartFails(w)
    PROVE  IInv'
<1>1. TypeOK /\ Locals /\ StartUp
  BY Whole
<1>2. Sound /\ Perishes(w) /\ wk'[w].pc = "dead"
  BY <1>1, PerishKind DEF StartFails, Before, Never, TypeOK
<1>3. StartUp'
  BY <1>1, <1>2 DEF StartFails, StartUp, Perishes, OthersStay, Gone, TypeOK
<1> QED BY <1>2, <1>3, PerishesStep

\* MakePanics keeps the invariant.
LEMMA MakePanicsStep ==
    ASSUME IInv, NEW w \in Workers, MakePanics(w)
    PROVE  IInv'
<1>1. TypeOK /\ Locals /\ StartUp
  BY Whole
<1>2. Sound /\ Perishes(w) /\ wk'[w].pc = "panicked"
  BY <1>1, PerishKind DEF MakePanics, Before, Never, TypeOK
<1>3. StartUp'
  BY <1>1, <1>2, StartUpKept DEF MakePanics, Perishes, Gone, TypeOK
<1> QED BY <1>2, <1>3, PerishesStep

\* What is known of the workers while serve_with spawns the next.
LEMMA SpawningAt ==
    ASSUME IInv, Spawning
    PROVE  /\ main.next \in Workers /\ wk[main.next].pc = "unspawned" /\ wk[main.next].k = 0
           /\ main.next + 1 \in 0..N /\ main.next \in Int
           /\ [main EXCEPT !.next = @ + 1] \in ServeWith
           /\ [main EXCEPT !.next = @ + 1].next = main.next + 1
           /\ [main EXCEPT !.next = @ + 1].pc = main.pc
           /\ [main EXCEPT !.next = @ + 1].outcome = main.outcome
<1>1. main \in ServeWith /\ main.next \in 0..N
  BY Whole DEF TypeOK, ServeWith
<1>2. main.next \in Workers /\ main.next + 1 \in 0..N
  BY <1>1, Constants DEF Spawning, Workers
<1>3. wk[main.next].pc = "unspawned"
  BY <1>1, <1>2, Whole DEF StartUp, Spawning
<1>4. wk[main.next].k = 0
  BY <1>2, <1>3, Whole DEF Locals, Counter, Before
<1>5. /\ [main EXCEPT !.next = @ + 1] \in ServeWith
      /\ [main EXCEPT !.next = @ + 1].next = main.next + 1
      /\ [main EXCEPT !.next = @ + 1].pc = main.pc
      /\ [main EXCEPT !.next = @ + 1].outcome = main.outcome
  BY <1>1, <1>2 DEF ServeWith
<1> QED BY <1>1, <1>2, <1>3, <1>4, <1>5

\* Spawn keeps the invariant.
LEMMA SpawnStep ==
    ASSUME IInv, Spawn
    PROVE  IInv'
<1> DEFINE w == main.next
<1>0. TypeOK /\ Locals /\ StartUp /\ Whereabouts /\ Books /\ Spawning
  BY Whole DEF Spawn
<1>1. /\ w \in Workers /\ w \in Int /\ wk[w].pc = "unspawned" /\ wk[w].k = 0
      /\ main' \in ServeWith /\ main'.next = w + 1 /\ main'.pc = main.pc /\ main'.outcome = main.outcome
  BY <1>0, SpawningAt DEF Spawn
<1>2. Leads(w, "starting", wk[w].target)
  BY <1>0, <1>1, GotoStep, Named, Zero DEF Spawn, Before
<1>3. Sound
  BY <1>0, <1>1, <1>2 DEF Spawn, TypeOK, Leads, Sound
<1>4. Turns(w)
  BY <1>1, <1>2 DEF Spawn, Turns, Leads
<1>5. Whereabouts' /\ Books'
  BY <1>0, <1>1, <1>4, SortsFact, TurnsShape, TurnsBooks
<1>6. StartUp'
  BY <1>0, <1>1, <1>2 DEF Spawn, Spawning, StartUp, Leads, OthersStay, Workers, TypeOK
<1> QED BY <1>3, <1>5, <1>6 DEF Sound, IInv, Shape, Whereabouts, Books

\* NoListener keeps the invariant.
LEMMA NoListenerStep ==
    ASSUME IInv, NoListener
    PROVE  IInv'
<1> DEFINE w == main.next
<1>0. TypeOK /\ Locals /\ StartUp /\ Spawning
  BY Whole DEF NoListener
<1>1. /\ w \in Workers /\ w \in Int /\ wk[w].pc = "unspawned"
      /\ main' \in ServeWith /\ main'.next = w + 1 /\ main'.pc = main.pc /\ main'.outcome = main.outcome
  BY <1>0, SpawningAt DEF NoListener
<1>2. Sound /\ Perishes(w) /\ wk'[w].pc = "absent"
  BY <1>0, <1>1, PerishKind DEF NoListener, Retire, Before, Never
<1>3. StartUp'
  BY <1>0, <1>1, <1>2 DEF NoListener, Spawning, StartUp, Perishes, OthersStay, Workers, TypeOK
<1> QED BY <1>1, <1>2, <1>3, PerishesStep

\* Giving up on the start makes serve_with's outcome an error.
LEMMA GivenUpFact ==
    ASSUME TypeOK
    PROVE  GivenUp \in ServeWith /\ GivenUp.pc = "join" /\ GivenUp.outcome = "err"
<1>1. main.next \in 0..N /\ main.early \in BOOLEAN
  BY DEF TypeOK, ServeWith
<1> QED BY <1>1 DEF GivenUp, ServeWith

\* SpawnFails keeps the invariant.
LEMMA SpawnFailsStep ==
    ASSUME IInv, SpawnFails
    PROVE  IInv'
<1> DEFINE w == main.next
<1>0. TypeOK /\ Locals /\ StartUp /\ Spawning
  BY Whole DEF SpawnFails
<1>1. w \in Workers /\ wk[w].pc = "unspawned"
  BY <1>0, SpawningAt
<1>2. main' \in ServeWith /\ main'.pc = "join" /\ main'.outcome = "err"
  BY <1>0, GivenUpFact DEF SpawnFails
<1>3. Sound /\ Perishes(w) /\ wk'[w].pc = "absent"
  BY <1>0, <1>1, <1>2, PerishKind DEF SpawnFails, Before, Never
<1>4. StartUp'
  BY <1>0, <1>1, <1>2, <1>3 DEF SpawnFails, StartUp, Perishes, OthersStay, TypeOK
<1> QED BY <1>1, <1>3, <1>4, PerishesStep

\* Steps of serve_with that touch no worker and no connection.
LEMMA MainStep ==
    ASSUME IInv, main' \in ServeWith, StartUp', UNCHANGED <<open, freed, conn, wk, started>>
    PROVE  IInv'
<1>1. TypeOK'
  BY Whole DEF TypeOK
<1>2. Locals' /\ Hands' /\ Placement' /\ Aim'
  BY Whole DEF Whereabouts, Locals, Counter, Samples, Hands, Placement, Aim
<1>3. Finished' = Finished /\ Recounted' = Recounted
  BY DEF Finished, Recounted
<1>4. ASSUME NEW v \in Workers
      PROVE  Slots(v)' = Slots(v) /\ Load(v)' = Load(v) /\ (Live(v)' <=> Live(v))
  BY DEF Slots, Load, Live
<1>5. Counts'
  BY <1>3, <1>4, Whole DEF Books, Counts, Count, High, Low
<1>6. Loads'
  BY <1>4, Whole DEF Books, Loads
<1> QED BY <1>1, <1>2, <1>5, <1>6 DEF IInv, Shape

\* So does a stuttering step.
LEMMA UnchangedStep ==
    ASSUME IInv, UNCHANGED vars
    PROVE  IInv'
<1>1. main' \in ServeWith /\ StartUp'
  BY Whole DEF vars, TypeOK, StartUp
<1> QED BY <1>1, MainStep DEF vars

\* AllSpawned keeps the invariant.
LEMMA AllSpawnedStep ==
    ASSUME IInv, AllSpawned
    PROVE  IInv'
<1>1. main \in ServeWith /\ StartUp
  BY Whole DEF TypeOK
<1>2. main' \in ServeWith /\ main'.pc = "wait"
  BY <1>1 DEF AllSpawned, ServeWith
<1>3. StartUp'
  BY <1>1, <1>2 DEF AllSpawned, StartUp
<1> QED BY <1>2, <1>3, MainStep DEF AllSpawned

\* Every handle has announced itself: none is still starting, none died.
LEMMA AllReachedStep ==
    ASSUME IInv, AllReached
    PROVE  IInv'
<1>1. main \in ServeWith /\ StartUp /\ started \subseteq Workers
  BY Whole DEF TypeOK
<1>2. main' \in ServeWith /\ main'.pc = "join"
  BY <1>1 DEF AllReached, ServeWith
<1>3. ASSUME NEW w \in Workers, wk[w].pc \in {"starting", "dead"}
      PROVE  FALSE
  <2>1. started \subseteq Handles \ {w} /\ w \in Handles
    BY <1>1, <1>3 DEF StartUp, Handles
  <2>2. IsFiniteSet(Handles)
    <3>1. IsFiniteSet(Workers)
      BY FS_Interval, Constants DEF Workers
    <3> QED BY <3>1, FS_Subset DEF Handles
  <2>3. Cardinality(Handles \ {w}) = Cardinality(Handles) - 1 /\ IsFiniteSet(Handles \ {w})
    BY <2>1, <2>2, FS_RemoveElement
  <2>4. Cardinality(started) <= Cardinality(Handles \ {w}) /\ IsFiniteSet(started)
    BY <2>1, <2>3, FS_Subset
  <2>5. Cardinality(Handles) \in Nat /\ Cardinality(started) \in Nat
    BY <2>2, <2>4, FS_CardinalityType
  <2> QED BY <2>3, <2>4, <2>5 DEF AllReached, Reached
<1>4. StartUp'
  BY <1>1, <1>2, <1>3 DEF AllReached, StartUp
<1> QED BY <1>2, <1>4, MainStep DEF AllReached

\* StartTimeout keeps the invariant.
LEMMA StartTimeoutStep ==
    ASSUME IInv, StartTimeout
    PROVE  IInv'
<1>1. TypeOK /\ StartUp
  BY Whole
<1>2. main' \in ServeWith /\ main'.pc = "join" /\ main'.outcome = "err"
  BY <1>1, GivenUpFact DEF StartTimeout
<1>3. StartUp'
  BY <1>1, <1>2 DEF StartTimeout, StartUp
<1> QED BY <1>2, <1>3, MainStep DEF StartTimeout

\* Shutdown keeps the invariant.
LEMMA ShutdownStep ==
    ASSUME IInv, Shutdown
    PROVE  IInv'
<1>1. main \in ServeWith /\ StartUp
  BY Whole DEF TypeOK
<1>2. main' \in ServeWith /\ main'.pc = main.pc /\ main'.outcome = main.outcome /\ main'.next = main.next
  BY <1>1 DEF Shutdown, ServeWith
<1>3. StartUp'
  BY <1>1, <1>2 DEF Shutdown, StartUp
<1> QED BY <1>2, <1>3, MainStep DEF Shutdown

\* Joined keeps the invariant.
LEMMA JoinedStep ==
    ASSUME IInv, Joined
    PROVE  IInv'
<1>0. TypeOK /\ Locals /\ Whereabouts /\ Books /\ StartUp
  BY Whole
<1>1. \A w \in Workers : wk[w].pc \in Gone \cup {"unspawned"}
  BY DEF Joined, Handles, Gone
<1>2. ASSUME NEW w \in Workers
      PROVE  Idle(w, "absent") \in Local /\ Idle(w, "absent").pc = "absent" /\ Idle(w, "absent").k = 0
  <2>1. "absent" \in Labels
    BY Named DEF Gone
  <2> QED BY <2>1, Zero DEF Idle, Placing, Local
<1>3. wk' \in [Workers -> Local]
  BY <1>0, <1>2 DEF Joined, TypeOK
<1>4. \A w \in Workers :
          IF wk[w].pc = "unspawned" THEN wk'[w].pc = "absent" /\ wk'[w].k = 0
          ELSE wk[w].pc \in Gone /\ wk'[w] = wk[w]
  BY <1>1, <1>2 DEF Joined
<1>5. Locals'
  BY <1>0, <1>4, Zero DEF Locals, Counter, Samples
<1>6. conn' \in [Conns -> Spot] /\ Resets({w \in Workers : wk[w].pc = "unspawned"})
  BY <1>0, ResetStep DEF Joined
<1>7. Ends
  BY <1>4, <1>6 DEF Ends, Joined
<1>8. /\ main' \in ServeWith /\ main'.pc = "done"
      /\ main'.outcome = "ok" => /\ main.outcome = "none"
                                 /\ \A w \in Handles : wk[w].pc # "panicked"
  <2>1. main.next \in 0..N /\ main.stop \in BOOLEAN /\ main.early \in BOOLEAN
    BY <1>0 DEF TypeOK, ServeWith
  <2> DEFINE o == IF main.outcome = "none" /\ \A w \in Handles : wk[w].pc /= "panicked"
                  THEN "ok" ELSE "err"
  <2>2. o \in {"none", "ok", "err"}
    OBVIOUS
  <2>3. main' = [pc |-> "done", next |-> main.next, stop |-> main.stop, early |-> main.early,
                 outcome |-> o]
    BY DEF Joined
  <2>4. o = "ok" => main.outcome = "none" /\ \A w \in Handles : wk[w].pc # "panicked"
    OBVIOUS
  <2> HIDE DEF o
  <2>5. main' \in ServeWith /\ main'.pc = "done" /\ main'.outcome = o
    BY <2>1, <2>2, <2>3 DEF ServeWith
  <2> QED BY <2>4, <2>5
<1>9. TypeOK'
  BY <1>0, <1>3, <1>6, <1>8 DEF Joined, TypeOK
<1>10. StartUp'
  <2>1. \A w \in Workers : wk'[w].pc \in Gone
    BY <1>4 DEF Gone
  <2>2. \A w \in started' : wk'[w].pc \notin {"unspawned", "starting", "dead", "absent"}
    BY <1>0, <1>4 DEF Joined, StartUp, TypeOK
  <2>3. main'.outcome = "ok" => \A w \in Workers : wk'[w].pc \in {"exited", "absent"}
    <3> SUFFICES ASSUME main'.outcome = "ok", NEW w \in Workers
                 PROVE  wk'[w].pc \in {"exited", "absent"}
      OBVIOUS
    <3>1. wk[w].pc # "dead"
      BY <1>0, <1>8 DEF StartUp, Joined
    <3>2. wk[w].pc # "panicked"
      BY <1>8 DEF Handles
    <3> QED BY <1>4, <3>1, <3>2 DEF Gone
  <2> QED BY <1>8, <2>1, <2>2, <2>3 DEF StartUp
<1>11. Whereabouts' /\ Books'
  BY <1>0, <1>7, SortsFact, EndsShape, EndsBooks
<1> QED BY <1>5, <1>9, <1>10, <1>11 DEF IInv, Shape, Whereabouts, Books

\* Every action of place keeps the invariant.
LEMMA PlaceStep ==
    ASSUME IInv, NEW w \in Workers, Place(w)
    PROVE  IInv'
<1>0. TypeOK /\ Locals
  BY Whole
<1>1. CASE Pick(w)
  BY <1>0, <1>1, PickKind, TurnsStep DEF Pick
<1>2. CASE Consider(w)
  BY <1>0, <1>2, ConsiderKind, TurnsStep DEF Consider
<1>3. CASE ReservePicked(w)
  BY <1>0, <1>3, ReservePickedKind, TurnsStep, TakesStep DEF ReservePicked, Reserve
<1>4. CASE ReserveOwn(w)
  BY <1>0, <1>4, ReserveOwnKind, TurnsStep, TakesStep DEF ReserveOwn, Reserve
<1>5. CASE ReserveAny(w)
  BY <1>0, <1>5, ReserveAnyKind, TurnsStep, TakesStep DEF ReserveAny, Reserve
<1>6. CASE PlacedHere(w)
  BY <1>0, <1>6, PlacedHereKind, SettlesStep, DropsStep DEF PlacedHere
<1>7. CASE PlacedElsewhere(w)
  BY <1>0, <1>7, PlacedElsewhereKind, TurnsStep DEF PlacedElsewhere
<1>8. CASE DetachFails(w)
  BY <1>0, <1>8, DetachFailsKind, DropsStep DEF DetachFails
<1>9. CASE Send(w)
  BY <1>0, <1>9, SendKind, TurnsStep DEF Send
<1>10. CASE SendRefused(w)
  BY <1>0, <1>10, SendRefusedKind, RetiresStep DEF SendRefused
<1>11. CASE Land(w)
  BY <1>0, <1>11, LandKind, SettlesStep DEF Land
<1>12. CASE Hold(w)
  BY <1>0, <1>12, HoldKind, CarriesStep DEF Hold
<1> QED BY <1>1, <1>2, <1>3, <1>4, <1>5, <1>6, <1>7, <1>8, <1>9, <1>10, <1>11, <1>12 DEF Place

\* Every action of the worker's loop keeps it.
LEMMA LoopStep ==
    ASSUME IInv, NEW w \in Workers, Loop(w)
    PROVE  IInv'
<1>0. TypeOK /\ Locals
  BY Whole
<1>1. CASE Top(w)
  BY <1>0, <1>1, TopKind, TurnsStep, CarriesStep DEF Top
<1>2. CASE Check(w)
  BY <1>0, <1>2, CheckKind, TurnsStep DEF Check
<1>3. CASE LookForRoom(w)
  BY <1>0, <1>3, LookForRoomKind, TurnsStep DEF LookForRoom
<1>4. CASE Select(w)
  BY <1>0, <1>4, SelectKind, TurnsStep DEF Select
<1>5. CASE StopSignalled(w)
  BY <1>0, <1>5, LoopKind, TurnsStep DEF StopSignalled
<1>6. CASE BackoffEnds(w)
  BY <1>0, <1>6, LoopKind, TurnsStep DEF BackoffEnds
<1> QED BY <1>1, <1>2, <1>3, <1>4, <1>5, <1>6 DEF Loop

\* Every action of a worker that shuts down keeps it.
LEMMA LeaveStep ==
    ASSUME IInv, NEW w \in Workers, Leave(w)
    PROVE  IInv'
<1>0. TypeOK /\ Locals
  BY Whole
<1>1. CASE RetireSelf(w)
  BY <1>0, <1>1, RetireSelfKind, RetiresStep DEF RetireSelf
<1>2. CASE CloseInbox(w)
  BY <1>0, <1>2, CloseInboxKind, TurnsStep DEF CloseInbox
<1>3. CASE Recount(w)
  BY <1>0, <1>3, RecountKind, RecountsStep DEF Recount
<1>4. CASE DrainOne(w)
  BY <1>0, <1>4, DrainOneKind, SettlesStep, DropsStep DEF DrainOne
<1>5. CASE DrainEnds(w)
  BY <1>0, <1>5, DrainEndsKind, TurnsStep DEF DrainEnds
<1>6. CASE GraceEnds(w)
  BY <1>0, <1>6, GraceEndsKind, TurnsStep DEF GraceEnds
<1>7. CASE Cancel(w)
  BY <1>0, <1>7, CancelKind, DropsStep DEF Cancel
<1>8. CASE Exit(w)
  BY <1>0, <1>8, ExitKind, TurnsStep DEF Exit
<1> QED BY <1>1, <1>2, <1>3, <1>4, <1>5, <1>6, <1>7, <1>8 DEF Leave

\* Every action of a starting worker keeps it.
LEMMA StartStep ==
    ASSUME IInv, NEW w \in Workers, Start(w)
    PROVE  IInv'
<1>0. TypeOK /\ Locals
  BY Whole
<1>1. CASE StartFails(w)
  BY <1>0, <1>1, StartFailsStep
<1>2. CASE Announce(w)
  BY <1>0, <1>2, AnnounceKind, TurnsStep DEF Announce
<1>3. CASE Made(w)
  BY <1>0, <1>3, MadeKind, TurnsStep DEF Made
<1>4. CASE MakePanics(w)
  BY <1>0, <1>4, MakePanicsStep
<1> QED BY <1>1, <1>2, <1>3, <1>4 DEF Start

\* Every action by which a waiting worker wakes keeps it.
LEMMA WakeStep ==
    ASSUME IInv, NEW w \in Workers, Adopt(w) \/ Freed(w) \/ Recheck(w) \/ AcceptFails(w)
    PROVE  IInv'
<1>0. TypeOK /\ Locals
  BY Whole
<1>1. CASE Adopt(w)
  BY <1>0, <1>1, AdoptKind, SettlesStep, DropsStep DEF Adopt
<1>2. CASE Freed(w)
  BY <1>0, <1>2, LoopKind, TurnsStep DEF Freed
<1>3. CASE Recheck(w)
  BY <1>0, <1>3, LoopKind, TurnsStep DEF Recheck
<1>4. CASE AcceptFails(w)
  BY <1>0, <1>4, LoopKind, TurnsStep DEF AcceptFails
<1> QED BY <1>1, <1>2, <1>3, <1>4

\* Every step keeps the invariant.
LEMMA NextStep ==
    ASSUME IInv, Next
    PROVE  IInv'
<1>0. TypeOK /\ Locals
  BY Whole
<1>1. ASSUME NEW w \in Workers,
             Place(w) \/ Loop(w) \/ Leave(w) \/ Start(w)
             \/ Adopt(w) \/ Freed(w) \/ Recheck(w) \/ AcceptFails(w)
      PROVE  IInv'
  BY <1>1, PlaceStep, LoopStep, LeaveStep, StartStep, WakeStep
<1>2. ASSUME NEW w \in Workers, NEW c \in Conns, Accept(w, c)
      PROVE  IInv'
  BY <1>0, <1>2, AcceptKind, CarriesStep DEF Accept
<1>3. ASSUME NEW c \in Conns, ConnEnds(c)
      PROVE  IInv'
  BY <1>0, <1>3, ConnEndsKind, DropsStep DEF ConnEnds
<1>4. CASE Main
  BY <1>4, SpawnStep, NoListenerStep, SpawnFailsStep, AllSpawnedStep, AllReachedStep,
     StartTimeoutStep, JoinedStep DEF Main
<1>5. CASE Shutdown
  BY <1>5, ShutdownStep
<1>6. CASE Over
  BY <1>6, UnchangedStep DEF Over
<1> QED BY <1>1, <1>2, <1>3, <1>4, <1>5, <1>6 DEF Next

\* The invariant holds before the first worker is spawned.
LEMMA InitStep ==
    ASSUME Init
    PROVE  IInv
<1>0. 0 \in Workers
  BY Constants DEF Workers
<1>1. ASSUME NEW w \in Workers
      PROVE  /\ Idle(w, "unspawned") \in Local
             /\ Idle(w, "unspawned").pc = "unspawned" /\ Idle(w, "unspawned").k = 0
  <2>1. "unspawned" \in Labels
    BY Named DEF Before
  <2> QED BY <2>1, Zero DEF Idle, Placing, Local
<1>2. \A w \in Workers : wk[w].pc = "unspawned" /\ wk[w].k = 0 /\ open[w] = 0
  BY <1>1 DEF Init
<1>3. \A c \in Conns : conn[c].at = "new"
  BY DEF Init
<1>4. main \in ServeWith /\ main.pc = "spawn"
  <2>1. 0 \in 0..N
    BY Constants
  <2> QED BY <2>1 DEF Init, ServeWith
<1>5. TypeOK
  <2>1. open \in [Workers -> 0..UMAX] /\ wk \in [Workers -> Local]
    BY <1>1, Zero DEF Init
  <2>2. conn \in [Conns -> Spot]
    BY <1>0 DEF Init, Spot, Places
  <2> QED BY <1>4, <2>1, <2>2 DEF Init, TypeOK
<1>6. Locals
  BY <1>2, Zero DEF Locals
<1>7. Whereabouts
  BY <1>2, <1>3 DEF Whereabouts, Hands, Placement, Aim, Busy, InPlace
<1>8. StartUp
  BY <1>2, <1>4 DEF StartUp, Init
<1>9. \A w \in Workers : Slots(w) = {}
  BY <1>3 DEF Slots
<1>10. Books
  BY <1>2, <1>9, FS_EmptySet, Constants DEF Books, Counts, Count, Loads, Retired, Never, Closed
<1> QED BY <1>5, <1>6, <1>7, <1>8, <1>10, Whole

\* The invariant holds for ever.
LEMMA Inductive == Spec => []IInv
<1>1. Init => IInv
  BY InitStep
<1>2. IInv /\ [Next]_vars => IInv'
  BY NextStep, UnchangedStep
<1> QED BY <1>1, <1>2, PTL DEF Spec

(***************************************************************************)
(* What follows from the invariant.                                        *)
(***************************************************************************)
\* However many workers reserve, hand over, retire and recount, every count
\* stays within its word and every thread and connection within the model's
\* names for it.
THEOREM PoolTyped == Spec => []TypeOK
<1>1. IInv => TypeOK
  BY DEF IInv
<1> QED BY <1>1, Inductive, PTL

\* Balance's counts are exact: no sequence of reservations, handoffs, failed
\* detaches, failed adoptions, refused sends and closed connections leaks a
\* slot of a worker that has not retired, or gives one back twice.
THEOREM CountsExact == Spec => []SlotsAccounted
<1>1. IInv => SlotsAccounted
  BY DEF IInv, Counts, Count, SlotsAccounted
<1> QED BY <1>1, Inductive, PTL

\* Balance::reserve's cap is per worker and exact, reservations in flight
\* included, and a draining worker serves at most the one it held beyond it.
THEOREM CapNeverExceeded == Spec => []CapHeld
<1>1. ASSUME IInv
      PROVE  CapHeld
  <2> SUFFICES ASSUME NEW w \in Workers
               PROVE  IF Live(w) THEN Cardinality(Slots(w)) <= Cap
                      ELSE Cardinality(At("serving", w)) <= Cap + 1
    BY DEF CapHeld
  <2>1. CASE Live(w)
    BY <1>1, <2>1 DEF IInv, Counts, Count
  <2>2. CASE wk[w].pc \in Retired
    <3>1. At("serving", w) \subseteq Load(w)
      BY DEF At, Load, Slots
    <3>2. /\ Cardinality(At("serving", w)) <= Cardinality(Load(w))
          /\ Cardinality(Load(w)) \in Nat /\ Cardinality(At("serving", w)) \in Nat
      <4>1. At("serving", w) \subseteq Conns
        BY DEF At
      <4> QED BY <3>1, <4>1, Parts, Cards
    <3>3. Cardinality(Load(w)) <= Cap + 1
      BY <1>1, <2>2 DEF IInv, Loads
    <3> QED BY <2>2, <3>2, <3>3, Divide, Constants
  <2>3. CASE wk[w].pc \in Never
    <3>1. At("serving", w) = {}
      BY <1>1, <2>3 DEF At, IInv, Shape, Placement
    <3> QED BY <2>3, <3>1, FS_EmptySet, Divide, Constants
  <2> QED BY <2>1, <2>2, <2>3, Divide
<1> QED BY <1>1, Inductive, PTL

\* "A retired worker is always past" the cap: the releases and recounts that
\* follow Balance::retire never bring its count back to where a handoff
\* could reserve it.
THEOREM RetirementLasts == Spec => []RetiredStaysOut
<1>1. ASSUME IInv
      PROVE  RetiredStaysOut
  <2> SUFFICES ASSUME NEW w \in Workers, wk[w].pc \in Retired
               PROVE  open[w] >= Cap
    BY DEF RetiredStaysOut, Retired
  <2> QED BY <1>1, NoRoom DEF IInv, TypeOK, Counts, Count
<1> QED BY <1>1, Inductive, PTL

\* `pending` never has to hold two: a worker has at most one accepted
\* connection that it has not placed.
THEOREM NeverTwoUnplaced == Spec => []OneUnplaced
<1>1. ASSUME IInv
      PROVE  OneUnplaced
  <2> SUFFICES ASSUME NEW w \in Workers
               PROVE  Cardinality(At("hand", w) \cup At("held", w)) <= 1
    BY DEF OneUnplaced
  <2> DEFINE S == At("hand", w) \cup At("held", w)
  <2>1. S = {} \/ \E c \in Conns : S = {c}
    BY <1>1 DEF At, IInv, Shape, Hands
  <2>2. Cardinality({}) = 0 /\ \A c \in Conns : Cardinality({c}) = 1
    BY FS_EmptySet, FS_Singleton
  <2> QED BY <2>1, <2>2
<1> QED BY <1>1, Inductive, PTL

\* Nothing queued is left behind by a worker that drained its inbox, and a
\* handoff is reset only by a worker that never entered its loop.
THEOREM InboxesDrained == Spec => []NoneStranded
<1>1. IInv => NoneStranded
  BY DEF IInv, Shape, Placement, NoneStranded, Never
<1> QED BY <1>1, Inductive, PTL

\* serve_with's return: no worker and no connection outlives it, and Ok means
\* that every spawned worker ran its loop to the end.
THEOREM ReturnIsFinal == Spec => []ReturnMeansGone
<1>1. ASSUME IInv
      PROVE  ReturnMeansGone
  <2> SUFFICES ASSUME main.pc = "done"
               PROVE  /\ \A w \in Workers : wk[w].pc \in Gone
                      /\ \A c \in Conns : conn[c].at \notin {"hand", "held", "queued", "serving"}
                      /\ main.outcome = "ok" => \A w \in Workers : wk[w].pc \in {"exited", "absent"}
    BY DEF ReturnMeansGone
  <2>1. StartUp /\ Placement /\ Sorts
    BY <1>1, SortsFact DEF IInv, Shape
  <2>2. \A w \in Workers : wk[w].pc \in Gone
    BY <2>1 DEF StartUp
  <2>3. \A c \in Conns : conn[c].at \notin {"hand", "held", "queued", "serving"}
    BY <2>1, <2>2 DEF Placement, Sorts, Busy, InPlace, Gone, Before, Never
  <2> QED BY <2>1, <2>2, <2>3 DEF StartUp
<1> QED BY <1>1, Inductive, PTL

=============================================================================
