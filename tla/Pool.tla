-------------------------------- MODULE Pool --------------------------------
(***************************************************************************)
(* The server's threads (src/server.rs): Server::serve_with, which spawns, *)
(* checks and joins the workers; every worker's accept loop; and Balance,  *)
(* the counts and handoff channels they share.                             *)
(*                                                                         *)
(* Workers are the threads 0..N-1.  A worker's program counter names the   *)
(* place its loop has reached; between two labels it touches shared state  *)
(* at most once, so other workers interleave between any two of its loads, *)
(* compare-and-swaps and sends.  Within one worker, connection tasks run   *)
(* only where the loop awaits: each worker is a current-thread runtime.    *)
(*                                                                         *)
(* A connection is where it is: not yet accepted, in its acceptor's hand,  *)
(* held by a worker for want of room, queued in a worker's inbox, served,  *)
(* or gone.  Counts are machine words of the width that UMAX gives.        *)
(***************************************************************************)
EXTENDS Integers, FiniteSets

CONSTANTS
    N,               \* Config::workers
    Conns,           \* the connections clients open
    MaxConnections,  \* Limits::max_connections
    HANDOFF_MARGIN,
    PICK_SAMPLES,
    UMAX             \* usize::MAX

Workers == 0..(N - 1)

\* Balance::new: a limit of zero is one.
Cap == IF MaxConnections = 0 THEN 1 ELSE MaxConnections

\* A mutant of RETIRED: the largest count instead of half of it.
RetiredAtMax == UMAX

RETIRED == UMAX \div 2

ASSUME PoolAssumption ==
    /\ N \in Nat \ {0}
    /\ IsFiniteSet(Conns)
    /\ {MaxConnections, HANDOFF_MARGIN, PICK_SAMPLES, UMAX} \subseteq Nat
    /\ Cap + Cardinality(Conns) <= RETIRED

VARIABLES
    open,     \* Balance::open, the count of each worker
    freed,    \* the workers whose Balance::freed holds a permit
    conn,     \* where each connection is, and at which worker
    wk,       \* each worker's program counter and locals
    started,  \* the workers that announced themselves
    main      \* serve_with's thread and the shutdown flag

vars == <<open, freed, conn, wk, started, main>>

Places == {"new", "hand", "held", "queued", "serving",
           "ended", "failed", "cut", "reset"}

\* Where a worker's loop can be: not spawned; before its loop; in the loop;
\* shutting down; gone.
Before == {"unspawned", "starting", "making"}
InPlace == {"pick", "consider", "reserve", "own", "scan", "placed", "full",
            "send", "landing"}
InLoop == {"top", "check", "room", "select", "idle", "parked", "backoff"}
Closing == {"retire", "close"}
Closed == {"drain", "adopting", "grace", "cutting"}
Gone == {"exited", "dead", "panicked", "absent"}

Labels == Before \cup InPlace \cup InLoop \cup Closing \cup Closed \cup Gone

Local == [pc : Labels, k : 0..(N + PICK_SAMPLES), mine : 0..UMAX, best : Workers,
          least : 0..UMAX, target : Workers, detached : BOOLEAN,
          top : BOOLEAN, recheck : BOOLEAN]

Spot == [at : Places, w : Workers]

ServeWith == [pc : {"spawn", "wait", "join", "done"}, next : 0..N,
              outcome : {"none", "ok", "err"}, stop : BOOLEAN, early : BOOLEAN]

\* One type invariant for the module.  Every count stays in the width of its
\* word, and every connection and thread is somewhere the code has a name for.
TypeOK ==
    /\ open \in [Workers -> 0..UMAX]
    /\ freed \subseteq Workers
    /\ conn \in [Conns -> Spot]
    /\ wk \in [Workers -> Local]
    /\ started \subseteq Workers
    /\ main \in ServeWith

At(place, w) == {c \in Conns : conn[c].at = place /\ conn[c].w = w}

Goto(w, label) == wk' = [wk EXCEPT ![w].pc = label]

Move(c, place, w) == conn' = [conn EXCEPT ![c] = [at |-> place, w |-> w]]

\* A worker's locals: placing a connection; while pick considers; otherwise.
Placing(w, pc, k, target, detached, top) ==
    [pc |-> pc, k |-> k, mine |-> 0, best |-> w, least |-> 0, target |-> target,
     detached |-> detached, top |-> top, recheck |-> FALSE]

Considering(w, k, mine, best, least) ==
    [pc |-> "consider", k |-> k, mine |-> mine, best |-> best, least |-> least,
     target |-> w, detached |-> wk[w].detached, top |-> wk[w].top,
     recheck |-> FALSE]

Idle(w, pc) == Placing(w, pc, 0, w, FALSE, FALSE)

\* The next label of place, for the connection in hand.
Placed(w, pc, k, target) ==
    wk' = [wk EXCEPT ![w] = Placing(w, pc, k, target, wk[w].detached, wk[w].top)]

\* Locals do not outlive the iteration that set them.
Return(w, label) == wk' = [wk EXCEPT ![w] = Idle(w, label)]

Init ==
    /\ open = [w \in Workers |-> 0]
    /\ freed = {}
    /\ conn = [c \in Conns |-> [at |-> "new", w |-> 0]]
    /\ wk = [w \in Workers |-> Idle(w, "unspawned")]
    /\ started = {}
    /\ \E stopped \in BOOLEAN :   \* ServerHandle::shutdown before serve_with
           main = [pc |-> "spawn", next |-> 0, outcome |-> "none",
                   stop |-> stopped, early |-> stopped]

(***************************************************************************)
(* Balance.                                                                *)
(***************************************************************************)
\* A mutant of HasRoomFor: a cap one too high.
HasRoomForOneMore(w) == open[w] <= Cap

\* reserve: the compare-and-swap takes effect at the instant it succeeds.
HasRoomFor(w) == open[w] < Cap
Reserved(w) == [open EXCEPT ![w] = (@ + 1) % (UMAX + 1)]

\* release: fetch_sub, then notify_one.
Released(w) == [open EXCEPT ![w] = (@ + UMAX) % (UMAX + 1)]
Release(w) == open' = Released(w) /\ freed' = freed \cup {w}

\* retire: a store, over whatever count was there.
Retire(w) == open' = [open EXCEPT ![w] = RETIRED]

\* A send succeeds until the receiver is closed or dropped.  The receiver of
\* a worker not spawned yet waits in serve_with's `inboxes`.
InboxOpen(w) == wk[w].pc \notin Closed \cup Gone

\* pick's probes: every worker in order, or PICK_SAMPLES random ones.
Samples == IF N <= PICK_SAMPLES + 1 THEN N ELSE PICK_SAMPLES
Probes(k) == IF N <= PICK_SAMPLES + 1 THEN {k} ELSE Workers

\* place, from its first load of the worker's own count.
Pick(w) ==
    /\ wk[w].pc = "pick"
    /\ IF open[w] < HANDOFF_MARGIN
       THEN Placed(w, "reserve", 0, w)
       ELSE wk' = [wk EXCEPT ![w] = Considering(w, 0, open[w], w, open[w])]
    /\ UNCHANGED <<open, freed, conn, started, main>>

\* One `consider`, and after the last one pick's decision.
Consider(w) ==
    /\ wk[w].pc = "consider"
    /\ IF wk[w].k < Samples
       THEN \E i \in Probes(wk[w].k) :
              wk' = [wk EXCEPT ![w] =
                  IF open[i] < wk[w].least
                  THEN Considering(w, wk[w].k + 1, wk[w].mine, i, open[i])
                  ELSE Considering(w, wk[w].k + 1, wk[w].mine, wk[w].best, wk[w].least)]
       ELSE Placed(w, "reserve", 0,
                   IF wk[w].mine - wk[w].least >= HANDOFF_MARGIN THEN wk[w].best ELSE w)
    /\ UNCHANGED <<open, freed, conn, started, main>>

Reserve(w, t) ==
    /\ HasRoomFor(t)
    /\ open' = Reserved(t)
    /\ Placed(w, "placed", 0, t)
    /\ UNCHANGED <<freed, conn, started, main>>

\* The picked worker, if it is another one and still has room.
ReservePicked(w) ==
    /\ wk[w].pc = "reserve"
    /\ \/ wk[w].target /= w /\ Reserve(w, wk[w].target)
       \/ /\ wk[w].target = w \/ ~HasRoomFor(wk[w].target)
          /\ Placed(w, "own", 0, w)
          /\ UNCHANGED <<open, freed, conn, started, main>>

\* Else this worker.
ReserveOwn(w) ==
    /\ wk[w].pc = "own"
    /\ \/ Reserve(w, w)
       \/ /\ ~HasRoomFor(w)
          /\ Placed(w, "scan", 0, w)
          /\ UNCHANGED <<open, freed, conn, started, main>>

\* Else the first that has room, one compare-and-swap at a time.
ReserveAny(w) ==
    /\ wk[w].pc = "scan"
    /\ \/ wk[w].k < N /\ Reserve(w, wk[w].k)
       \/ /\ wk[w].k < N => ~HasRoomFor(wk[w].k)
          /\ IF wk[w].k < N THEN Placed(w, "scan", wk[w].k + 1, w)
             ELSE Placed(w, "full", 0, w)
          /\ UNCHANGED <<open, freed, conn, started, main>>

(***************************************************************************)
(* What becomes of a placed connection.                                    *)
(***************************************************************************)
\* From the accept arm the loop goes round; from its top, on to the check.
AfterRoute(w) == Return(w, IF wk[w].top THEN "check" ELSE "top")

\* serve: spawn_local with the slot.  adopt adds TcpStream::from_std, whose
\* failure gives the slot back; a connection just accepted needs none.
Serve(w, c) ==
    \/ Move(c, "serving", w) /\ UNCHANGED <<open, freed>>
    \/ wk[w].detached /\ Move(c, "failed", w) /\ Release(w)

PlacedHere(w) ==
    /\ wk[w].pc = "placed" /\ wk[w].target = w
    /\ \E c \in At("hand", w) : Serve(w, c)
    /\ AfterRoute(w)
    /\ UNCHANGED <<started, main>>

\* TcpStream::into_std, for a connection still registered here.
PlacedElsewhere(w) ==
    /\ wk[w].pc = "placed" /\ wk[w].target /= w
    /\ Goto(w, "send")
    /\ UNCHANGED <<open, freed, conn, started, main>>

DetachFails(w) ==
    /\ wk[w].pc = "placed" /\ wk[w].target /= w /\ ~wk[w].detached
    /\ \E c \in At("hand", w) : Move(c, "failed", w)
    /\ Release(wk[w].target)
    /\ Return(w, "top")
    /\ UNCHANGED <<started, main>>

\* The channel's open check; the message lands a step later.
Send(w) ==
    /\ wk[w].pc = "send" /\ InboxOpen(wk[w].target)
    /\ Goto(w, "landing")
    /\ UNCHANGED <<open, freed, conn, started, main>>

\* The target has exited: retire it and place the connection again.
SendRefused(w) ==
    /\ wk[w].pc = "send" /\ ~InboxOpen(wk[w].target)
    /\ Retire(wk[w].target)
    /\ wk' = [wk EXCEPT ![w] = Placing(w, "pick", 0, w, TRUE, wk[w].top)]
    /\ UNCHANGED <<freed, conn, started, main>>

\* In an inbox whose receiver is gone, it is dropped.
Land(w) ==
    /\ wk[w].pc = "landing"
    /\ \E c \in At("hand", w) :
           Move(c, IF wk[wk[w].target].pc \in Gone THEN "reset" ELSE "queued",
                wk[w].target)
    /\ AfterRoute(w)
    /\ UNCHANGED <<open, freed, started, main>>

\* Every worker is full: hold the connection.
Hold(w) ==
    /\ wk[w].pc = "full"
    /\ \E c \in At("hand", w) :
           \/ Move(c, "held", w)
           \/ ~wk[w].detached /\ Move(c, "failed", w)
    /\ AfterRoute(w)
    /\ UNCHANGED <<open, freed, started, main>>

(***************************************************************************)
(* The worker loop.                                                        *)
(***************************************************************************)
\* A mutant of TopSees: a loop that waits for the flag to change.
TransitionOnly == FALSE

TopSees == main.stop

Top(w) ==
    /\ wk[w].pc = "top"
    /\ IF TopSees
       THEN Goto(w, "retire") /\ UNCHANGED conn
       ELSE IF At("held", w) = {} THEN Goto(w, "check") /\ UNCHANGED conn
       ELSE /\ \E c \in At("held", w) : Move(c, "hand", w)
            /\ wk' = [wk EXCEPT ![w] = Placing(w, "pick", 0, w, TRUE, TRUE)]
    /\ UNCHANGED <<open, freed, started, main>>

\* A mutant of MustPark: the held connection overlooked.
HeldOverlooked(w) == FALSE

MustPark(w) == At("held", w) /= {}

\* Whether to accept at all: not with a connection held, and at the cap only
\* while some worker (has_room, one load at a time) is below its own.
Check(w) ==
    /\ wk[w].pc = "check"
    /\ Goto(w, IF MustPark(w) THEN "parked"
               ELSE IF open[w] >= Cap THEN "room" ELSE "select")
    /\ UNCHANGED <<open, freed, conn, started, main>>

LookForRoom(w) ==
    /\ wk[w].pc = "room"
    /\ IF wk[w].k = N THEN Return(w, "parked")
       ELSE IF HasRoomFor(wk[w].k) THEN Return(w, "select")
       ELSE wk' = [wk EXCEPT ![w].k = @ + 1]
    /\ UNCHANGED <<open, freed, conn, started, main>>

\* The recheck arm's condition is evaluated once, as select! is entered.
Select(w) ==
    /\ wk[w].pc = "select"
    /\ wk' = [wk EXCEPT ![w] = [Idle(w, "idle") EXCEPT !.recheck = open[w] >= Cap]]
    /\ UNCHANGED <<open, freed, conn, started, main>>

\* rx.changed(): a flag set before serve_with subscribed never changes.
StopSignalled(w) ==
    /\ wk[w].pc \in {"idle", "parked"} /\ main.stop /\ ~main.early
    /\ Return(w, "retire")
    /\ UNCHANGED <<open, freed, conn, started, main>>

\* A mutant of AdoptIn: a failed adoption that keeps its slot.
AdoptLeaks(w, c) ==
    \/ Move(c, "serving", w) /\ UNCHANGED <<open, freed>>
    \/ Move(c, "failed", w) /\ UNCHANGED <<open, freed>>

AdoptIn(w, c) ==
    \/ Move(c, "serving", w) /\ UNCHANGED <<open, freed>>
    \/ Move(c, "failed", w) /\ Release(w)

Adopt(w) ==
    /\ wk[w].pc \in {"idle", "parked"}
    /\ \E c \in At("queued", w) : AdoptIn(w, c)
    /\ Return(w, "top")
    /\ UNCHANGED <<started, main>>

Freed(w) ==
    /\ wk[w].pc = "parked" /\ w \in freed
    /\ freed' = freed \ {w}
    /\ Return(w, "top")
    /\ UNCHANGED <<open, conn, started, main>>

\* FULL_RECHECK has passed.
Recheck(w) ==
    /\ wk[w].pc = "parked" \/ (wk[w].pc = "idle" /\ wk[w].recheck)
    /\ Return(w, "top")
    /\ UNCHANGED <<open, freed, conn, started, main>>

Accept(w, c) ==
    /\ wk[w].pc = "idle" /\ conn[c].at = "new"
    /\ Move(c, "hand", w)
    /\ Return(w, "pick")
    /\ UNCHANGED <<open, freed, started, main>>

\* A connection that died in the backlog is skipped; a resource failure
\* pauses the loop for ACCEPT_BACKOFF or until the flag changes.
AcceptFails(w) ==
    /\ wk[w].pc = "idle"
    /\ Return(w, "top") \/ Return(w, "backoff")
    /\ UNCHANGED <<open, freed, conn, started, main>>

BackoffEnds(w) ==
    /\ wk[w].pc = "backoff"
    /\ Return(w, "top")
    /\ UNCHANGED <<open, freed, conn, started, main>>

\* ConnSlot's drop, as a connection's task ends.
ConnEnds(c) ==
    LET w == conn[c].w IN
    /\ conn[c].at = "serving"
    /\ wk[w].pc \in {"idle", "parked", "backoff", "drain", "grace"}
    /\ Move(c, "ended", w)
    /\ Release(w)
    /\ UNCHANGED <<wk, started, main>>

(***************************************************************************)
(* A worker's shutdown.                                                    *)
(***************************************************************************)
RetireSelf(w) ==
    /\ wk[w].pc = "retire"
    /\ Retire(w)
    /\ Goto(w, "close")
    /\ UNCHANGED <<freed, conn, started, main>>

CloseInbox(w) ==
    /\ wk[w].pc = "close"
    /\ Goto(w, "drain")
    /\ UNCHANGED <<open, freed, conn, started, main>>

\* The held connection first, then the inbox: each is counted again over the
\* retirement, then adopted.
Recount(w) ==
    /\ wk[w].pc = "drain"
    /\ \E c \in IF At("held", w) /= {} THEN At("held", w) ELSE At("queued", w) :
           Move(c, "hand", w)
    /\ open' = Reserved(w)
    /\ Goto(w, "adopting")
    /\ UNCHANGED <<freed, started, main>>

DrainOne(w) ==
    /\ wk[w].pc = "adopting"
    /\ \E c \in At("hand", w) : AdoptIn(w, c)
    /\ Goto(w, "drain")
    /\ UNCHANGED <<started, main>>

\* A mutant of InboxDrained: try_recv, blind to a send still landing.
TryRecvEmpty(w) == At("queued", w) = {}

\* recv is None only when nothing is queued and no send is landing.
InboxDrained(w) ==
    /\ At("queued", w) = {}
    /\ \A v \in Workers : wk[v].pc = "landing" => wk[v].target /= w

DrainEnds(w) ==
    /\ wk[w].pc = "drain" /\ At("held", w) = {} /\ InboxDrained(w)
    /\ Goto(w, "grace")
    /\ UNCHANGED <<open, freed, conn, started, main>>

\* shutdown_grace has passed: what is left is cancelled, task by task, each
\* giving its slot back as it is dropped.
GraceEnds(w) ==
    /\ wk[w].pc = "grace"
    /\ Goto(w, "cutting")
    /\ UNCHANGED <<open, freed, conn, started, main>>

Cancel(w) ==
    /\ wk[w].pc = "cutting"
    /\ \E c \in At("serving", w) : Move(c, "cut", w)
    /\ Release(w)
    /\ UNCHANGED <<wk, started, main>>

\* The thread returns once its tasks have ended, or have been cancelled.
Exit(w) ==
    /\ wk[w].pc \in {"grace", "cutting"} /\ At("serving", w) = {}
    /\ Return(w, "exited")
    /\ UNCHANGED <<open, freed, conn, started, main>>

(***************************************************************************)
(* Starting up, and serve_with's own thread.                               *)
(***************************************************************************)
\* A receiver dropped with connections queued in it closes them.
InboxesDropped(ws) ==
    conn' = [c \in Conns |-> IF conn[c].at = "queued" /\ conn[c].w \in ws
                             THEN [conn[c] EXCEPT !.at = "reset"] ELSE conn[c]]

\* A runtime that will not build, a listener that will not register.
StartFails(w) ==
    /\ wk[w].pc = "starting"
    /\ Goto(w, "dead")
    /\ InboxesDropped({w})
    /\ UNCHANGED <<open, freed, started, main>>

Announce(w) ==
    /\ wk[w].pc = "starting"
    /\ started' = started \cup {w}
    /\ Goto(w, "making")
    /\ UNCHANGED <<open, freed, conn, main>>

\* make, make_fallback and make_upgrade are the caller's, and may panic.
Made(w) ==
    /\ wk[w].pc = "making"
    /\ Goto(w, "top")
    /\ UNCHANGED <<open, freed, conn, started, main>>

MakePanics(w) ==
    /\ wk[w].pc = "making"
    /\ Goto(w, "panicked")
    /\ InboxesDropped({w})
    /\ UNCHANGED <<open, freed, started, main>>

\* A mutant of Spawning: one worker too many.
SpawnsOneMore == main.pc = "spawn" /\ main.next <= N

Spawning == main.pc = "spawn" /\ main.next < N

Spawn ==
    /\ Spawning
    /\ Goto(main.next, "starting")
    /\ main' = [main EXCEPT !.next = @ + 1]
    /\ UNCHANGED <<open, freed, conn, started>>

\* The shared listener could not be cloned: the worker is skipped.
NoListener ==
    /\ Spawning
    /\ Goto(main.next, "absent")
    /\ InboxesDropped({main.next})
    /\ Retire(main.next)
    /\ main' = [main EXCEPT !.next = @ + 1]
    /\ UNCHANGED <<freed, started>>

\* A mutant of GivenUp: the error returned at once, the workers left behind.
ReturnedAtOnce == [main EXCEPT !.pc = "done", !.outcome = "err"]

\* Stop the workers already started, then wait for them.
GivenUp == [pc |-> "join", next |-> main.next, outcome |-> "err", stop |-> TRUE,
            early |-> main.early]

SpawnFails ==
    /\ Spawning
    /\ Goto(main.next, "absent")
    /\ InboxesDropped({main.next})
    /\ main' = GivenUp
    /\ UNCHANGED <<open, freed, started>>

Handles == {w \in Workers : wk[w].pc \notin {"unspawned", "absent"}}

AllSpawned ==
    /\ main.pc = "spawn" /\ main.next = N
    /\ main' = [main EXCEPT !.pc = "wait"]
    /\ UNCHANGED <<open, freed, conn, wk, started>>

Reached == Cardinality(started) >= Cardinality(Handles)

AllReached ==
    /\ main.pc = "wait" /\ Reached
    /\ main' = [main EXCEPT !.pc = "join"]
    /\ UNCHANGED <<open, freed, conn, wk, started>>

\* WORKER_START_TIMEOUT has passed.
StartTimeout ==
    /\ main.pc = "wait" /\ ~Reached
    /\ main' = GivenUp
    /\ UNCHANGED <<open, freed, conn, wk, started>>

\* join_all, and serve_with's result.  Receivers never taken go with it.
Joined ==
    /\ main.pc = "join"
    /\ \A w \in Handles : wk[w].pc \in Gone
    /\ main' = [pc |-> "done", next |-> main.next, stop |-> main.stop, early |-> main.early,
                outcome |-> IF main.outcome = "none"
                               /\ \A w \in Handles : wk[w].pc /= "panicked"
                            THEN "ok" ELSE "err"]
    /\ InboxesDropped({w \in Workers : wk[w].pc = "unspawned"})
    /\ wk' = [w \in Workers |-> IF wk[w].pc = "unspawned"
                                THEN Idle(w, "absent") ELSE wk[w]]
    /\ UNCHANGED <<open, freed, started>>

\* ServerHandle::shutdown.
Shutdown ==
    /\ ~main.stop
    /\ main' = [main EXCEPT !.stop = TRUE]
    /\ UNCHANGED <<open, freed, conn, wk, started>>

Over == main.pc = "done" /\ main.stop /\ UNCHANGED vars

(***************************************************************************)
(* The specification.                                                      *)
(***************************************************************************)
Place(w) ==
    \/ Pick(w) \/ Consider(w) \/ ReservePicked(w) \/ ReserveOwn(w)
    \/ ReserveAny(w) \/ PlacedHere(w) \/ PlacedElsewhere(w) \/ DetachFails(w)
    \/ Send(w) \/ SendRefused(w) \/ Land(w) \/ Hold(w)

Loop(w) ==
    \/ Top(w) \/ Check(w) \/ LookForRoom(w) \/ Select(w)
    \/ StopSignalled(w) \/ BackoffEnds(w)

Leave(w) ==
    \/ RetireSelf(w) \/ CloseInbox(w) \/ Recount(w) \/ DrainOne(w)
    \/ DrainEnds(w) \/ GraceEnds(w) \/ Cancel(w) \/ Exit(w)

Start(w) == StartFails(w) \/ Announce(w) \/ Made(w) \/ MakePanics(w)

Main ==
    \/ Spawn \/ NoListener \/ SpawnFails \/ AllSpawned \/ AllReached
    \/ StartTimeout \/ Joined

Next ==
    \/ \E w \in Workers :
           \/ Place(w) \/ Loop(w) \/ Leave(w) \/ Start(w)
           \/ Adopt(w) \/ Freed(w) \/ Recheck(w) \/ AcceptFails(w)
           \/ \E c \in Conns : Accept(w, c)
    \/ \E c \in Conns : ConnEnds(c)
    \/ Main \/ Shutdown \/ Over

Spec == Init /\ [][Next]_vars

\* A worker's own steps, and the select! arms that other threads make ready.
Thread(w) == Place(w) \/ Loop(w) \/ Leave(w) \/ Start(w)
Wake(w) == Adopt(w) \/ Freed(w)

\* Threads are scheduled, and a thread's sleeps end; a select! arm that keeps
\* becoming ready is taken, as select! polls its arms in random order; and
\* connections end, as their deadlines make them (module Connection).
Fairness ==
    /\ WF_vars(Main)
    /\ \A w \in Workers : WF_vars(Thread(w)) /\ SF_vars(Wake(w))
    /\ SF_vars(\E c \in Conns : ConnEnds(c))

FairSpec == Spec /\ Fairness

(***************************************************************************)
(* What the pool promises.                                                 *)
(***************************************************************************)
\* Until a worker retires, its count means something.
Live(w) == wk[w].pc \notin {"close"} \cup Closed \cup Gone

\* The connections that hold one of w's slots: served by it, queued for it,
\* or in the hand of a worker that has reserved it.
Slots(w) ==
    {c \in Conns :
        \/ conn[c].at \in {"serving", "queued"} /\ conn[c].w = w
        \/ /\ conn[c].at = "hand"
           /\ wk[conn[c].w].pc \in {"placed", "send", "landing"}
           /\ wk[conn[c].w].target = w}

\* Balance: "Counts are open connections, handoffs in flight included".
\* Whatever workers reserve on each other, fail to detach, fail to adopt or
\* close, the count of a worker that has not retired is exactly the slots in
\* use: no slot leaks, none is given back twice.
SlotsAccounted ==
    \A w \in Workers : Live(w) => open[w] = Cardinality(Slots(w))

\* Limits::max_connections is "an exact per-worker bound": no interleaving of
\* acceptors takes a live worker past it, reservations included.  A worker
\* draining for shutdown serves at most one more, the connection it held.
CapHeld ==
    \A w \in Workers :
        IF Live(w) THEN Cardinality(Slots(w)) <= Cap
        ELSE Cardinality(At("serving", w)) <= Cap + 1

\* reserve: "a retired worker is always past" the cap.  The releases, recounts
\* and repeated stores that follow a retirement never bring the count of a
\* worker that left its loop back to where a handoff could reserve it.
RetiredStaysOut ==
    \A w \in Workers :
        wk[w].pc \in {"close", "exited"} \cup Closed => open[w] >= Cap

\* `pending` holds one connection, and storing a second would drop the first:
\* a worker never has two accepted connections unplaced.
OneUnplaced ==
    \A w \in Workers : Cardinality(At("hand", w) \cup At("held", w)) <= 1

\* worker_loop: connections queued before shutdown "are served within the
\* grace window rather than reset".  A worker that stops draining leaves
\* nothing in its inbox, and a handoff is lost only to a worker that never
\* entered its loop.
NoneStranded ==
    \A c \in Conns :
        /\ conn[c].at = "queued" => wk[conn[c].w].pc \notin {"grace", "cutting"} \cup Gone
        /\ conn[c].at = "reset" =>
               wk[conn[c].w].pc \in {"dead", "panicked", "absent"}

\* serve_with returns no sooner than its workers are gone, with every
\* connection they served; and Ok means that every worker it spawned reached
\* its loop and left it without a panic.
ReturnMeansGone ==
    main.pc = "done" =>
        /\ \A w \in Workers : wk[w].pc \in Gone
        /\ \A c \in Conns : conn[c].at \notin {"hand", "held", "queued", "serving"}
        /\ main.outcome = "ok" =>
               \A w \in Workers : wk[w].pc \in {"exited", "absent"}

\* Limits::max_connections: "With `n` workers the server as a whole holds at
\* most `n * max_connections`", an accepted connection being held until it is
\* closed.
HoldsAtMostCap ==
    Cardinality({c \in Conns : conn[c].at \in {"held", "queued", "serving"}})
        <= N * Cap

\* A shutdown ends the server, whenever it is signalled: before serve_with,
\* between two spawns, or with workers parked, full, routing or draining.
ShutdownCompletes == main.stop ~> main.pc = "done"

\* A connection accepted is served or closed: none stays held or queued for
\* ever while others end.  (Conns is finite, so if one were stuck there would
\* always be one unplaced.)
AcceptedIsSettled ==
    []<>(\A c \in Conns : conn[c].at \notin {"hand", "held", "queued"})
============================================================================
