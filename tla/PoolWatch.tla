----------------------------- MODULE PoolWatch -----------------------------
(***************************************************************************)
(* WatchRegistry of pools.py: the thread that refills one pool again and   *)
(* again, started and stopped with the pool.  A start saves the state of   *)
(* the pool, refills it and then asks the registry for a thread; a pause   *)
(* stops the registered thread and waits a few seconds for its end.  A     *)
(* watcher refills as Pools describes; a watcher that finds an error ends. *)
(***************************************************************************)
EXTENDS Pools

CONSTANTS
    Watchers,     \* threads; one is created per start that finds none
    Managers,     \* requests that start and pause the pool
    NoThread,
    MaxAsks       \* bound: starts and pauses

ASSUME ManagersAssumption ==
    MaxAsks \in Nat /\
    Watchers \cup Managers = Refillers /\ Watchers \cap Managers = {} /\ NoThread \notin Refillers

VARIABLES
    thread,       \* _threads[pool]
    handle,       \* _stops[pool]: the thread whose event it is
    stop,         \* the stop event of each thread
    loop,         \* where each watcher is
    manager,      \* what each request does
    asks

watchVars == <<poolVars, thread, handle, stop, loop, manager, asks>>
registry == <<thread, handle>>

Alive(w) == loop[w] \notin {"new", "dead"}

WatchTypeOK ==
    /\ PoolTypeOK
    /\ thread \in Watchers \cup {NoThread} /\ handle \in Watchers \cup {NoThread}
    /\ stop \in [Watchers -> BOOLEAN]
    /\ loop \in [Watchers -> {"new", "opening", "looking", "refilling", "told", "sleeping", "leaving", "dead"}]
    /\ manager \in [Managers -> {"idle", "saving", "refilling", "starting", "pausing", "joining"}]
    /\ asks \in 0..MaxAsks

-----------------------------------------------------------------------------
(* A watcher: watch and _run *)

Step(w, from, to) == loop[w] = from /\ loop' = [loop EXCEPT ![w] = to]

\* Mutant: a thread looks at its event only when it begins.
BegunOnward(w, on) == IF stop[w] /\ loop[w] = "opening" THEN "leaving" ELSE on

Onward(w, on) == IF stop[w] THEN "leaving" ELSE on

Open(w) ==
    /\ Step(w, "opening", Onward(w, "looking"))
    /\ UNCHANGED <<poolVars, registry, stop, manager>>

\* A tick: deferred before the next attempt is due, a refill otherwise.
Look(w) ==
    /\ Step(w, "looking", IF pool.due THEN "refilling" ELSE "told")
    /\ UNCHANGED <<poolVars, registry, stop, manager>>

StartRefill(w) ==
    /\ loop[w] = "refilling"
    /\ UNCHANGED <<registry, stop, loop, manager>>
    /\ Load(w)

GoOn(w) ==
    /\ loop[w] = "refilling"
    /\ UNCHANGED <<registry, stop, loop, manager>>
    /\ MovePhases(w)

\* The refill returns its status, or raises.
EndRefill(w) ==
    /\ UNCHANGED <<registry, stop, manager>>
    /\ \E raises \in BOOLEAN :
          /\ Step(w, "refilling", IF raises THEN "leaving" ELSE "told")
          /\ FinishRefill(w, raises)

\* on_status
Told(w) ==
    /\ Step(w, "told", Onward(w, "sleeping"))
    /\ UNCHANGED <<poolVars, registry, stop, manager>>

\* The sleep ends with its interval, or at once when the event is set.
Wake(w) ==
    /\ Step(w, "sleeping", Onward(w, "looking"))
    /\ UNCHANGED <<poolVars, registry, stop, manager>>

\* The finally clause of _run.
Leave(w) ==
    /\ Step(w, "leaving", "dead")
    /\ IF thread = w THEN thread' = NoThread /\ handle' = NoThread ELSE UNCHANGED registry
    /\ UNCHANGED <<poolVars, stop, manager>>

Watcher(w) ==
    Open(w) \/ Look(w) \/ StartRefill(w) \/ GoOn(w) \/ EndRefill(w) \/ Told(w) \/ Wake(w) \/ Leave(w)

-----------------------------------------------------------------------------
(* Start and pause of the pool *)

Turn(m, from, to) == manager[m] = from /\ manager' = [manager EXCEPT ![m] = to]

Ask(m) ==
    /\ asks < MaxAsks /\ asks' = asks + 1
    /\ Turn(m, "idle", "saving") \/ Turn(m, "idle", "pausing")
    /\ UNCHANGED <<poolVars, registry, stop, loop>>

\* pools_state_for: a start saves the pool as empty.
SaveStarted(m) ==
    /\ Turn(m, "saving", "refilling")
    /\ pool' = [pool EXCEPT !.state = "empty"]
    /\ UNCHANGED <<member, work, call, calls, well, touched, registry, stop, loop>>

RefillOnce(m) ==
    /\ manager[m] = "refilling"
    /\ \/ Load(m) /\ UNCHANGED manager
       \/ MovePhases(m) /\ UNCHANGED manager
       \/ \E raises \in BOOLEAN :
             FinishRefill(m, raises) /\ Turn(m, "refilling", IF raises THEN "idle" ELSE "starting")
    /\ UNCHANGED <<registry, stop, loop>>

Running == thread # NoThread /\ Alive(thread)

\* WatchRegistry.start
StartWatch(m) ==
    /\ Turn(m, "starting", "idle")
    /\ \/ Running /\ UNCHANGED <<registry, loop>>
       \/ /\ ~Running
          /\ \E w \in Watchers :
                /\ loop[w] = "new"
                /\ loop' = [loop EXCEPT ![w] = "opening"]
                /\ thread' = w /\ handle' = w
    /\ UNCHANGED <<poolVars, stop>>

\* WatchRegistry.stop: the event is taken out and set, the thread stays registered.
StopWatch(m) ==
    /\ Turn(m, "pausing", "joining")
    /\ stop' = [w \in Watchers |-> stop[w] \/ w = handle]
    /\ handle' = NoThread
    /\ UNCHANGED <<poolVars, thread, loop>>

\* Mutant: the thread is forgotten whether it ended or not.
ForgottenAnyway == NoThread

\* What stays registered when the join is over.
Forgotten == IF Running THEN thread ELSE NoThread

\* The join ends with the thread, or with its timeout.
Joined(m) ==
    /\ Turn(m, "joining", "idle")
    /\ thread' = Forgotten
    /\ UNCHANGED <<poolVars, handle, stop, loop>>

Requested(m) == SaveStarted(m) \/ RefillOnce(m) \/ StartWatch(m) \/ StopWatch(m) \/ Joined(m)
Manager(m) == Ask(m) \/ (Requested(m) /\ UNCHANGED asks)

-----------------------------------------------------------------------------
WatchInit ==
    /\ PoolInit
    /\ thread = NoThread /\ handle = NoThread
    /\ stop = [w \in Watchers |-> FALSE]
    /\ loop = [w \in Watchers |-> "new"]
    /\ manager = [m \in Managers |-> "idle"]
    /\ asks = 0

Outside ==
    /\ (\E c \in Callers : Call(c)) \/ (\E e \in Endpoints : Age(e)) \/ Due \/ Recover
    /\ UNCHANGED <<registry, stop, loop, manager>>

WatchNext ==
    \/ \E w \in Watchers : Watcher(w) /\ UNCHANGED asks
    \/ \E m \in Managers : Manager(m)
    \/ (Outside /\ UNCHANGED asks)

WatchSpec == WatchInit /\ [][WatchNext]_watchVars

\* A step of a watcher's own; one that lives always has one.
Moves(w) == loop'[w] # loop[w] \/ work'[w] # work[w]
Elsewhere == UNCHANGED <<registry, stop, loop, manager, asks>>

\* Threads run on (weak fairness of Watcher(w), spelled out), time passes, and
\* faults come to an end.
LiveWatchSpec ==
    /\ WatchSpec
    /\ \A w \in Watchers : []<>~Alive(w) \/ []<><<Moves(w)>>_watchVars
    /\ \A e \in Endpoints : WF_watchVars(Elsewhere /\ Age(e))
    /\ WF_watchVars(Elsewhere /\ Due)
    /\ WF_watchVars(Elsewhere /\ Recover)

-----------------------------------------------------------------------------
(* Properties *)

\* Every watcher that lives is the registered one: however starts, pauses whose
\* wait times out and the ends of threads interleave, no pool is watched twice
\* (WatchRegistry).
WatcherRegistered == \A w \in Watchers : Alive(w) => thread = w

\* A watcher that was told to stop ends, wherever the stop met it (stop, _run).
StoppedEnds == \A w \in Watchers : stop[w] ~> ~Alive(w)

\* A watched pool is filled again after whatever was done to it, once
\* endpoints work again (watch, refill).
PoolRestored ==
    (<>[](\E w \in Watchers : Alive(w) /\ ~stop[w])) => []<>(Served(member) >= pool.desired)

=============================================================================
