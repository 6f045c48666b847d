---------------------------- MODULE Serving_proofs ----------------------------
(***************************************************************************)
(* Theorems about what serves the endpoints.                               *)
(*                                                                         *)
(* About PoolWatch, for any number of threads, requests and endpoints:     *)
(* whatever refills do and however starts, pauses and the ends of threads  *)
(* interleave, one pool has one watcher.                                   *)
(*                                                                         *)
(* About Gateway, for any number of clients, proxies, sessions, slots and  *)
(* attempts: a handler is described by what it holds (its slots, its       *)
(* upstream connections, the address of its session); each step moves one  *)
(* handler and changes the counters by what it takes and gives back.       *)
(***************************************************************************)
EXTENDS PoolWatch, Gateway, FiniteSetTheorems, TLAPS

-----------------------------------------------------------------------------
(* The watchers of a pool *)

\* The part of the state the registry is about; what a refill does to the pool
\* does not matter to it.
RegistryTypeOK ==
    /\ thread \in Watchers \cup {NoThread}
    /\ loop \in [Watchers -> {"new", "opening", "looking", "refilling", "told", "sleeping", "leaving", "dead"}]

WInv == RegistryTypeOK /\ WatcherRegistered

\* A thread that goes on stays alive or ends; no other thread moves.
LEMMA WatcherGoesOn ==
    ASSUME WInv, NEW w \in Watchers, NEW from, NEW to \in {"looking", "refilling", "told", "sleeping", "leaving"},
           from \notin {"new", "dead"}, Step(w, from, to), thread' = thread
    PROVE  WInv'
  <1>1. Alive(w)
    BY DEF Step, Alive
  <1>2. thread = w /\ \A o \in Watchers \ {w} : ~Alive(o)
    BY <1>1 DEF WInv, WatcherRegistered
  <1>3. \A o \in Watchers \ {w} : loop'[o] = loop[o]
    BY DEF Step, WInv, RegistryTypeOK
  <1>4. RegistryTypeOK'
    BY DEF Step, WInv, RegistryTypeOK
  <1>5. WatcherRegistered'
    BY <1>2, <1>3 DEF WatcherRegistered, Alive
  <1>6. QED
    BY <1>4, <1>5 DEF WInv

\* Nothing the registry is about has changed.
LEMMA RegistryUntouched ==
    ASSUME WInv, thread' = thread, loop' = loop PROVE WInv'
  BY DEF WInv, RegistryTypeOK, WatcherRegistered, Alive

\* Where no registered thread runs, none runs at all.
LEMMA NobodyRuns ==
    ASSUME WInv, ~Running PROVE \A w \in Watchers : ~Alive(w)
  <1>1. NoThread \notin Watchers
    BY ManagersAssumption
  <1>2. QED
    BY <1>1 DEF WInv, WatcherRegistered, Running

LEMMA WatcherKeeps ==
    ASSUME WInv, NEW w \in Watchers, Watcher(w) PROVE WInv'
  <1>g. ASSUME NEW on \in {"looking", "sleeping"}
        PROVE  Onward(w, on) \in {"looking", "refilling", "told", "sleeping", "leaving"}
    BY DEF Onward
  <1>1. CASE Open(w)
    BY <1>1, <1>g, WatcherGoesOn DEF Open, registry
  <1>2. CASE Look(w)
    <2>1. PICK to \in {"refilling", "told"} : Step(w, "looking", to)
      BY <1>2 DEF Look
    <2>2. QED
      BY <1>2, <2>1, WatcherGoesOn DEF Look, registry
  <1>3. CASE StartRefill(w) \/ GoOn(w)
    BY <1>3, RegistryUntouched DEF StartRefill, GoOn, registry
  <1>4. CASE EndRefill(w)
    <2>1. PICK raises \in BOOLEAN : Step(w, "refilling", IF raises THEN "leaving" ELSE "told")
      BY <1>4 DEF EndRefill
    <2>2. PICK to \in {"leaving", "told"} : Step(w, "refilling", to)
      BY <2>1
    <2>3. QED
      BY <1>4, <2>2, WatcherGoesOn DEF EndRefill, registry
  <1>5. CASE Told(w)
    BY <1>5, <1>g, WatcherGoesOn DEF Told, registry
  <1>6. CASE Wake(w)
    BY <1>6, <1>g, WatcherGoesOn DEF Wake, registry
  <1>7. CASE Leave(w)
    <2>1. Alive(w) /\ thread = w
      BY <1>7 DEF Leave, Step, Alive, WInv, WatcherRegistered
    <2>2. \A o \in Watchers : ~Alive(o)'
      BY <1>7, <2>1 DEF Leave, Step, Alive, WInv, WatcherRegistered, RegistryTypeOK
    <2>3. RegistryTypeOK'
      BY <1>7, <2>1 DEF Leave, Step, WInv, RegistryTypeOK
    <2>4. QED
      BY <2>2, <2>3 DEF WInv, WatcherRegistered
  <1>8. QED
    BY <1>1, <1>2, <1>3, <1>4, <1>5, <1>6, <1>7 DEF Watcher

\* A request changes the registry when it starts a thread and nobody runs, and
\* when the thread it waited for is gone.
LEMMA ManagerKeeps ==
    ASSUME WInv, NEW m \in Managers, Manager(m) PROVE WInv'
  <1>1. CASE Ask(m) \/ SaveStarted(m) \/ RefillOnce(m)
    BY <1>1, RegistryUntouched DEF Ask, SaveStarted, RefillOnce, registry
  <1>2. CASE StartWatch(m)
    <2>1. CASE Running /\ UNCHANGED <<registry, loop>>
      BY <2>1, RegistryUntouched DEF registry
    <2>2. ASSUME ~Running, NEW w \in Watchers, loop' = [loop EXCEPT ![w] = "opening"], thread' = w
          PROVE  WInv'
      <3>1. \A o \in Watchers \ {w} : ~Alive(o)'
        BY <2>2, NobodyRuns DEF Alive, WInv, RegistryTypeOK
      <3>2. RegistryTypeOK'
        BY <2>2 DEF WInv, RegistryTypeOK
      <3>3. QED
        BY <2>2, <3>1, <3>2 DEF WInv, WatcherRegistered
    <2>3. QED
      BY <1>2, <2>1, <2>2 DEF StartWatch
  <1>3. CASE StopWatch(m)
    BY <1>3, RegistryUntouched DEF StopWatch
  <1>4. CASE Joined(m)
    <2>1. CASE Running
      BY <1>4, <2>1, RegistryUntouched DEF Joined, Forgotten
    <2>2. CASE ~Running
      <3>1. \A w \in Watchers : ~Alive(w)'
        BY <1>4, <2>2, NobodyRuns DEF Joined, Alive
      <3>2. RegistryTypeOK'
        BY <1>4, <2>2 DEF Joined, Forgotten, WInv, RegistryTypeOK
      <3>3. QED
        BY <3>1, <3>2 DEF WInv, WatcherRegistered
    <2>3. QED
      BY <2>1, <2>2
  <1>5. QED
    BY <1>1, <1>2, <1>3, <1>4 DEF Manager, Requested

-----------------------------------------------------------------------------
(* Theorems *)

\* Every watcher that lives is the registered one, so no pool is watched twice:
\* not by a start that follows a pause whose wait timed out, and not by one that
\* meets a thread on its way out.
THEOREM OneWatcher == WatchSpec => []WatcherRegistered
  <1>1. WatchInit => WInv
    BY DEF WatchInit, WInv, RegistryTypeOK, WatcherRegistered, Alive
  <1>2. WInv /\ [WatchNext]_watchVars => WInv'
    <2> SUFFICES ASSUME WInv, [WatchNext]_watchVars PROVE WInv'
      OBVIOUS
    <2>1. ASSUME NEW w \in Watchers, Watcher(w) PROVE WInv'
      BY <2>1, WatcherKeeps
    <2>2. ASSUME NEW m \in Managers, Manager(m) PROVE WInv'
      BY <2>2, ManagerKeeps
    <2>3. CASE Outside
      BY <2>3, RegistryUntouched DEF Outside, registry
    <2>4. CASE UNCHANGED watchVars
      BY <2>4, RegistryUntouched DEF watchVars
    <2>5. QED
      BY <2>1, <2>2, <2>3, <2>4 DEF WatchNext
  <1>3. WInv => WatcherRegistered
    BY DEF WInv
  <1>4. QED
    BY <1>1, <1>2, <1>3, PTL DEF WatchSpec

-----------------------------------------------------------------------------
(* The gateway *)

Places == {"idle", "reading", "connecting", "unwinding", "granting", "relaying"}
Dials == {"none", "dialling", "open", "failed", "cancelled", "gone"}

Handlers ==
    [at : Places, session : Sessions \cup {NoSession}, dial : [Proxies -> Dials],
     late : SUBSET Proxies, lease : Proxies \cup {NoProxy},
     scored : BOOLEAN, cancelled : BOOLEAN, doomed : BOOLEAN]

\* A client has a lease from the end of the race on, a session while it connects,
\* and attempts while it connects or unwinds.  Only a handshake that is a task of
\* its own loses its result.
HandlerOK(k) ==
    /\ k \in Handlers
    /\ k.at \in {"idle", "reading", "connecting"} => k.lease = NoProxy
    /\ k.at \in {"granting", "relaying"} => k.lease \in Proxies
    /\ k.at \notin {"connecting", "unwinding"} => k.dial = NotTried
    /\ k.session # NoSession => k.at = "connecting"
    /\ k.doomed => OwnTask /\ k.at = "unwinding"

\* The slots of a handler.
Own(k) == (IF k.at = "unwinding" THEN {} ELSE Pending(k)) \cup ({k.lease} \ {NoProxy})

\* The upstream connections a handler may have.
Linked(k) ==
    CASE k.at \in {"idle", "reading"} -> {}
      [] k.at = "connecting" -> Ended(k, "open")
      [] k.at = "unwinding" -> Proxies
      [] OTHER -> {k.lease}

\* The upstream connections of a handler are those it may have, and its slots are
\* counted, where no result is lost.  Where one may be, a slot that is held is still
\* counted and a proxy has no more than its limit.
Clean(k, some) == OwnTask \/ some \subseteq Linked(k)

SlotsCounted ==
    \A p \in Proxies :
        LET holders == Cardinality({c \in Clients : p \in Own(client[c])})
        IN  /\ holders <= active[p] /\ (OwnTask \/ holders = active[p])
            /\ Limit = 0 \/ active[p] <= Limit

GatewayTypeOK ==
    /\ rows \subseteq Proxies
    /\ active \in [Proxies -> Int]
    /\ bound \in [Sessions -> Proxies \cup {NoProxy}]
    /\ client \in [Clients -> Handlers] /\ \A c \in Clients : HandlerOK(client[c])
    /\ sockets \in [Clients -> SUBSET Proxies]

\* Strict sessions: every proxy that a client of the session was tried with is
\* the one that the session is bound to.
Tied ==
    \A c \in Clients : client[c].session \in Strict =>
        \A p \in Tried(client[c]) : bound[client[c].session] = p

GInv ==
    /\ GatewayTypeOK
    /\ \A c \in Clients : Clean(client[c], sockets[c])
    /\ SlotsCounted

-----------------------------------------------------------------------------
(* Handlers *)

LEMMA DialledFields ==
    ASSUME NEW k \in Handlers, NEW some, NEW word \in Dials
    PROVE  LET d == Dialled(k, some, word)
           IN  /\ d \in Handlers
               /\ d.at = k.at /\ d.session = k.session /\ d.lease = k.lease /\ d.doomed = k.doomed
               /\ \A p \in Proxies : d.dial[p] = IF p \in some THEN word ELSE k.dial[p]
  BY DEF Dialled, Handlers

LEMMA IdleFields ==
    /\ HandlerOK(Idle)
    /\ Idle.at = "idle" /\ Idle.session = NoSession /\ ~Idle.doomed
    /\ Own(Idle) = {} /\ Linked(Idle) = {} /\ Tried(Idle) = {}
  <1>1. NotTried \in [Proxies -> Dials]
    BY DEF NotTried, Dials
  <1>2. Idle \in Handlers
    BY <1>1 DEF Idle, Handlers, Places
  <1>3. Pending(Idle) = {} /\ Tried(Idle) = {}
    BY DEF Idle, Pending, Tried, NotTried
  <1>4. QED
    BY <1>2, <1>3 DEF HandlerOK, Own, Linked, Idle

LEMMA UnwindingFields ==
    ASSUME NEW k \in Handlers
    PROVE  LET u == Unwinding(k)
           IN  /\ u \in Handlers
               /\ u.at = "unwinding" /\ u.session = NoSession /\ u.lease = k.lease /\ u.doomed = k.doomed
               /\ Own(u) = {k.lease} \ {NoProxy} /\ Linked(u) = Proxies
  <1> DEFINE u == Unwinding(k)
  <1>1. /\ u \in Handlers
        /\ u.at = "unwinding" /\ u.session = NoSession /\ u.lease = k.lease /\ u.doomed = k.doomed
    BY DEF Unwinding, Handlers, Places, Dials
  <1> HIDE DEF u
  <1>2. Own(u) = {k.lease} \ {NoProxy} /\ Linked(u) = Proxies
    BY <1>1 DEF Own, Linked
  <1>3. QED
    BY <1>1, <1>2 DEF u

\* A handler that goes on with its lease.
LEMMA GoesOnFields ==
    ASSUME NEW k \in Handlers, k.session = NoSession, k.lease \in Proxies, ~k.doomed, NEW n \in GoesOn(k)
    PROVE  /\ HandlerOK(n)
           /\ n.session = NoSession /\ n.lease = k.lease /\ n.doomed = k.doomed
           /\ Own(n) = {k.lease} /\ Linked(n) = {k.lease}
  <1>1. PICK at \in {"granting", "relaying"} : n = [k EXCEPT !.at = at, !.dial = NotTried]
    BY DEF GoesOn
  <1>2. NotTried \in [Proxies -> Dials]
    BY DEF NotTried, Dials
  <1>3. /\ n \in Handlers
        /\ n.at \in {"granting", "relaying"} /\ n.dial = NotTried
        /\ n.session = NoSession /\ n.lease = k.lease /\ n.doomed = k.doomed
    BY <1>1, <1>2 DEF Handlers, Places
  <1>4. Pending(n) = {}
    BY <1>3 DEF Pending, NotTried
  <1>5. QED
    BY <1>3, <1>4, NamesAssumption DEF HandlerOK, Own, Linked

-----------------------------------------------------------------------------
(* One handler moves *)

\* c becomes k, with some slots taken and some given back.  A handler that loses its
\* result gives nothing back.
HandlerMoved(c, k, taken, released) ==
    /\ client' = [client EXCEPT ![c] = k]
    /\ HandlerOK(k)
    /\ released \subseteq Own(client[c]) /\ taken \cap Own(client[c]) = {}
    /\ \A p \in taken : Free(p)
    /\ Own(k) = (Own(client[c]) \ released) \cup taken
    /\ \/ active' = Counted(taken, released)
       \/ OwnTask /\ taken = {} /\ active' = active
    /\ sockets' \in [Clients -> SUBSET Proxies]
    /\ Clean(k, sockets'[c])
    /\ \A d \in Clients \ {c} : sockets'[d] = sockets[d]

LEMMA CountedTyped ==
    ASSUME GatewayTypeOK, NEW taken, NEW released
    PROVE  /\ Counted(taken, released) \in [Proxies -> Int]
           /\ Counted({}, {}) = active
  BY DEF GatewayTypeOK, Counted

LEMMA OwnConnecting ==
    ASSUME NEW k, k.lease = NoProxy, k.at # "unwinding" PROVE Own(k) = Pending(k)
  BY DEF Own

\* What is offered is served, has a free slot and was not tried.
LEMMA OfferedAreFree ==
    ASSUME NEW session, NEW tried, NEW p \in Offered(session, tried)
    PROVE  p \in rows \ tried /\ Free(p)
  BY DEF Offered

\* One more attempt, or none.
LEMMA StartNextMoves ==
    ASSUME GatewayTypeOK, NEW c \in Clients, NEW k \in Handlers, NEW released,
           k.lease = NoProxy, ~k.doomed, k.at = "connecting" \/ Pending(k) = {},
           StartNext(c, k, released)
    PROVE  \E n \in Handlers, taken \in SUBSET Proxies :
             /\ client' = [client EXCEPT ![c] = n]
             /\ HandlerOK(n)
             /\ taken \cap Tried(k) = {} /\ \A p \in taken : Free(p)
             /\ Own(n) = Pending(k) \cup taken
             /\ Linked(n) = Ended(k, "open")
             /\ active' = Counted(taken, released)
  <1>1. ASSUME NEW p \in Offered(k.session, Tried(k)),
               active' = Counted({p}, released),
               client' = [client EXCEPT ![c] = [Dialled(k, {p}, "dialling") EXCEPT !.at = "connecting"]]
        PROVE  \E n \in Handlers, taken \in SUBSET Proxies :
                 /\ client' = [client EXCEPT ![c] = n]
                 /\ HandlerOK(n)
                 /\ taken \cap Tried(k) = {} /\ \A q \in taken : Free(q)
                 /\ Own(n) = Pending(k) \cup taken
                 /\ Linked(n) = Ended(k, "open")
                 /\ active' = Counted(taken, released)
    <2> DEFINE d == Dialled(k, {p}, "dialling")
               n == [d EXCEPT !.at = "connecting"]
    <2>1. p \in Proxies /\ p \notin Tried(k) /\ Free(p)
      BY <1>1, OfferedAreFree DEF GatewayTypeOK
    <2>2. /\ d \in Handlers /\ d.lease = NoProxy /\ d.doomed = k.doomed
          /\ \A q \in Proxies : d.dial[q] = IF q = p THEN "dialling" ELSE k.dial[q]
      <3>1. "dialling" \in Dials
        BY DEF Dials
      <3>2. QED
        BY <3>1, DialledFields
    <2> HIDE DEF d
    <2>3. /\ n \in Handlers /\ n.at = "connecting" /\ n.lease = NoProxy /\ n.doomed = k.doomed
          /\ \A q \in Proxies : n.dial[q] = IF q = p THEN "dialling" ELSE k.dial[q]
      BY <2>2 DEF Handlers, Places
    <2>4. client' = [client EXCEPT ![c] = n]
      BY <1>1 DEF d
    <2> HIDE DEF n
    <2>5. k.dial[p] = "none"
      BY <2>1 DEF Tried
    <2>6. Pending(n) = Pending(k) \cup {p} /\ Ended(n, "open") = Ended(k, "open")
      BY <2>1, <2>3, <2>5 DEF Pending, Ended
    <2>7. HandlerOK(n) /\ Own(n) = Pending(k) \cup {p} /\ Linked(n) = Ended(k, "open")
      BY <2>3, <2>6, OwnConnecting DEF HandlerOK, Linked
    <2>8. {p} \in SUBSET Proxies /\ {p} \cap Tried(k) = {} /\ \A q \in {p} : Free(q)
      BY <2>1
    <2>9. QED
      BY <1>1, <2>3, <2>4, <2>7, <2>8
  <1>2. ASSUME active' = Counted({}, released),
               client' = [client EXCEPT ![c] = IF Pending(k) = {} THEN Idle ELSE k]
        PROVE  \E n \in Handlers, taken \in SUBSET Proxies :
                 /\ client' = [client EXCEPT ![c] = n]
                 /\ HandlerOK(n)
                 /\ taken \cap Tried(k) = {} /\ \A p \in taken : Free(p)
                 /\ Own(n) = Pending(k) \cup taken
                 /\ Linked(n) = Ended(k, "open")
                 /\ active' = Counted(taken, released)
    <2>1. CASE Pending(k) = {}
      <3>1. Ended(k, "open") = {}
        BY <2>1 DEF Pending, Ended
      <3>2. Idle \in Handlers /\ HandlerOK(Idle) /\ Own(Idle) = {} /\ Linked(Idle) = {}
        BY IdleFields DEF HandlerOK
      <3>3. client' = [client EXCEPT ![c] = Idle]
        BY <1>2, <2>1
      <3> HIDE DEF Idle
      <3>4. QED
        BY <1>2, <2>1, <3>1, <3>2, <3>3
    <2>2. CASE Pending(k) # {}
      <3>1. k.at = "connecting"
        BY <2>2
      <3>2. HandlerOK(k) /\ Own(k) = Pending(k) /\ Linked(k) = Ended(k, "open")
        BY <3>1, OwnConnecting DEF HandlerOK, Linked
      <3>3. client' = [client EXCEPT ![c] = k]
        BY <1>2, <2>2
      <3>4. QED
        BY <1>2, <3>2, <3>3
    <2>3. QED
      BY <2>1, <2>2
  <1>3. CASE \E p \in Offered(k.session, Tried(k)) :
               /\ active' = Counted({p}, released)
               /\ client' = [client EXCEPT ![c] = [Dialled(k, {p}, "dialling") EXCEPT !.at = "connecting"]]
    BY <1>1, <1>3
  <1>4. CASE /\ active' = Counted({}, released)
             /\ client' = [client EXCEPT ![c] = IF Pending(k) = {} THEN Idle ELSE k]
    BY <1>2, <1>4
  <1>5. QED
    BY <1>3, <1>4 DEF StartNext

\* Each operation of a client or of its handler is such a move.
HandlerMoves(c) == \E k \in Handlers, taken, released \in SUBSET Proxies : HandlerMoved(c, k, taken, released)

LEMMA Current ==
    ASSUME GInv, NEW c \in Clients
    PROVE  /\ client[c] \in Handlers /\ HandlerOK(client[c]) /\ (client[c].at # "unwinding" => ~client[c].doomed)
           /\ Clean(client[c], sockets[c]) /\ sockets[c] \subseteq Proxies
           /\ sockets \in [Clients -> SUBSET Proxies] /\ client \in [Clients -> Handlers]
           /\ Own(client[c]) \subseteq Proxies
  <1>1. Own(client[c]) \subseteq Proxies
    BY DEF GInv, GatewayTypeOK, Own, Pending, Handlers
  <1>2. QED
    BY <1>1 DEF GInv, GatewayTypeOK, HandlerOK

\* A handler that keeps its slots and its connections.
LEMMA KeepsMoves ==
    ASSUME GInv, NEW c \in Clients, NEW n, HandlerOK(n),
           Own(n) = Own(client[c]), Clean(n, sockets[c]),
           client' = [client EXCEPT ![c] = n], UNCHANGED <<active, sockets>>
    PROVE  HandlerMoves(c)
  <1>1. Counted({}, {}) = active
    BY CountedTyped DEF GInv
  <1>2. HandlerMoved(c, n, {}, {})
    BY <1>1, Current DEF HandlerMoved
  <1>3. QED
    BY <1>2 DEF HandlerMoves, HandlerOK

\* A handler that ends and gives back all it holds.
LEMMA EndsMoves ==
    ASSUME GInv, NEW c \in Clients, client' = [client EXCEPT ![c] = Idle],
           active' = Counted({}, Own(client[c])), sockets' = [sockets EXCEPT ![c] = {}]
    PROVE  HandlerMoves(c)
  <1>1. HandlerOK(Idle) /\ Own(Idle) = {} /\ Idle \in Handlers
    BY IdleFields DEF HandlerOK
  <1> HIDE DEF Idle
  <1>2. HandlerMoved(c, Idle, {}, Own(client[c]))
    BY <1>1, Current DEF HandlerMoved, Clean
  <1>3. QED
    BY <1>1, <1>2, Current DEF HandlerMoves

LEMMA AcceptMoves ==
    ASSUME GInv, NEW c \in Clients, Accept(c) PROVE HandlerMoves(c)
  <1> DEFINE n == [client[c] EXCEPT !.at = "reading"]
  <1>1. /\ client[c] \in Handlers /\ HandlerOK(client[c]) /\ client[c].at = "idle" /\ Clean(client[c], sockets[c])
        /\ client \in [Clients -> Handlers]
    BY Current DEF Accept
  <1>2. n \in Handlers /\ n.at = "reading" /\ n.lease = NoProxy /\ n.dial = client[c].dial
        /\ n.session = client[c].session /\ n.doomed = client[c].doomed
    BY <1>1 DEF Handlers, Places, HandlerOK
  <1>3. client' = [client EXCEPT ![c] = n]
    BY <1>1 DEF Accept
  <1> HIDE DEF n
  <1>4. HandlerOK(n) /\ Own(n) = Own(client[c]) /\ Linked(n) = Linked(client[c])
    BY <1>1, <1>2 DEF HandlerOK, Own, Pending, Linked
  <1>5. QED
    BY <1>1, <1>2, <1>3, <1>4, KeepsMoves DEF Accept, Clean

LEMMA GrantedMoves ==
    ASSUME GInv, NEW c \in Clients, Granted(c) PROVE HandlerMoves(c)
  <1> DEFINE n == [client[c] EXCEPT !.at = "relaying"]
  <1>1. /\ client[c] \in Handlers /\ HandlerOK(client[c]) /\ client[c].at = "granting" /\ Clean(client[c], sockets[c])
        /\ client \in [Clients -> Handlers]
    BY Current DEF Granted
  <1>2. n \in Handlers /\ n.at = "relaying" /\ n.lease = client[c].lease /\ n.dial = client[c].dial
        /\ n.session = client[c].session /\ n.doomed = client[c].doomed
    BY <1>1 DEF Handlers, Places, HandlerOK
  <1>3. client' = [client EXCEPT ![c] = n]
    BY <1>1 DEF Granted
  <1> HIDE DEF n
  <1>4. HandlerOK(n) /\ Own(n) = Own(client[c]) /\ Linked(n) = Linked(client[c])
    BY <1>1, <1>2 DEF HandlerOK, Own, Pending, Linked
  <1>5. QED
    BY <1>1, <1>2, <1>3, <1>4, KeepsMoves DEF Granted, Clean

LEMMA ScoresMoves ==
    ASSUME GInv, NEW c \in Clients, NEW verdict, Scores(c, verdict) PROVE HandlerMoves(c)
  <1> DEFINE n == [client[c] EXCEPT !.scored = TRUE]
  <1>1. /\ client[c] \in Handlers /\ HandlerOK(client[c])
        /\ Clean(client[c], sockets[c])
        /\ client \in [Clients -> Handlers]
    BY Current
  <1>2. n \in Handlers /\ n.at = client[c].at /\ n.lease = client[c].lease /\ n.dial = client[c].dial
        /\ n.session = client[c].session /\ n.doomed = client[c].doomed
    BY <1>1 DEF Handlers
  <1>3. client' = [client EXCEPT ![c] = n] /\ UNCHANGED <<active, sockets>>
    BY <1>1 DEF Scores
  <1> HIDE DEF n
  <1>4. HandlerOK(n) /\ Own(n) = Own(client[c]) /\ Linked(n) = Linked(client[c])
    BY <1>1, <1>2 DEF HandlerOK, Own, Pending, Linked, Ended
  <1>5. QED
    BY <1>1, <1>2, <1>3, <1>4, KeepsMoves DEF Clean

LEMMA RelayEndsMoves ==
    ASSUME GInv, NEW c \in Clients, NEW empty, RelayEnds(c, empty) PROVE HandlerMoves(c)
  <1>1. client[c].at = "relaying" /\ HandlerOK(client[c])
    BY Current DEF RelayEnds
  <1>2. client[c].lease \in Proxies /\ Pending(client[c]) = {}
    BY <1>1 DEF HandlerOK, Pending, NotTried
  <1>3. Own(client[c]) = {client[c].lease}
    BY <1>1, <1>2, NamesAssumption DEF Own
  <1>4. QED
    BY <1>3, EndsMoves DEF RelayEnds

LEMMA CutOffMoves ==
    ASSUME GInv, NEW c \in Clients, client[c].at # "unwinding", CutOff(c) PROVE HandlerMoves(c)
  <1>1. Discarded(client[c]) = Own(client[c])
    BY DEF Discarded, Own
  <1>2. CASE client[c].at = "connecting"
    <2> DEFINE n == Unwinding(client[c])
    <2>1. /\ client[c] \in Handlers /\ HandlerOK(client[c]) /\ ~client[c].doomed
          /\ client[c].lease = NoProxy /\ sockets[c] \subseteq Proxies
      BY <1>2, Current DEF HandlerOK
    <2>2. /\ n \in Handlers /\ n.at = "unwinding" /\ n.session = NoSession /\ n.lease = NoProxy
          /\ ~n.doomed /\ Own(n) = {} /\ Linked(n) = Proxies
      BY <2>1, UnwindingFields
    <2>3. client' = [client EXCEPT ![c] = n] /\ active' = Counted({}, Own(client[c])) /\ sockets' = sockets
      BY <1>1, <1>2 DEF CutOff
    <2> HIDE DEF n
    <2>4. HandlerOK(n)
      BY <2>2 DEF HandlerOK
    <2>5. HandlerMoved(c, n, {}, Own(client[c]))
      BY <2>1, <2>2, <2>3, <2>4, Current DEF HandlerMoved, Clean
    <2>6. QED
      BY <2>2, <2>5, Current DEF HandlerMoves
  <1>3. CASE client[c].at # "connecting"
    BY <1>1, <1>3, EndsMoves DEF CutOff
  <1>4. QED
    BY <1>2, <1>3

LEMMA CancelledMoves ==
    ASSUME GInv, NEW c \in Clients, Cancelled(c) PROVE HandlerMoves(c)
  <1>1. CASE client[c].at = "unwinding"
    <2> DEFINE n == [client[c] EXCEPT !.cancelled = FALSE, !.doomed = OwnTask]
    <2>1. /\ client[c] \in Handlers /\ HandlerOK(client[c])
          /\ Clean(client[c], sockets[c])
          /\ client \in [Clients -> Handlers]
      BY Current
    <2>2. n \in Handlers /\ n.at = client[c].at /\ n.lease = client[c].lease /\ n.dial = client[c].dial
          /\ n.session = client[c].session /\ n.doomed = OwnTask
      BY <2>1, NumbersAssumption DEF Handlers
    <2>3. client' = [client EXCEPT ![c] = n] /\ UNCHANGED <<active, sockets>>
      BY <1>1, <2>1 DEF Cancelled
    <2> HIDE DEF n
    <2>4. HandlerOK(n) /\ Own(n) = Own(client[c]) /\ Linked(n) = Linked(client[c])
      BY <1>1, <2>1, <2>2 DEF HandlerOK, Own, Pending, Linked, Ended
    <2>5. QED
      BY <2>1, <2>2, <2>3, <2>4, KeepsMoves DEF Clean
  <1>2. CASE client[c].at # "unwinding"
    BY <1>2, CutOffMoves DEF Cancelled
  <1>3. QED
    BY <1>1, <1>2

LEMMA GivesUpMoves ==
    ASSUME GInv, NEW c \in Clients, GivesUp(c) PROVE HandlerMoves(c)
  BY CutOffMoves DEF GivesUp

LEMMA StaggerMoves ==
    ASSUME GInv, NEW c \in Clients, Stagger(c) PROVE HandlerMoves(c)
  <1> DEFINE k == client[c]
             m == [client[c] EXCEPT !.late = Pending(client[c])]
  <1>1. /\ k \in Handlers /\ HandlerOK(k) /\ ~k.doomed /\ k.at = "connecting"
        /\ k.lease = NoProxy /\ Clean(k, sockets[c])
    BY Current DEF Stagger, HandlerOK
  <1>2. /\ StartNext(c, m, {}) /\ UNCHANGED sockets
    BY DEF Stagger
  <1>3. /\ m \in Handlers /\ m.at = k.at /\ m.lease = k.lease /\ m.doomed = k.doomed /\ m.dial = k.dial
    <2>1. Pending(k) \in SUBSET Proxies
      BY DEF Pending
    <2>2. QED
      BY <1>1, <2>1 DEF Handlers
  <1> HIDE DEF k, m
  <1>4. Pending(m) = Pending(k) /\ Tried(m) = Tried(k) /\ Ended(m, "open") = Ended(k, "open")
    BY <1>3 DEF Pending, Tried, Ended
  <1>5. PICK n \in Handlers, taken \in SUBSET Proxies :
             /\ client' = [client EXCEPT ![c] = n]
             /\ HandlerOK(n)
             /\ taken \cap Tried(m) = {} /\ \A p \in taken : Free(p)
             /\ Own(n) = Pending(m) \cup taken
             /\ Linked(n) = Ended(m, "open")
             /\ active' = Counted(taken, {})
    BY <1>1, <1>2, <1>3, StartNextMoves DEF GInv
  <1>6. Own(k) = Pending(k) /\ Linked(k) = Ended(k, "open") /\ Pending(k) \subseteq Tried(k)
    BY <1>1, OwnConnecting DEF Linked, Pending, Tried
  <1>7. HandlerMoved(c, n, taken, {})
    BY <1>1, <1>2, <1>3, <1>4, <1>5, <1>6, Current DEF HandlerMoved, Clean, k
  <1>8. QED
    BY <1>7 DEF HandlerMoves

LEMMA ConnectMoves ==
    ASSUME GInv, NEW c \in Clients, NEW session \in Sessions \cup {NoSession}, Connect(c, session)
    PROVE  HandlerMoves(c)
  <1> DEFINE k == client[c]
             m == [client[c] EXCEPT !.session = session]
  <1>1. /\ k \in Handlers /\ HandlerOK(k) /\ ~k.doomed /\ k.at = "reading"
        /\ k.lease = NoProxy /\ k.dial = NotTried /\ Clean(k, sockets[c])
    BY Current DEF Connect, HandlerOK
  <1>2. /\ StartNext(c, m, {}) /\ UNCHANGED sockets
    BY DEF Connect
  <1>3. /\ m \in Handlers /\ m.lease = k.lease /\ m.doomed = k.doomed /\ m.dial = k.dial
    BY <1>1 DEF Handlers
  <1> HIDE DEF k, m
  <1>4. Pending(m) = {} /\ Pending(k) = {} /\ m.lease = NoProxy
    BY <1>1, <1>3 DEF Pending, NotTried
  <1>5. PICK n \in Handlers, taken \in SUBSET Proxies :
             /\ client' = [client EXCEPT ![c] = n]
             /\ HandlerOK(n)
             /\ taken \cap Tried(m) = {} /\ \A p \in taken : Free(p)
             /\ Own(n) = Pending(m) \cup taken
             /\ Linked(n) = Ended(m, "open")
             /\ active' = Counted(taken, {})
    <2>1. GatewayTypeOK /\ m \in Handlers /\ m.lease = NoProxy /\ ~m.doomed /\ Pending(m) = {} /\ StartNext(c, m, {})
      BY <1>1, <1>2, <1>3, <1>4 DEF GInv
    <2>2. QED
      BY <2>1, StartNextMoves, c \in Clients, SMTT(60)
  <1>6. Own(k) = {} /\ Linked(k) = {}
    BY <1>1, <1>4, OwnConnecting DEF Linked
  <1>7. HandlerMoved(c, n, taken, {})
    BY <1>1, <1>2, <1>3, <1>4, <1>5, <1>6, Current DEF HandlerMoved, Clean, k
  <1>8. QED
    BY <1>7 DEF HandlerMoves

LEMMA DialEndsMoves ==
    ASSUME GInv, NEW c \in Clients, NEW p \in Proxies, NEW result \in {"open", "failed"},
           DialEnds(c, p, result)
    PROVE  HandlerMoves(c)
  <1> DEFINE k == client[c]
             n == [k EXCEPT !.dial[p] = result]
  <1>1. /\ k \in Handlers /\ HandlerOK(k) /\ ~k.doomed /\ k.at = "connecting"
        /\ k.lease = NoProxy /\ Clean(k, sockets[c]) /\ k.dial[p] = "dialling"
        /\ client \in [Clients -> Handlers] /\ sockets \in [Clients -> SUBSET Proxies]
    BY Current DEF DialEnds, HandlerOK
  <1>2. /\ n \in Handlers /\ n.at = k.at /\ n.lease = k.lease /\ n.doomed = k.doomed
        /\ n.dial = [k.dial EXCEPT ![p] = result]
    BY <1>1 DEF Handlers, Dials
  <1>3. /\ client' = [client EXCEPT ![c] = n] /\ active' = active
        /\ sockets' = IF result = "open" THEN [sockets EXCEPT ![c] = @ \cup {p}] ELSE sockets
    BY <1>1 DEF DialEnds
  <1> HIDE DEF k, n
  <1>4. /\ Pending(n) = Pending(k)
        /\ Ended(n, "open") = Ended(k, "open") \cup (IF result = "open" THEN {p} ELSE {})
    BY <1>1, <1>2 DEF Pending, Ended, Handlers
  <1>5. Own(n) = Own(k) /\ HandlerOK(n)
    BY <1>1, <1>2, <1>4, OwnConnecting DEF HandlerOK
  <1>6. Linked(k) = Ended(k, "open") /\ Linked(n) = Ended(n, "open")
    BY <1>1, <1>2 DEF Linked
  <1>7. /\ sockets' \in [Clients -> SUBSET Proxies] /\ Clean(n, sockets'[c])
        /\ \A d \in Clients \ {c} : sockets'[d] = sockets[d]
    BY <1>1, <1>3, <1>4, <1>6 DEF Clean
  <1>8. Counted({}, {}) = active
    BY CountedTyped DEF GInv
  <1>9. HandlerMoved(c, n, {}, {})
    BY <1>1, <1>2, <1>3, <1>5, <1>7, <1>8 DEF HandlerMoved, k
  <1>10. QED
    BY <1>2, <1>9 DEF HandlerMoves

LEMMA FailedMoves ==
    ASSUME GInv, NEW c \in Clients, Failed(c) PROVE HandlerMoves(c)
  <1> DEFINE k == client[c]
             failed == Done(k)
             kept == Dialled(k, failed, "gone")
  <1>1. /\ k \in Handlers /\ HandlerOK(k) /\ ~k.doomed /\ k.at = "connecting"
        /\ k.lease = NoProxy /\ Clean(k, sockets[c]) /\ Ended(k, "open") = {}
    BY Current DEF Failed, HandlerOK
  <1>2. /\ IF MayAdd(k) THEN StartNext(c, kept, failed)
           ELSE /\ active' = Counted({}, failed)
                /\ client' = [client EXCEPT ![c] = IF Pending(kept) = {} THEN Idle ELSE kept]
        /\ UNCHANGED sockets
    BY DEF Failed
  <1>3. /\ kept \in Handlers
        /\ kept.at = k.at /\ kept.lease = k.lease /\ kept.doomed = k.doomed
        /\ \A p \in Proxies : kept.dial[p] = IF p \in failed THEN "gone" ELSE k.dial[p]
    <2>1. "gone" \in Dials
      BY DEF Dials
    <2> HIDE DEF failed
    <2>2. QED
      BY <1>1, <2>1, DialledFields
  <1>4. failed = Ended(k, "failed") /\ failed \subseteq Pending(k)
    BY <1>1 DEF Done, Ended, Pending
  <1> HIDE DEF k, kept, failed
  <1>5. /\ Pending(kept) = Pending(k) \ failed /\ Ended(kept, "open") = {}
        /\ Pending(k) \subseteq Tried(kept)
    BY <1>1, <1>3, <1>4 DEF Pending, Ended, Tried
  <1>6. Own(k) = Pending(k) /\ (OwnTask \/ sockets[c] = {})
    BY <1>1, OwnConnecting DEF Linked, Clean
  <1>7. PICK n \in Handlers, taken \in SUBSET Proxies :
             /\ client' = [client EXCEPT ![c] = n]
             /\ HandlerOK(n)
             /\ taken \cap Tried(kept) = {} /\ \A p \in taken : Free(p)
             /\ Own(n) = Pending(kept) \cup taken
             /\ Linked(n) = Ended(kept, "open")
             /\ active' = Counted(taken, failed)
    <2>1. CASE MayAdd(k)
      BY <1>1, <1>2, <1>3, <2>1, StartNextMoves DEF GInv
    <2>2. CASE ~MayAdd(k) /\ Pending(kept) = {}
      <3>1. Idle \in Handlers /\ HandlerOK(Idle) /\ Own(Idle) = {} /\ Linked(Idle) = {}
        BY IdleFields DEF HandlerOK
      <3>2. client' = [client EXCEPT ![c] = Idle] /\ active' = Counted({}, failed)
        BY <1>2, <2>2
      <3> HIDE DEF Idle
      <3>3. {} \in SUBSET Proxies
        OBVIOUS
      <3>4. QED
        BY <1>5, <2>2, <3>1, <3>2, <3>3
    <2>3. CASE ~MayAdd(k) /\ Pending(kept) # {}
      <3>1. client' = [client EXCEPT ![c] = kept] /\ active' = Counted({}, failed)
        BY <1>2, <2>3
      <3>2. HandlerOK(kept) /\ Own(kept) = Pending(kept) /\ Linked(kept) = Ended(kept, "open")
        BY <1>1, <1>3, OwnConnecting DEF HandlerOK, Linked
      <3>3. {} \in SUBSET Proxies
        OBVIOUS
      <3>4. QED
        BY <1>3, <3>1, <3>2, <3>3
    <2>4. QED
      BY <2>1, <2>2, <2>3
  <1>8. HandlerMoved(c, n, taken, failed)
    <2>1. Own(n) = (Own(k) \ failed) \cup taken /\ taken \cap Own(k) = {} /\ failed \subseteq Own(k)
      BY <1>4, <1>5, <1>6, <1>7
    <2>2. Clean(n, sockets'[c])
      BY <1>1, <1>2, <1>6 DEF Clean
    <2>3. QED
      BY <1>2, <1>7, <2>1, <2>2, Current DEF HandlerMoved, k
  <1>9. QED
    <2>1. failed \in SUBSET Proxies
      BY <1>4 DEF Pending
    <2>2. QED
      BY <1>8, <2>1 DEF HandlerMoves

LEMMA UnwoundMoves ==
    ASSUME GInv, NEW c \in Clients, NEW p \in Proxies, NEW result, Unwound(c, p, result)
    PROVE  HandlerMoves(c)
  <1> DEFINE k == client[c]
             word == IF result = "failed" THEN "failed" ELSE "none"
             n == [k EXCEPT !.dial[p] = word]
  <1>1. /\ k \in Handlers /\ HandlerOK(k) /\ k.at = "unwinding"
        /\ client \in [Clients -> Handlers] /\ sockets \in [Clients -> SUBSET Proxies]
    BY Current DEF Unwound
  <1>2. /\ n \in Handlers /\ n.at = k.at /\ n.lease = k.lease /\ n.doomed = k.doomed
        /\ n.session = k.session
    BY <1>1 DEF Handlers, Dials
  <1>3. /\ client' = [client EXCEPT ![c] = n] /\ active' = active
        /\ sockets' = IF result = "open" THEN [sockets EXCEPT ![c] = @ \cup {p}] ELSE sockets
    BY <1>1 DEF Unwound
  <1> HIDE DEF k, n
  <1>4. Own(n) = Own(k) /\ HandlerOK(n) /\ Linked(n) = Proxies
    BY <1>1, <1>2 DEF HandlerOK, Own, Linked
  <1>5. /\ sockets' \in [Clients -> SUBSET Proxies] /\ Clean(n, sockets'[c])
        /\ \A d \in Clients \ {c} : sockets'[d] = sockets[d]
    BY <1>1, <1>3, <1>4 DEF Clean
  <1>6. Counted({}, {}) = active
    BY CountedTyped DEF GInv
  <1>7. HandlerMoved(c, n, {}, {})
    BY <1>1, <1>2, <1>3, <1>4, <1>5, <1>6 DEF HandlerMoved, k
  <1>8. QED
    BY <1>2, <1>7 DEF HandlerMoves

LEMMA UnwindMoves ==
    ASSUME GInv, NEW c \in Clients, Unwind(c) PROVE HandlerMoves(c)
  <1> DEFINE k == client[c]
  <1>1. /\ k \in Handlers /\ HandlerOK(k) /\ k.at = "unwinding" /\ k.session = NoSession
        /\ sockets[c] \subseteq Proxies /\ sockets \in [Clients -> SUBSET Proxies]
    BY Current DEF Unwind, HandlerOK
  <1>2. /\ sockets' = [sockets EXCEPT ![c] = LateClosed(k, sockets[c])] /\ active' = active
        /\ IF k.lease = NoProxy THEN client' = [client EXCEPT ![c] = Idle]
           ELSE \E next \in IF k.doomed THEN {Idle} ELSE GoesOn(k) : client' = [client EXCEPT ![c] = next]
    BY DEF Unwind
  <1>3. Own(k) = {k.lease} \ {NoProxy}
    BY <1>1 DEF Own
  <1>4. Counted({}, {}) = active
    BY CountedTyped DEF GInv
  <1>5. sockets' \in [Clients -> SUBSET Proxies] /\ \A d \in Clients \ {c} : sockets'[d] = sockets[d]
    BY <1>1, <1>2 DEF LateClosed
  <1>6. sockets'[c] \subseteq {k.lease} \ {NoProxy}
    BY <1>1, <1>2, NamesAssumption DEF LateClosed
  <1>7. CASE k.lease = NoProxy
    <2>1. HandlerOK(Idle) /\ Own(Idle) = {} /\ Idle \in Handlers /\ client' = [client EXCEPT ![c] = Idle]
      BY <1>2, <1>7, IdleFields DEF HandlerOK
    <2> HIDE DEF Idle
    <2>2. HandlerMoved(c, Idle, {}, {})
      BY <1>2, <1>3, <1>4, <1>5, <1>6, <1>7, <2>1 DEF HandlerMoved, Clean
    <2>3. QED
      BY <2>1, <2>2 DEF HandlerMoves
  <1>8. CASE k.lease # NoProxy /\ k.doomed
    <2>1. HandlerOK(Idle) /\ Own(Idle) = {} /\ Idle \in Handlers /\ client' = [client EXCEPT ![c] = Idle]
      BY <1>2, <1>8, IdleFields DEF HandlerOK
    <2>2. OwnTask /\ Own(k) \in SUBSET Proxies
      BY <1>1, <1>3, <1>8 DEF HandlerOK, Handlers
    <2> HIDE DEF Idle
    <2>3. HandlerMoved(c, Idle, {}, Own(k))
      BY <1>2, <1>5, <2>1, <2>2 DEF HandlerMoved, Clean
    <2>4. QED
      BY <2>1, <2>2, <2>3 DEF HandlerMoves
  <1>9. CASE k.lease # NoProxy /\ ~k.doomed
    <2>1. k.lease \in Proxies
      BY <1>1, <1>9 DEF Handlers
    <2>2. PICK n \in GoesOn(k) : client' = [client EXCEPT ![c] = n]
      BY <1>2, <1>9
    <2>3. HandlerOK(n) /\ n \in Handlers /\ Own(n) = {k.lease} /\ Linked(n) = {k.lease}
      BY <1>1, <1>9, <2>1, GoesOnFields DEF HandlerOK
    <2>4. HandlerMoved(c, n, {}, {})
      BY <1>2, <1>3, <1>4, <1>5, <1>6, <1>9, <2>2, <2>3 DEF HandlerMoved, Clean
    <2>5. QED
      BY <2>3, <2>4 DEF HandlerMoves
  <1>10. QED
    BY <1>7, <1>8, <1>9

LEMMA WonMoves ==
    ASSUME GInv, NEW c \in Clients, NEW w \in Proxies, Won(c, w) PROVE HandlerMoves(c)
  <1> DEFINE k == client[c]
             u == Unwinding(k)
             won == [u EXCEPT !.lease = w]
  <1>1. /\ k \in Handlers /\ HandlerOK(k) /\ ~k.doomed /\ k.at = "connecting"
        /\ k.lease = NoProxy /\ w \in Ended(k, "open")
        /\ sockets \in [Clients -> SUBSET Proxies]
    BY Current DEF Won, HandlerOK
  <1>2. /\ active' = Counted({}, Pending(k) \ {w})
        /\ sockets' = [sockets EXCEPT ![c] = {w}]
        /\ \E next \in IF Ended(won, "cancelled") = {} THEN GoesOn(won) ELSE {won} :
              client' = [client EXCEPT ![c] = next]
    BY DEF Won
  <1>3. u \in Handlers /\ u.at = "unwinding" /\ u.session = NoSession /\ u.doomed = k.doomed
    BY <1>1, UnwindingFields
  <1> HIDE DEF u
  <1>4. /\ won \in Handlers /\ won.at = "unwinding" /\ won.session = NoSession
        /\ ~won.doomed /\ won.lease = w
    BY <1>1, <1>3 DEF Handlers
  <1> HIDE DEF k, won
  <1>5. HandlerOK(won) /\ Own(won) = {w} /\ Linked(won) = Proxies
    BY <1>4, NamesAssumption DEF HandlerOK, Own, Linked
  <1>6. PICK n \in Handlers : /\ client' = [client EXCEPT ![c] = n]
                              /\ HandlerOK(n) /\ Own(n) = {w} /\ w \in Linked(n)
    <2>1. CASE client' = [client EXCEPT ![c] = won]
      BY <1>4, <1>5, <2>1
    <2>2. ASSUME NEW next \in GoesOn(won), client' = [client EXCEPT ![c] = next]
          PROVE  \E n \in Handlers : /\ client' = [client EXCEPT ![c] = n]
                                     /\ HandlerOK(n) /\ Own(n) = {w} /\ w \in Linked(n)
      <3>1. HandlerOK(next) /\ next.doomed = won.doomed /\ Own(next) = {w} /\ Linked(next) = {w}
        BY <1>4, <2>2, GoesOnFields
      <3>2. QED
        BY <1>4, <2>2, <3>1 DEF HandlerOK
    <2>3. QED
      BY <1>2, <2>1, <2>2
  <1>7. Own(k) = Pending(k) /\ w \in Pending(k)
    BY <1>1, OwnConnecting DEF Ended, Pending
  <1>8. HandlerMoved(c, n, {}, Pending(k) \ {w})
    <2>1. Own(n) = (Own(k) \ (Pending(k) \ {w})) \cup {} /\ Pending(k) \ {w} \subseteq Own(k)
      BY <1>6, <1>7
    <2>2. QED
      BY <1>1, <1>2, <1>6, <2>1 DEF HandlerMoved, Clean, k
  <1>9. QED
    <2>1. Pending(k) \ {w} \in SUBSET Proxies
      BY DEF Pending
    <2>2. QED
      BY <1>8, <2>1 DEF HandlerMoves

LEMMA ClientStepMoves ==
    ASSUME GInv, NEW c \in Clients, Handler(c) \/ Client(c)
    PROVE  HandlerMoves(c) /\ rows' = rows
  <1>1. CASE \E p \in Proxies, result \in {"open", "failed"} : DialEnds(c, p, result)
    BY <1>1, DialEndsMoves DEF DialEnds
  <1>2. CASE \E w \in Proxies : Won(c, w)
    BY <1>2, WonMoves DEF Won
  <1>3. CASE Failed(c)
    BY <1>3, FailedMoves DEF Failed
  <1>4. CASE \E p \in Proxies, result \in {"nothing", "open", "failed"} : Unwound(c, p, result)
    BY <1>4, UnwoundMoves DEF Unwound
  <1>5. CASE Unwind(c)
    BY <1>5, UnwindMoves DEF Unwind
  <1>6. CASE Cancelled(c)
    BY <1>6, CancelledMoves DEF Cancelled, CutOff
  <1>7. CASE Accept(c)
    BY <1>7, AcceptMoves DEF Accept
  <1>8. CASE \E session \in Sessions \cup {NoSession} : Connect(c, session)
    BY <1>8, ConnectMoves DEF Connect
  <1>9. CASE Stagger(c)
    BY <1>9, StaggerMoves DEF Stagger
  <1>10. CASE GivesUp(c)
    BY <1>10, GivesUpMoves DEF GivesUp, CutOff
  <1>11. CASE Granted(c)
    BY <1>11, GrantedMoves DEF Granted
  <1>12. CASE \E verdict \in {"good", "fault", "target"} : Scores(c, verdict)
    BY <1>12, ScoresMoves DEF Scores
  <1>13. CASE \E empty \in BOOLEAN : RelayEnds(c, empty)
    BY <1>13, RelayEndsMoves DEF RelayEnds
  <1>14. QED
    BY <1>1, <1>2, <1>3, <1>4, <1>5, <1>6, <1>7, <1>8, <1>9, <1>10, <1>11, <1>12, <1>13
    DEF Handler, Client

-----------------------------------------------------------------------------
(* The counters *)

\* A move of one handler leaves every counter the number of its holders, or more
\* than that when the slot of a lost result is not given back.
LEMMA SlotsKept ==
    ASSUME GInv, NEW c \in Clients, NEW k, NEW taken, NEW released, HandlerMoved(c, k, taken, released)
    PROVE  SlotsCounted'
  <1> SUFFICES ASSUME NEW p \in Proxies
               PROVE  LET holders == Cardinality({d \in Clients : p \in Own(client'[d])})
                      IN  /\ holders <= active'[p] /\ (OwnTask \/ holders = active'[p])
                          /\ Limit = 0 \/ active'[p] <= Limit
    BY DEF SlotsCounted
  <1> DEFINE H == {d \in Clients : p \in Own(client[d])}
             G == {d \in Clients : p \in Own(client'[d])}
  <1>1. /\ active[p] \in Int /\ Cardinality(H) <= active[p] /\ (OwnTask \/ Cardinality(H) = active[p])
        /\ Limit = 0 \/ active[p] <= Limit
    BY DEF GInv, GatewayTypeOK, SlotsCounted
  <1>2. IsFiniteSet(H) /\ Cardinality(H) \in Nat
    BY FS_Subset, FS_CardinalityType, NamesAssumption
  <1>3. /\ client'[c] = k /\ \A d \in Clients \ {c} : client'[d] = client[d]
    BY DEF HandlerMoved, GInv, GatewayTypeOK
  <1>4. /\ p \in Own(client'[c]) <=> (p \in Own(client[c]) /\ p \notin released) \/ p \in taken
        /\ p \in released => p \in Own(client[c])
        /\ p \in taken => p \notin Own(client[c]) /\ (Limit = 0 \/ active[p] < Limit)
    BY <1>3 DEF HandlerMoved, Free
  <1>5. \/ active'[p] = active[p] + (IF p \in taken THEN 1 ELSE 0) - (IF p \in released THEN 1 ELSE 0)
        \/ OwnTask /\ p \notin taken /\ active'[p] = active[p]
    BY DEF HandlerMoved, Counted
  <1>6. \A d \in Clients \ {c} : d \in G <=> d \in H
    BY <1>3
  <1>7. c \in H <=> p \in Own(client[c])
    OBVIOUS
  <1>8. c \in G <=> p \in Own(client'[c])
    OBVIOUS
  <1>9. G \subseteq Clients /\ H \subseteq Clients
    OBVIOUS
  <1> HIDE DEF G, H
  <1>10. CASE p \in taken
    <2>1. G = H \cup {c} /\ c \notin H /\ p \notin released
      BY <1>4, <1>6, <1>7, <1>8, <1>9, <1>10
    <2>2. Cardinality(G) = Cardinality(H) + 1
      BY <1>2, <2>1, FS_AddElement
    <2>3. active'[p] = active[p] + 1
      BY <1>1, <1>5, <1>10, <2>1
    <2>4. QED
      BY <1>1, <1>2, <1>4, <1>10, <2>2, <2>3, NumbersAssumption DEF G
  <1>11. CASE p \in released /\ p \notin taken
    <2>1. G = H \ {c} /\ c \in H
      BY <1>4, <1>6, <1>7, <1>8, <1>9, <1>11
    <2>2. Cardinality(G) = Cardinality(H) - 1
      BY <1>2, <2>1, FS_RemoveElement
    <2>3. active'[p] = active[p] - 1 \/ (OwnTask /\ active'[p] = active[p])
      BY <1>1, <1>5, <1>11
    <2>4. QED
      BY <1>1, <1>2, <2>2, <2>3, NumbersAssumption DEF G
  <1>12. CASE p \notin released /\ p \notin taken
    <2>1. G = H
      BY <1>4, <1>6, <1>7, <1>8, <1>9, <1>12
    <2>2. active'[p] = active[p]
      BY <1>1, <1>5, <1>12
    <2>3. QED
      BY <1>1, <2>1, <2>2 DEF G
  <1>13. QED
    BY <1>10, <1>11, <1>12 DEF G

LEMMA MovesKeep ==
    ASSUME GInv, NEW c \in Clients, HandlerMoves(c), rows' = rows,
           bound' \in [Sessions -> Proxies \cup {NoProxy}]
    PROVE  GInv'
  <1>1. PICK k \in Handlers, taken \in SUBSET Proxies, released \in SUBSET Proxies :
               HandlerMoved(c, k, taken, released)
    BY DEF HandlerMoves
  <1>2. /\ client' \in [Clients -> Handlers]
        /\ client'[c] = k /\ \A d \in Clients \ {c} : client'[d] = client[d]
    BY <1>1 DEF HandlerMoved, GInv, GatewayTypeOK
  <1>3. \A d \in Clients : HandlerOK(client'[d]) /\ Clean(client'[d], sockets'[d])
    BY <1>1, <1>2 DEF HandlerMoved, GInv, GatewayTypeOK, Clean
  <1>4. active' \in [Proxies -> Int]
    BY <1>1, CountedTyped DEF HandlerMoved, GInv, GatewayTypeOK
  <1>5. GatewayTypeOK'
    BY <1>1, <1>2, <1>3, <1>4 DEF GatewayTypeOK, HandlerMoved, GInv
  <1>6. SlotsCounted'
    BY <1>1, SlotsKept
  <1>7. QED
    BY <1>3, <1>5, <1>6 DEF GInv

-----------------------------------------------------------------------------
(* Strict sessions *)

\* A step of c keeps the address of a strict session that has one, and what c is
\* tried with is the address of its session.
KeepsAddress(c) ==
    /\ bound' \in [Sessions -> Proxies \cup {NoProxy}]
    /\ \A s \in Strict : bound[s] # NoProxy => bound'[s] = bound[s]
    /\ client'[c].session \in Strict =>
          \A p \in Tried(client'[c]) : bound'[client'[c].session] = p

\* A handler that tries nobody new under a session, or is at no strict session.
LEMMA QuietKeepsAddress ==
    ASSUME GInv, Tied, NEW c \in Clients, bound' = bound,
           \/ client'[c].session \notin Strict
           \/ /\ client'[c].session = client[c].session
              /\ Tried(client'[c]) \subseteq Tried(client[c])
    PROVE  KeepsAddress(c)
  BY DEF KeepsAddress, Tied, GInv, GatewayTypeOK

\* Only a handler that connects has a session.
LEMMA SessionWhenConnecting ==
    ASSUME GInv, NEW c \in Clients, Handler(c) \/ Client(c),
           client'[c].at # "connecting"
    PROVE  client'[c].session \notin Strict
  <1>1. PICK k \in Handlers, taken \in SUBSET Proxies, released \in SUBSET Proxies :
               HandlerMoved(c, k, taken, released)
    BY ClientStepMoves DEF HandlerMoves
  <1>2. client'[c] = k /\ HandlerOK(k)
    BY <1>1 DEF HandlerMoved, GInv, GatewayTypeOK
  <1>3. QED
    BY <1>2, NamesAssumption DEF HandlerOK

\* What is offered to a strict session that has an address is that address.
LEMMA OfferedToStrict ==
    ASSUME NEW s \in Strict, bound[s] # NoProxy, NEW tried, NEW p \in Offered(s, tried)
    PROVE  p = bound[s]
  <1>1. s # NoSession
    BY NamesAssumption
  <1>2. QED
    BY <1>1 DEF Offered

LEMMA ConnectKeepsAddress ==
    ASSUME GInv, Tied, NEW c \in Clients,
           NEW session \in Sessions \cup {NoSession}, Connect(c, session)
    PROVE  KeepsAddress(c)
  <1> DEFINE m == [client[c] EXCEPT !.session = session]
  <1>1. /\ client[c] \in Handlers /\ HandlerOK(client[c]) /\ client[c].dial = NotTried
        /\ StartNext(c, m, {}) /\ client \in [Clients -> Handlers]
    BY Current DEF Connect, HandlerOK
  <1>2. m \in Handlers /\ m.session = session /\ m.dial = NotTried
    BY <1>1 DEF Handlers
  <1> HIDE DEF m
  <1>3. Tried(m) = {} /\ Pending(m) = {}
    BY <1>2 DEF Tried, Pending, NotTried
  <1>4. bound \in [Sessions -> Proxies \cup {NoProxy}] /\ rows \subseteq Proxies
    BY DEF GInv, GatewayTypeOK
  <1>5. ASSUME NEW p \in Offered(session, {}), bound' = Committed(session, p),
               client' = [client EXCEPT ![c] = [Dialled(m, {p}, "dialling") EXCEPT !.at = "connecting"]]
        PROVE  KeepsAddress(c)
    <2> DEFINE d == Dialled(m, {p}, "dialling")
    <2>1. p \in Proxies
      BY <1>4, <1>5, OfferedAreFree
    <2>2. /\ d \in Handlers /\ d.session = session
          /\ \A q \in Proxies : d.dial[q] = IF q \in {p} THEN "dialling" ELSE m.dial[q]
      <3>1. "dialling" \in Dials
        BY DEF Dials
      <3>2. QED
        BY <1>2, <3>1, DialledFields
    <2>3. client'[c] = [d EXCEPT !.at = "connecting"]
      BY <1>1, <1>5 DEF d
    <2> HIDE DEF d
    <2>4. client'[c].session = session /\ client'[c].dial = d.dial
      BY <2>2, <2>3 DEF Handlers
    <2>5. Tried(client'[c]) \subseteq {p}
      BY <1>2, <2>2, <2>4 DEF Tried, NotTried
    <2>6. CASE session \in Strict
      <3>1. bound' = [bound EXCEPT ![session] = p]
        BY <1>5, <2>6, NamesAssumption DEF Committed, Bound
      <3>2. bound[session] # NoProxy => p = bound[session]
        BY <1>5, <2>6, OfferedToStrict
      <3>3. session \in Sessions /\ Strict \subseteq Sessions
        BY <2>6, NamesAssumption
      <3>4. bound' \in [Sessions -> Proxies \cup {NoProxy}]
        BY <1>4, <2>1, <3>1
      <3>5. \A s \in Strict : bound[s] # NoProxy => bound'[s] = bound[s]
        BY <1>4, <3>1, <3>2, <3>3
      <3>6. \A q \in Tried(client'[c]) : bound'[session] = q
        BY <1>4, <2>5, <3>1, <3>3
      <3>7. QED
        BY <2>4, <3>4, <3>5, <3>6 DEF KeepsAddress
    <2>7. CASE session \notin Strict
      BY <1>4, <1>5, <2>4, <2>7 DEF Committed, KeepsAddress
    <2>8. QED
      BY <2>6, <2>7
  <1>6. CASE bound' = bound /\ client' = [client EXCEPT ![c] = IF Pending(m) = {} THEN Idle ELSE m]
    <2>1. client'[c] = Idle
      BY <1>1, <1>3, <1>6
    <2>2. client'[c].session \notin Strict
      BY <2>1, IdleFields, NamesAssumption
    <2>3. QED
      BY <1>6, <2>2, QuietKeepsAddress
  <1>7. QED
    BY <1>1, <1>2, <1>3, <1>5, <1>6 DEF StartNext

\* An attempt more is only for sessions that are not strict.
LEMMA AddingKeepsAddress ==
    ASSUME GInv, Tied, NEW c \in Clients, NEW k \in Handlers, k.session \notin Strict,
           NEW released, StartNext(c, k, released)
    PROVE  KeepsAddress(c)
  <1>1. bound' = bound
    BY DEF StartNext, Committed
  <1>2. client'[c].session \notin Strict
    <2>1. client \in [Clients -> Handlers]
      BY DEF GInv, GatewayTypeOK
    <2>2. ASSUME NEW p, client' = [client EXCEPT ![c] = [Dialled(k, {p}, "dialling") EXCEPT !.at = "connecting"]]
          PROVE  client'[c].session = k.session
      <3> DEFINE d == Dialled(k, {p}, "dialling")
      <3>1. "dialling" \in Dials
        BY DEF Dials
      <3>2. d \in Handlers /\ d.session = k.session
        BY <3>1, DialledFields
      <3>3. client'[c] = [d EXCEPT !.at = "connecting"]
        BY <2>1, <2>2
      <3> HIDE DEF d
      <3>4. QED
        BY <3>2, <3>3 DEF Handlers
    <2>3. CASE client' = [client EXCEPT ![c] = IF Pending(k) = {} THEN Idle ELSE k]
      BY <2>1, <2>3, IdleFields, NamesAssumption
    <2>4. QED
      BY <2>2, <2>3 DEF StartNext
  <1>3. QED
    BY <1>1, <1>2, QuietKeepsAddress

LEMMA WonKeepsAddress ==
    ASSUME GInv, Tied, NEW c \in Clients, NEW w \in Proxies, Won(c, w)
    PROVE  KeepsAddress(c)
  <1> DEFINE k == client[c]
             u == Unwinding(k)
             won == [u EXCEPT !.lease = w]
  <1>1. /\ k \in Handlers /\ ~k.doomed /\ w \in Ended(k, "open") /\ client \in [Clients -> Handlers]
        /\ bound' = Bound(k.session, w) /\ bound \in [Sessions -> Proxies \cup {NoProxy}]
        /\ \E next \in IF Ended(won, "cancelled") = {} THEN GoesOn(won) ELSE {won} :
              client' = [client EXCEPT ![c] = next]
    BY Current DEF Won, GInv, GatewayTypeOK
  <1>2. u \in Handlers /\ u.session = NoSession /\ ~u.doomed
    BY <1>1, UnwindingFields
  <1> HIDE DEF u
  <1>3. won \in Handlers /\ won.session = NoSession /\ ~won.doomed /\ won.lease \in Proxies
    BY <1>2 DEF Handlers
  <1> HIDE DEF won
  <1>4. client'[c].session = NoSession
    <2>1. \A next \in GoesOn(won) : next.session = NoSession
      BY <1>3, GoesOnFields
    <2>2. QED
      BY <1>1, <1>3, <2>1
  <1>5. k.session \in Strict => bound[k.session] = w
    BY <1>1 DEF Tied, Ended, Tried
  <1> HIDE DEF k
  <1>6. k.session \in Sessions \cup {NoSession}
    BY <1>1 DEF Handlers
  <1>7. bound' \in [Sessions -> Proxies \cup {NoProxy}]
    BY <1>1, <1>6 DEF Bound
  <1>8. \A s \in Strict : bound'[s] = bound[s]
    BY <1>1, <1>5, <1>6, NamesAssumption DEF Bound
  <1>9. QED
    BY <1>4, <1>7, <1>8, NamesAssumption DEF KeepsAddress

LEMMA FailedKeepsAddress ==
    ASSUME GInv, Tied, NEW c \in Clients, Failed(c) PROVE KeepsAddress(c)
  <1> DEFINE k == client[c]
             failed == Done(k)
             kept == Dialled(k, failed, "gone")
  <1>1. /\ k \in Handlers /\ client \in [Clients -> Handlers]
        /\ IF MayAdd(k) THEN StartNext(c, kept, failed)
           ELSE /\ client' = [client EXCEPT ![c] = IF Pending(kept) = {} THEN Idle ELSE kept]
                /\ bound' = bound
    BY Current DEF Failed
  <1>2. /\ kept \in Handlers /\ kept.session = k.session
        /\ \A p \in Proxies : kept.dial[p] = IF p \in failed THEN "gone" ELSE k.dial[p]
    <2>1. "gone" \in Dials
      BY DEF Dials
    <2> HIDE DEF failed
    <2>2. QED
      BY <1>1, <2>1, DialledFields
  <1>3. failed \subseteq Tried(k)
    BY DEF Done, Ended, Tried
  <1>4. MayAdd(k) => k.session \notin Strict
    BY DEF MayAdd
  <1> HIDE DEF failed, kept
  <1>5. Tried(kept) \subseteq Tried(k)
    BY <1>2, <1>3 DEF Tried
  <1>6. CASE MayAdd(k)
    BY <1>1, <1>2, <1>4, <1>6, AddingKeepsAddress
  <1>7. CASE ~MayAdd(k) /\ client'[c] = Idle
    BY <1>1, <1>7, IdleFields, NamesAssumption, QuietKeepsAddress
  <1>8. CASE ~MayAdd(k) /\ client'[c] = kept
    BY <1>1, <1>2, <1>5, <1>8, QuietKeepsAddress
  <1>9. QED
    BY <1>1, <1>6, <1>7, <1>8

LEMMA StaggerKeepsAddress ==
    ASSUME GInv, Tied, NEW c \in Clients, Stagger(c) PROVE KeepsAddress(c)
  <1> DEFINE m == [client[c] EXCEPT !.late = Pending(client[c])]
  <1>1. client[c] \in Handlers /\ client[c].session \notin Strict /\ StartNext(c, m, {})
    BY Current DEF Stagger, MayAdd
  <1>2. m \in Handlers /\ m.session = client[c].session
    <2>1. Pending(client[c]) \in SUBSET Proxies
      BY DEF Pending
    <2>2. QED
      BY <1>1, <2>1 DEF Handlers
  <1> HIDE DEF m
  <1>3. QED
    BY <1>1, <1>2, AddingKeepsAddress

LEMMA DialEndsKeepsAddress ==
    ASSUME GInv, Tied, NEW c \in Clients, NEW p \in Proxies, NEW result, DialEnds(c, p, result)
    PROVE  KeepsAddress(c)
  <1> DEFINE k == client[c]
  <1>1. /\ k \in Handlers /\ client \in [Clients -> Handlers] /\ k.dial[p] = "dialling"
        /\ client'[c] = [k EXCEPT !.dial[p] = result] /\ bound' = bound
    BY Current DEF DialEnds
  <1> HIDE DEF k
  <1>2. client'[c].session = k.session /\ client'[c].dial = [k.dial EXCEPT ![p] = result]
    BY <1>1 DEF Handlers
  <1>3. Tried(client'[c]) \subseteq Tried(k)
    BY <1>1, <1>2 DEF Tried, Handlers
  <1>4. QED
    BY <1>1, <1>2, <1>3, QuietKeepsAddress DEF k

LEMMA StepKeepsAddress ==
    ASSUME GInv, Tied, NEW c \in Clients, Handler(c) \/ Client(c)
    PROVE  KeepsAddress(c)
  <1>0. client[c] \in Handlers /\ client \in [Clients -> Handlers]
    BY Current
  <1>1. CASE \E p \in Proxies, result \in {"open", "failed"} : DialEnds(c, p, result)
    BY <1>1, DialEndsKeepsAddress
  <1>2. CASE \E w \in Proxies : Won(c, w)
    BY <1>2, WonKeepsAddress
  <1>3. CASE Failed(c)
    BY <1>3, FailedKeepsAddress
  <1>4. CASE \E session \in Sessions \cup {NoSession} : Connect(c, session)
    BY <1>4, ConnectKeepsAddress
  <1>5. CASE Stagger(c)
    BY <1>5, StaggerKeepsAddress
  <1>6. ASSUME bound' = bound, client'[c].at # "connecting" PROVE KeepsAddress(c)
    BY <1>6, SessionWhenConnecting, QuietKeepsAddress
  <1>7. CASE \E p \in Proxies, result \in {"nothing", "open", "failed"} : Unwound(c, p, result)
    <2>1. PICK p \in Proxies, result \in {"nothing", "open", "failed"} : Unwound(c, p, result)
      BY <1>7
    <2>2. client'[c].at = client[c].at /\ client[c].at = "unwinding" /\ bound' = bound
      BY <1>0, <2>1 DEF Unwound, Handlers
    <2>3. QED
      BY <1>6, <2>2
  <1>8. CASE Unwind(c)
    <2>1. bound' = bound
      BY <1>8 DEF Unwind
    <2>2. CASE client'[c] = Idle
      BY <1>6, <2>1, <2>2, IdleFields
    <2>3. CASE \E next \in GoesOn(client[c]) : client'[c] = next
      <3>1. PICK at \in {"granting", "relaying"} :
                  client'[c] = [client[c] EXCEPT !.at = at, !.dial = NotTried]
        BY <2>3 DEF GoesOn
      <3>2. client'[c].at = at
        BY <1>0, <3>1 DEF Handlers
      <3>3. QED
        BY <1>6, <2>1, <3>1, <3>2
    <2>4. QED
      BY <1>0, <1>8, <2>2, <2>3, Current DEF Unwind
  <1>9. ASSUME CutOff(c) PROVE KeepsAddress(c)
    <2>1. bound' = bound /\ (client'[c] = Idle \/ client'[c] = Unwinding(client[c]))
      BY <1>0, <1>9 DEF CutOff
    <2>2. client'[c].at # "connecting"
      BY <1>0, <2>1, IdleFields, UnwindingFields
    <2>3. QED
      BY <1>6, <2>1, <2>2
  <1>10. CASE Cancelled(c)
    <2>1. CASE client[c].at = "unwinding"
      <3>1. client'[c].at = client[c].at /\ bound' = bound
        BY <1>0, <1>10, <2>1 DEF Cancelled, Handlers
      <3>2. QED
        BY <1>6, <2>1, <3>1
    <2>2. CASE client[c].at # "unwinding"
      BY <1>9, <1>10, <2>2 DEF Cancelled
    <2>3. QED
      BY <2>1, <2>2
  <1>11. CASE GivesUp(c)
    BY <1>9, <1>11 DEF GivesUp
  <1>12. CASE Accept(c)
    <2>1. client'[c].at = "reading" /\ bound' = bound
      BY <1>0, <1>12 DEF Accept, Handlers
    <2>2. QED
      BY <1>6, <2>1
  <1>13. CASE Granted(c)
    <2>1. client'[c].at = "relaying" /\ bound' = bound
      BY <1>0, <1>13 DEF Granted, Handlers
    <2>2. QED
      BY <1>6, <2>1
  <1>14. CASE \E verdict \in {"good", "fault", "target"} : Scores(c, verdict)
    <2>1. client'[c].at = "relaying" /\ bound' = bound
      BY <1>0, <1>14 DEF Scores, Handlers
    <2>2. QED
      BY <1>6, <2>1
  <1>15. CASE \E empty \in BOOLEAN : RelayEnds(c, empty)
    <2>1. client'[c] = Idle /\ bound' = bound
      BY <1>0, <1>15 DEF RelayEnds
    <2>2. QED
      BY <1>6, <2>1, IdleFields
  <1>16. QED
    BY <1>1, <1>2, <1>3, <1>4, <1>5, <1>7, <1>8, <1>10, <1>11, <1>12, <1>13, <1>14, <1>15
    DEF Handler, Client

-----------------------------------------------------------------------------
(* The listener *)

\* The listener cancels handlers and leaves what they hold alone.
CancelsOnly ==
    /\ UNCHANGED <<active, sockets>> /\ rows' \subseteq Proxies
    /\ client' \in [Clients -> Handlers]
    /\ \A c \in Clients : client'[c] \in {client[c], [client[c] EXCEPT !.cancelled = TRUE]}
    /\ bound' \in [Sessions -> Proxies \cup {NoProxy}]

LEMMA ListenerCancelsOnly ==
    ASSUME GInv, Listener PROVE CancelsOnly
  <1>0. /\ rows \subseteq Proxies /\ client \in [Clients -> Handlers]
        /\ bound \in [Sessions -> Proxies \cup {NoProxy}]
    BY DEF GInv, GatewayTypeOK
  <1>1. \A c \in Clients : [client[c] EXCEPT !.cancelled = TRUE] \in Handlers
    BY <1>0 DEF Handlers
  <1>2. CASE \E p \in Changing : Refresh(p)
    BY <1>0, <1>2, NamesAssumption DEF Refresh, CancelsOnly
  <1>3. CASE \E p \in Changing : DenyAndClose(p)
    BY <1>0, <1>1, <1>3 DEF DenyAndClose, CancelsOnly
  <1>4. CASE RestEnds
    BY <1>0, <1>4 DEF RestEnds, CancelsOnly
  <1>5. CASE \E s \in Sessions : Expires(s)
    BY <1>0, <1>5 DEF Expires, CancelsOnly
  <1>6. CASE ShutDown
    BY <1>0, <1>6 DEF ShutDown, CancelsOnly
  <1>7. CASE GraceOver
    BY <1>0, <1>1, <1>7 DEF GraceOver, CancelsOnly
  <1>8. CASE ShutDownEnds
    BY <1>0, <1>8 DEF ShutDownEnds, CancelsOnly
  <1>9. QED
    BY <1>2, <1>3, <1>4, <1>5, <1>6, <1>7, <1>8 DEF Listener

\* A handler that is only marked cancelled holds what it held.
LEMMA MarkedFields ==
    ASSUME NEW k \in Handlers, HandlerOK(k), NEW n \in {k, [k EXCEPT !.cancelled = TRUE]}
    PROVE  /\ HandlerOK(n) /\ n.doomed = k.doomed /\ n.session = k.session
           /\ Own(n) = Own(k) /\ Linked(n) = Linked(k) /\ Tried(n) = Tried(k)
  <1>1. /\ n \in Handlers /\ n.at = k.at /\ n.session = k.session /\ n.dial = k.dial
        /\ n.lease = k.lease /\ n.doomed = k.doomed
    BY DEF Handlers
  <1>2. QED
    BY <1>1 DEF HandlerOK, Own, Pending, Linked, Ended, Tried

LEMMA CancelsOnlyKeeps ==
    ASSUME GInv, CancelsOnly PROVE GInv'
  <1>1. \A c \in Clients : /\ HandlerOK(client'[c])
                           /\ Own(client'[c]) = Own(client[c])
                           /\ Clean(client'[c], sockets'[c])
    <2> TAKE c \in Clients
    <2>1. client[c] \in Handlers /\ HandlerOK(client[c]) /\ Clean(client[c], sockets[c])
      BY Current
    <2>2. client'[c] \in {client[c], [client[c] EXCEPT !.cancelled = TRUE]} /\ sockets' = sockets
      BY DEF CancelsOnly
    <2>3. QED
      BY <2>1, <2>2, MarkedFields DEF Clean
  <1>2. GatewayTypeOK'
    BY <1>1 DEF CancelsOnly, GatewayTypeOK, GInv
  <1>3. SlotsCounted'
    <2>1. \A p \in Proxies : {d \in Clients : p \in Own(client'[d])} = {d \in Clients : p \in Own(client[d])}
      BY <1>1
    <2>2. QED
      BY <2>1 DEF CancelsOnly, GInv, SlotsCounted
  <1>4. QED
    BY <1>1, <1>2, <1>3 DEF GInv

-----------------------------------------------------------------------------
(* The theorems *)

LEMMA InitGInv ==
    Init => GInv /\ Tied
  <1> SUFFICES ASSUME Init PROVE GInv /\ Tied
    OBVIOUS
  <1>1. /\ HandlerOK(Idle) /\ Idle.session = NoSession /\ ~Idle.doomed
        /\ Own(Idle) = {} /\ Linked(Idle) = {}
    BY IdleFields
  <1>2. \A c \in Clients : client[c] = Idle /\ sockets[c] = {}
    BY DEF Init
  <1>3. GatewayTypeOK
    BY <1>1, <1>2 DEF Init, GatewayTypeOK, HandlerOK
  <1>4. SlotsCounted
    <2> SUFFICES ASSUME NEW p \in Proxies
                 PROVE  LET holders == Cardinality({c \in Clients : p \in Own(client[c])})
                        IN  /\ holders <= active[p] /\ (OwnTask \/ holders = active[p])
                            /\ Limit = 0 \/ active[p] <= Limit
      BY DEF SlotsCounted
    <2>1. {c \in Clients : p \in Own(client[c])} = {}
      BY <1>1, <1>2
    <2>2. Cardinality({c \in Clients : p \in Own(client[c])}) = 0
      BY <2>1, FS_EmptySet
    <2>3. active[p] = 0
      BY DEF Init
    <2>4. QED
      BY <2>2, <2>3, NumbersAssumption
  <1>5. QED
    BY <1>1, <1>2, <1>3, <1>4, NamesAssumption DEF GInv, Tied, Clean

LEMMA StepGInv ==
    ASSUME GInv, Tied, [Next]_gatewayVars PROVE GInv' /\ Tied'
  <1>1. ASSUME NEW c \in Clients, Handler(c) \/ Client(c) PROVE GInv' /\ Tied'
    <2>1. HandlerMoves(c) /\ rows' = rows /\ KeepsAddress(c)
      BY <1>1, ClientStepMoves, StepKeepsAddress
    <2>2. GInv'
      BY <2>1, MovesKeep DEF KeepsAddress
    <2>3. \A d \in Clients \ {c} : client'[d] = client[d]
      BY <2>1 DEF HandlerMoves, HandlerMoved
    <2>4. ASSUME NEW d \in Clients, client'[d].session \in Strict, NEW p \in Tried(client'[d])
          PROVE  bound'[client'[d].session] = p
      <3>1. CASE d = c
        BY <2>1, <2>4, <3>1 DEF KeepsAddress
      <3>2. CASE d # c
        <4>1. client'[d] = client[d]
          BY <2>3, <3>2
        <4>2. bound[client[d].session] = p /\ p \in Proxies
          BY <2>4, <4>1 DEF Tied, Tried
        <4>3. QED
          BY <2>1, <2>4, <4>1, <4>2, NamesAssumption DEF KeepsAddress
      <3>3. QED
        BY <3>1, <3>2
    <2>5. QED
      BY <2>2, <2>4 DEF Tied
  <1>2. CASE Listener
    <2>1. CancelsOnly /\ GInv'
      BY <1>2, ListenerCancelsOnly, CancelsOnlyKeeps
    <2>2. \A c \in Clients : client'[c].session = client[c].session /\ Tried(client'[c]) = Tried(client[c])
      <3> TAKE c \in Clients
      <3>1. client[c] \in Handlers /\ HandlerOK(client[c])
        BY Current
      <3>2. client'[c] \in {client[c], [client[c] EXCEPT !.cancelled = TRUE]}
        BY <2>1 DEF CancelsOnly
      <3>3. QED
        BY <3>1, <3>2, MarkedFields
    <2>3. \A c \in Clients : client[c].session \in Strict => bound'[client[c].session] = bound[client[c].session]
      BY <1>2, NamesAssumption
      DEF Listener, Refresh, DenyAndClose, RestEnds, Expires, ShutDown, GraceOver, ShutDownEnds, GInv, GatewayTypeOK
    <2>4. QED
      BY <2>1, <2>2, <2>3 DEF Tied
  <1>3. CASE UNCHANGED gatewayVars
    BY <1>3 DEF gatewayVars, GInv, GatewayTypeOK, SlotsCounted, Tied
  <1>4. QED
    BY <1>1, <1>2, <1>3 DEF Next

THEOREM GatewayInductive == GatewaySpec => [](GInv /\ Tied)
  BY InitGInv, StepGInv, PTL DEF GatewaySpec

\* What a handler has taken it gives back, on every way out of it, and no proxy has
\* more clients than max_per_proxy: where the handshake is no task of its own.
THEOREM SlotsComeBack ==
    ASSUME OwnTask = FALSE PROVE GatewaySpec => []SlotsReturned
  <1>1. GInv => SlotsReturned
    BY DEF GInv, SlotsCounted, SlotsReturned, Holds, Own
  <1>2. QED
    BY <1>1, GatewayInductive, PTL

\* However the handshake is run, and though a lost result keeps its slot for good,
\* no proxy carries more clients at once than max_per_proxy (reserve).
NoneOversold ==
    \A p \in Proxies : Limit = 0 \/ Cardinality({c \in Clients : p \in Holds(c)}) <= Limit

THEOREM LimitIsKept == GatewaySpec => []NoneOversold
  <1>1. GInv => NoneOversold
    <2> SUFFICES ASSUME GInv, NEW p \in Proxies, Limit # 0
                 PROVE  Cardinality({c \in Clients : p \in Own(client[c])}) <= Limit
      BY DEF NoneOversold, Holds, Own
    <2>1. Cardinality({c \in Clients : p \in Own(client[c])}) \in Int
      BY FS_Subset, FS_CardinalityType, NamesAssumption
    <2>2. QED
      BY <2>1, NumbersAssumption DEF GInv, GatewayTypeOK, SlotsCounted
  <1>2. QED
    BY <1>1, GatewayInductive, PTL

\* A handler that ended has no upstream connection, one that relays only its own.
THEOREM SocketsAreClosed ==
    ASSUME OwnTask = FALSE PROVE GatewaySpec => []SocketsClosed
  <1>1. GInv => SocketsClosed
    <2> SUFFICES ASSUME GInv, NEW c \in Clients, client[c].at \notin {"connecting", "unwinding"}
                 PROVE  sockets[c] \subseteq {client[c].lease} \ {NoProxy}
      BY DEF SocketsClosed
    <2>1. /\ client[c] \in Handlers /\ HandlerOK(client[c]) /\ Clean(client[c], sockets[c])
          /\ sockets[c] \subseteq Proxies
      BY Current
    <2>2. QED
      BY <2>1, NamesAssumption DEF Clean, Linked, Handlers, Places
  <1>2. QED
    BY <1>1, GatewayInductive, PTL

\* A strict session keeps its address for as long as its binding lives.
THEOREM StrictSessionsStay == GatewaySpec => StrictStays
  <1> DEFINE Stays == \A s \in Strict : bound[s] # NoProxy /\ bound'[s] # NoProxy => bound'[s] = bound[s]
  <1>1. ASSUME GInv, Tied, [Next]_gatewayVars PROVE [Stays]_gatewayVars
    <2>1. ASSUME NEW c \in Clients, Handler(c) \/ Client(c) PROVE Stays
      BY <1>1, <2>1, StepKeepsAddress DEF KeepsAddress
    <2>2. CASE Listener
      BY <1>1, <2>2, NamesAssumption
      DEF Listener, Refresh, DenyAndClose, RestEnds, Expires, ShutDown, GraceOver, ShutDownEnds, GInv, GatewayTypeOK
    <2>3. QED
      BY <1>1, <2>1, <2>2 DEF Next
  <1> HIDE DEF Stays
  <1>2. QED
    <2>1. GatewaySpec => [][Stays]_gatewayVars
      BY <1>1, GatewayInductive, PTL DEF GatewaySpec
    <2>2. QED
      BY <2>1 DEF StrictStays, Stays

=============================================================================
