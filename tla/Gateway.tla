------------------------------ MODULE Gateway ------------------------------
(***************************************************************************)
(* The rotating gateway of gateway.py: clients that are carried over       *)
(* proxies of a pool.  Everything runs on one event loop, so what is       *)
(* between two awaits is one step; at each await the others run, and a     *)
(* cancellation (the handshake deadline, a shutdown) may be delivered.     *)
(*                                                                         *)
(* A client is one of the max_clients places of handle(): one more is      *)
(* told 503 and changes nothing.  A proxy is an address; which of the      *)
(* candidates the rotation prefers is left open, and so is what a dial, a  *)
(* relay or a client does.  A binding of a session is assumed to outlive   *)
(* a connect of that session (session_ttl is 600 s, connect_timeout 8 s).  *)
(***************************************************************************)
EXTENDS Integers, Sequences, FiniteSets, SequencesExt, FiniteSetsExt

CONSTANTS
    Clients,      \* places for client connections (max_clients)
    Proxies,
    Sessions,     \* session names in the user names of clients
    Strict,       \* those whose sticky mode is strict
    NoSession, NoProxy,
    Limit,        \* max_per_proxy, 0: no limit
    Changing,     \* bound: the proxies that come and go with exports and denylists
    Attempts,     \* proxies a client is tried with
    MaxFailures,  \* faults in a row that rest a proxy
    OwnTask       \* the handshake under wait_for is a task of its own (Python 3.11)

ASSUME NamesAssumption ==
    /\ Strict \subseteq Sessions /\ Changing \subseteq Proxies
    /\ NoSession \notin Sessions /\ NoProxy \notin Proxies
    /\ IsFiniteSet(Clients)
ASSUME NumbersAssumption ==
    Limit \in Nat /\ Attempts \in Nat \ {0} /\ MaxFailures \in Nat \ {0} /\ OwnTask \in BOOLEAN

VARIABLES
    rows,       \* the proxies that are served now
    active,     \* the slots taken of each proxy
    failures,   \* the faults in a row of each proxy
    resting,    \* the proxies that rest, the next to be back first
    bound,      \* the proxy of each session
    client,     \* what each client's handler is doing
    sockets,    \* history: the upstream connections of each client, not closed
    stage       \* of the listener

gatewayVars == <<rows, active, failures, resting, bound, client, sockets, stage>>

\* dial: an attempt is under way, has a tunnel, has failed, or was cancelled.
NotTried == [p \in Proxies |-> "none"]
Idle == [at |-> "idle", session |-> NoSession, dial |-> NotTried, late |-> {}, lease |-> NoProxy,
         scored |-> FALSE, cancelled |-> FALSE, doomed |-> FALSE]

Tried(k) == {p \in Proxies : k.dial[p] # "none"}
Pending(k) == {p \in Proxies : k.dial[p] \in {"dialling", "open", "failed"}}
Ended(k, result) == {p \in Proxies : k.dial[p] = result}
Dialled(k, some, word) == [k EXCEPT !.dial = [p \in Proxies |-> IF p \in some THEN word ELSE @[p]]]

-----------------------------------------------------------------------------
(* The pool *)

Free(p) == Limit = 0 \/ active[p] < Limit

\* reserve, of a client that has tried some: the addresses it may be given.
\* Without a candidate a resting proxy serves, the one that is back first.
Offered(session, tried) ==
    LET usable == {p \in rows \ tried : Free(p)}
        candidates == usable \ ToSet(resting)
        pinned == IF session = NoSession THEN NoProxy ELSE bound[session]
        fallback == {resting[n] : n \in {m \in DOMAIN resting :
                        resting[m] \in usable /\ \A l \in 1..(m - 1) : resting[l] \notin usable}}
    IN  CASE pinned \in candidates -> {pinned}
          [] pinned # NoProxy /\ pinned \notin candidates /\ session \in Strict -> {}
          [] OTHER -> IF candidates # {} THEN candidates ELSE fallback

\* Slots are taken and given back one by one.
Counted(taken, released) ==
    [p \in Proxies |-> active[p] + (IF p \in taken THEN 1 ELSE 0) - (IF p \in released THEN 1 ELSE 0)]

\* outcome, of the proxies that had a fault.
Blamed(some) ==
    LET tired == {p \in some : failures[p] + 1 >= MaxFailures}
    IN  /\ failures' = [p \in Proxies |-> IF p \in tired THEN 0
                                          ELSE IF p \in some THEN failures[p] + 1 ELSE failures[p]]
        /\ resting' = SelectSeq(resting, LAMBDA p : p \notin tired) \o SetToSeq(tired)

Bound(session, p) == IF session = NoSession THEN bound ELSE [bound EXCEPT ![session] = p]

\* Mutant: a strict session too is bound only when its tunnel is up.
BoundByWinner(session, p) == bound

\* start_next: a strict session is bound as soon as a slot is taken for it.
Committed(session, p) == IF session \in Strict THEN Bound(session, p) ELSE bound

-----------------------------------------------------------------------------
(* connect *)

MayAdd(k) == k.session \notin Strict /\ Cardinality(Tried(k)) < Attempts

\* One more attempt, after the slots of some were given back.  When there is
\* nothing to start and nothing under way the client is refused.
StartNext(c, k, released) ==
    LET offered == Offered(k.session, Tried(k))
    IN  \/ \E p \in offered :
              /\ active' = Counted({p}, released)
              /\ client' = [client EXCEPT ![c] = [Dialled(k, {p}, "dialling") EXCEPT !.at = "connecting"]]
              /\ bound' = Committed(k.session, p)
        \/ /\ offered = {}
           /\ active' = Counted({}, released)
           /\ client' = [client EXCEPT ![c] = IF Pending(k) = {} THEN Idle ELSE k]
           /\ UNCHANGED bound

Accept(c) ==
    /\ stage = "serving" /\ client[c].at = "idle"
    /\ client' = [client EXCEPT ![c].at = "reading"]
    /\ UNCHANGED <<rows, active, failures, resting, bound, sockets, stage>>

\* handle_http, handle_socks5 up to connect.
Connect(c, session) ==
    /\ client[c].at = "reading" /\ ~client[c].cancelled
    /\ StartNext(c, [client[c] EXCEPT !.session = session], {})
    /\ UNCHANGED <<rows, failures, resting, sockets, stage>>

\* An attempt ends, within connect_timeout.
DialEnds(c, p, result) ==
    /\ client[c].at = "connecting" /\ client[c].dial[p] = "dialling"
    /\ client' = [client EXCEPT ![c].dial[p] = result]
    /\ sockets' = IF result = "open" THEN [sockets EXCEPT ![c] = @ \cup {p}] ELSE sockets
    /\ UNCHANGED <<rows, active, failures, resting, bound, stage>>

\* Mutant: an attempt is done when it has a tunnel.
OpenOnly(k) == Ended(k, "open")

\* The attempts that asyncio.wait reports.
Done(k) == Ended(k, "open") \cup Ended(k, "failed")

\* Nothing ended within stagger: what is under way is late, one more begins.
Stagger(c) ==
    LET k == client[c]
    IN  /\ k.at = "connecting" /\ ~k.cancelled /\ MayAdd(k)
        /\ Done(k) = {}
        /\ StartNext(c, [k EXCEPT !.late = Pending(k)], {})
        /\ UNCHANGED <<rows, failures, resting, sockets, stage>>

\* Where a handler is that was given a lease: the grant is written, or the request
\* of a plain HTTP client goes straight to the relay.
GoesOn(k) == {[k EXCEPT !.at = at, !.dial = NotTried] : at \in {"granting", "relaying"}}

\* The finally of connect: the attempts that are under way are cancelled.
Unwinding(k) ==
    [k EXCEPT !.at = "unwinding", !.session = NoSession, !.late = {}, !.cancelled = FALSE,
              !.dial = [p \in Proxies |-> IF @[p] = "dialling" THEN "cancelled" ELSE "none"]]

\* The tunnel of w won: the others are cancelled or closed, and who was late is slow.
Won(c, w) ==
    LET k == client[c]
        slow == Ended(k, "dialling") \cap k.late
        won == [Unwinding(k) EXCEPT !.lease = w]
    IN  /\ k.at = "connecting" /\ ~k.cancelled /\ w \in Ended(k, "open")
        /\ Blamed(Ended(k, "failed") \cup slow)
        /\ active' = Counted({}, Pending(k) \ {w})
        /\ bound' = Bound(k.session, w)
        /\ sockets' = [sockets EXCEPT ![c] = {w}]
        /\ \E next \in IF Ended(won, "cancelled") = {} THEN GoesOn(won) ELSE {won} :
              client' = [client EXCEPT ![c] = next]
        /\ UNCHANGED <<rows, stage>>

\* Attempts failed and none has a tunnel: a strict session ends with it, another
\* client goes on with what is under way or one more.
Failed(c) ==
    LET k == client[c]
        failed == Done(k)
        kept == Dialled(k, failed, "gone")
    IN  /\ k.at = "connecting" /\ ~k.cancelled /\ failed # {} /\ Ended(k, "open") = {}
        /\ Blamed(failed)
        /\ IF MayAdd(k) THEN StartNext(c, kept, failed)
           ELSE /\ active' = Counted({}, failed)
                /\ client' = [client EXCEPT ![c] = IF Pending(kept) = {} THEN Idle ELSE kept]
                /\ UNCHANGED bound
        /\ UNCHANGED <<rows, sockets, stage>>

\* The finally of connect waits for what it cancelled, which ends with nothing,
\* with a fault or, although it was cancelled, with a tunnel.
Unwound(c, p, result) ==
    /\ client[c].at = "unwinding" /\ client[c].dial[p] = "cancelled"
    /\ client' = [client EXCEPT ![c].dial[p] = IF result = "failed" THEN "failed" ELSE "none"]
    /\ sockets' = IF result = "open" THEN [sockets EXCEPT ![c] = @ \cup {p}] ELSE sockets
    /\ UNCHANGED <<rows, active, failures, resting, bound, stage>>

\* Mutant: tunnels that came late stay open.
LateLeftOpen(k, some) == some

\* Late tunnels are closed, that of the winner stays.
LateClosed(k, some) == some \cap {k.lease}

\* The end of the finally.  The winner's handler goes on, whatever was cancelled
\* meanwhile; under a task of its own the cancelled handler drops its result.
Unwind(c) ==
    LET k == client[c]
    IN  /\ k.at = "unwinding" /\ Ended(k, "cancelled") = {}
        /\ sockets' = [sockets EXCEPT ![c] = LateClosed(k, @)]
        /\ IF k.lease = NoProxy THEN /\ client' = [client EXCEPT ![c] = Idle]
                                     /\ UNCHANGED <<failures, resting>>
           ELSE /\ Blamed(Ended(k, "failed"))
                /\ \E next \in IF k.doomed THEN {Idle} ELSE GoesOn(k) : client' = [client EXCEPT ![c] = next]
        /\ UNCHANGED <<rows, active, bound, stage>>

-----------------------------------------------------------------------------
(* The client, its deadline and the relay *)

\* Mutant: a grant that is cut off keeps the slot.
DiscardNothing(k) == Pending(k)

\* Slots a handler gives back when it is cut off: _discard, finally of connect and relay.
Discarded(k) == Pending(k) \cup ({k.lease} \ {NoProxy})

\* A cancellation reaches a handler: the attempts of a connect are unwound
\* first, any other place ends at once.
CutOff(c) ==
    LET k == client[c]
    IN  /\ active' = Counted({}, Discarded(k))
        /\ IF k.at = "connecting"
             THEN /\ client' = [client EXCEPT ![c] = Unwinding(k)]
                  /\ UNCHANGED sockets
             ELSE /\ client' = [client EXCEPT ![c] = Idle]
                  /\ sockets' = [sockets EXCEPT ![c] = {}]
        /\ UNCHANGED <<rows, failures, resting, bound, stage>>

\* handshake_timeout, or the client hung up or asked for nothing to relay.
GivesUp(c) ==
    /\ client[c].at \in {"reading", "connecting", "granting"} /\ ~client[c].cancelled
    /\ CutOff(c)

\* A cancellation is delivered, except in the finally of connect, which
\* suppresses whatever is raised while it waits.
Cancelled(c) ==
    /\ client[c].cancelled
    /\ IF client[c].at = "unwinding"
         THEN /\ client' = [client EXCEPT ![c].cancelled = FALSE, ![c].doomed = OwnTask]
              /\ UNCHANGED <<rows, active, failures, resting, bound, sockets, stage>>
         ELSE CutOff(c)

Granted(c) ==
    /\ client[c].at = "granting" /\ ~client[c].cancelled
    /\ client' = [client EXCEPT ![c].at = "relaying"]
    /\ UNCHANGED <<rows, active, failures, resting, bound, sockets, stage>>

\* relay: the first thing the exchange proves is its verdict.
Scores(c, verdict) ==
    LET k == client[c]
    IN  /\ k.at = "relaying" /\ ~k.scored
        /\ client' = [client EXCEPT ![c].scored = TRUE]
        /\ CASE verdict = "good" -> /\ failures' = [failures EXCEPT ![k.lease] = 0]
                                    /\ UNCHANGED resting
             [] verdict = "fault" -> Blamed({k.lease})
             [] verdict = "target" -> UNCHANGED <<failures, resting>>
        /\ UNCHANGED <<rows, active, bound, sockets, stage>>

\* The exchange is over: both ends closed, idle_timeout, max_session or an error.
\* A client that sent something and got nothing counts against the proxy.
RelayEnds(c, empty) ==
    LET k == client[c]
    IN  /\ k.at = "relaying" /\ (empty => ~k.scored)
        /\ active' = Counted({}, {k.lease})
        /\ client' = [client EXCEPT ![c] = Idle]
        /\ sockets' = [sockets EXCEPT ![c] = {}]
        /\ IF empty THEN Blamed({k.lease}) ELSE UNCHANGED <<failures, resting>>
        /\ UNCHANGED <<rows, bound, stage>>

-----------------------------------------------------------------------------
(* The listener *)

\* refresh_loop: an export or a denylist that serves other proxies.
Refresh(p) ==
    /\ stage = "serving"
    /\ rows' = IF p \in rows THEN rows \ {p} ELSE rows \cup {p}
    /\ UNCHANGED <<active, failures, resting, bound, client, sockets, stage>>

\* set_denylist under on_deny close: streams over the denied proxy are cancelled.
DenyAndClose(p) ==
    /\ p \in rows /\ rows' = rows \ {p}
    /\ client' = [c \in Clients |-> IF client[c].at = "relaying" /\ client[c].lease = p
                                    THEN [client[c] EXCEPT !.cancelled = TRUE] ELSE client[c]]
    /\ UNCHANGED <<active, failures, resting, bound, sockets, stage>>

RestEnds ==
    /\ resting # <<>> /\ resting' = Tail(resting)
    /\ UNCHANGED <<rows, active, failures, bound, client, sockets, stage>>

\* A binding expires, not while a client of the session connects.
Expires(s) ==
    /\ bound[s] # NoProxy /\ bound' = [bound EXCEPT ![s] = NoProxy]
    /\ \A c \in Clients : client[c].session # s
    /\ UNCHANGED <<rows, active, failures, resting, client, sockets, stage>>

\* shutdown: no more clients, a grace for those there are.
ShutDown ==
    /\ stage = "serving" /\ stage' = "draining"
    /\ UNCHANGED <<rows, active, failures, resting, bound, client, sockets>>

\* The grace is over, or nobody is left: the others are cancelled and waited for.
GraceOver ==
    /\ stage = "draining" /\ stage' = "gathering"
    /\ client' = [c \in Clients |-> IF client[c].at = "idle" THEN client[c]
                                    ELSE [client[c] EXCEPT !.cancelled = TRUE]]
    /\ UNCHANGED <<rows, active, failures, resting, bound, sockets>>

ShutDownEnds ==
    /\ stage = "gathering" /\ \A c \in Clients : client[c].at = "idle"
    /\ stage' = "closed"
    /\ UNCHANGED <<rows, active, failures, resting, bound, client, sockets>>

-----------------------------------------------------------------------------
Init ==
    /\ rows = Proxies
    /\ active = [p \in Proxies |-> 0] /\ failures = [p \in Proxies |-> 0] /\ resting = <<>>
    /\ bound = [s \in Sessions |-> NoProxy]
    /\ client = [c \in Clients |-> Idle] /\ sockets = [c \in Clients |-> {}]
    /\ stage = "serving"

\* What the loop does for a client whatever the client does.
Handler(c) ==
    \/ \E p \in Proxies, result \in {"open", "failed"} : DialEnds(c, p, result)
    \/ \E w \in Proxies : Won(c, w)
    \/ Failed(c)
    \/ \E p \in Proxies, result \in {"nothing", "open", "failed"} : Unwound(c, p, result)
    \/ Unwind(c)
    \/ Cancelled(c)

Client(c) ==
    \/ Accept(c)
    \/ \E session \in Sessions \cup {NoSession} : Connect(c, session)
    \/ Stagger(c)
    \/ GivesUp(c)
    \/ Granted(c)
    \/ \E verdict \in {"good", "fault", "target"} : Scores(c, verdict)
    \/ \E empty \in BOOLEAN : RelayEnds(c, empty)

Listener ==
    \/ \E p \in Changing : Refresh(p)
    \/ \E p \in Changing : DenyAndClose(p)
    \/ RestEnds
    \/ \E s \in Sessions : Expires(s)
    \/ ShutDown
    \/ GraceOver
    \/ ShutDownEnds

Next == (\E c \in Clients : Handler(c) \/ Client(c)) \/ Listener

GatewaySpec == Init /\ [][Next]_gatewayVars

\* The loop runs what is ready, a dial ends within connect_timeout and a shutdown
\* goes on; a client may be slow for ever, and its deadline is not counted on.
LiveGateway ==
    /\ GatewaySpec
    /\ \A c \in Clients : WF_gatewayVars(Handler(c))
    /\ WF_gatewayVars(GraceOver) /\ WF_gatewayVars(ShutDownEnds)

-----------------------------------------------------------------------------
(* What must hold *)

\* The slots of a handler: in the finally of connect the losers have no slot any more.
Holds(c) ==
    LET k == client[c]
    IN  (IF k.at = "unwinding" THEN {} ELSE Pending(k)) \cup ({k.lease} \ {NoProxy})

\* Every slot taken is held by a handler that gives it back, on success, on error
\* and on a cancellation at any await, and no proxy has more than max_per_proxy:
\* the rule at the head of gateway.py, Lease, reserve, connect, _discard, relay.
SlotsReturned ==
    \A p \in Proxies :
        /\ active[p] = Cardinality({c \in Clients : p \in Holds(c)})
        /\ Limit = 0 \/ active[p] <= Limit

\* A handler that has ended leaves no upstream connection open, and one that
\* relays has only that of its lease: a tunnel that lost the race is closed,
\* whether it lost in the same turn, was cut off or came after its cancellation.
SocketsClosed ==
    \A c \in Clients :
        \/ client[c].at \in {"connecting", "unwinding"}
        \/ sockets[c] \subseteq {client[c].lease} \ {NoProxy}

\* A strict session never changes its address while its binding lives, though
\* several clients of the session connect at once (_pick, bind_session).
StrictStays ==
    [][\A s \in Strict : bound[s] # NoProxy /\ bound'[s] # NoProxy => bound'[s] = bound[s]]_gatewayVars

\* A client that connects is given a tunnel or is refused, even without its
\* handshake deadline: each attempt ends and the next decision follows.
ConnectSettles ==
    \A c \in Clients : []<>(client[c].at \notin {"connecting", "unwinding"})

\* shutdown: "Stop serving and end every client connection with a bounded wait."
ShutDownSettles == stage = "draining" ~> stage = "closed"

=============================================================================
