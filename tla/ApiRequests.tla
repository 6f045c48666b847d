---------------------------- MODULE ApiRequests ----------------------------
(***************************************************************************)
(* What a changing request of the versioned API goes through, apiv1.py:    *)
(* the requests of one idempotency key wait for each other, an answer that *)
(* is remembered is given again, slots bound what runs at the same time,   *)
(* in the process and per API key, and the operation is applied.  The      *)
(* operations here are those that only live in the process: the leases of  *)
(* api.py over the addresses of one pool.                                  *)
(*                                                                         *)
(* Every request is a thread.  An action is what happens under one lock    *)
(* or between two.  Authentication, permissions, rate limits and the       *)
(* checks of the body come before and change nothing here; they are left   *)
(* out.  The clock never steps back.                                       *)
(***************************************************************************)
EXTENDS Integers, Sequences, FiniteSets, SequencesExt

CONSTANTS
    Requests,
    Asks,          \* Asks[r]: what request r may be
    Callers,       \* API keys
    NoKey,         \* a request without Idempotency-Key
    NoEntry,
    Proxies,       \* the addresses the pool can serve
    MaxRunning,    \* config.max_concurrency
    MaxActive,     \* the quota of a key
    MaxRecords,    \* config.idempotency_max_entries
    RecordTtl,     \* config.idempotency_ttl_s
    LeaseTtl,
    MaxClock       \* bound

ASSUME ApiAssumption ==
    /\ MaxRunning \in Nat \ {0} /\ MaxActive \in Nat \ {0} /\ MaxRecords \in Nat
    /\ RecordTtl \in Nat /\ LeaseTtl \in Nat \ {0} /\ MaxClock \in Nat
    /\ IsFiniteSet(Requests) /\ IsFiniteSet(Proxies) /\ NoEntry \notin Requests

VARIABLES
    clock,
    ask,        \* the request of each thread
    at,         \* where the thread is
    answer,     \* none, applied, replayed, conflict, refused or failed
    flights,    \* IdempotencyStore._flights: the entry of an identity
    users,      \* per entry, who made it names it
    owner,      \* the thread that has the entry's lock
    entry,      \* the entry a thread uses
    records,    \* _records, oldest first
    used,       \* ConcurrencyLimiter._used
    held,       \* KeyQuota._held
    stamp,      \* when an operation began
    leases,     \* every lease ever made, named by the request that made it
    live,       \* those in the registry, Reservations._leases
    returned    \* history: leases their holder gave back

flight == <<flights, users, owner, entry>>
slots == <<used, held>>
registry == <<leases, live, returned>>
vars == <<clock, ask, at, answer, flight, records, slots, stamp, registry>>

Operations == {"acquire", "renew", "release"}
Steps == {"new", "entering", "waiting", "looking", "slot", "keySlot", "begin", "commit",
          "freeKey", "freeSlot", "put", "unlock", "leave", "done"}

\* What a request may ask for: the lease it names is one that a request made.
ASSUME AsksAssumption ==
    \A r \in Requests :
        /\ Asks[r] # {}
        /\ \A a \in Asks[r] :
              a.op \in Operations /\ a.caller \in Callers /\ a.count \in Nat /\ a.lease \in Requests

NoLease == [proxies |-> {}, expires |-> 0]

\* Bucket and key: caller, route and Idempotency-Key.
Identity(r) == <<ask[r].caller, ask[r].op, ask[r].key>>
Digest(r) == <<ask[r].count, ask[r].lease>>
Keyed(r) == ask[r].key # NoKey

-----------------------------------------------------------------------------
(* Helpers *)

At(r, step) == at[r] = step
Go(r, step) == at' = [at EXCEPT ![r] = step]
Say(r, what) == answer' = [answer EXCEPT ![r] = what]

\* Mutant: a request that was not applied leaves its lock behind.
UnwindAtOnce(r) == "done"

\* Where a request goes when its operation is over.
Unwind(r) == IF Keyed(r) THEN "unlock" ELSE "done"

Expired(record) == clock - record.at > RecordTtl
RecordsOf(id) == {n \in DOMAIN records : records[n].id = id}
\* An identity has one record at most (OrderedDict).
Without(id) ==
    IF RecordsOf(id) = {} THEN records
    ELSE RemoveAt(records, CHOOSE n \in RecordsOf(id) : TRUE)
Newest(s, n) == IF Len(s) <= n THEN s ELSE SubSeq(s, Len(s) - n + 1, Len(s))

\* _expire, for the time an operation has read.
Unexpired(now) == {l \in live : leases[l].expires > now}

-----------------------------------------------------------------------------
(* One answer per key *)

Arrive(r) ==
    /\ At(r, "new")
    /\ \E a \in Asks[r] :
         /\ a.op # "acquire" => answer[a.lease] = "applied" /\ At(a.lease, "done")
         /\ ask' = [ask EXCEPT ![r] = a]
         /\ Go(r, IF a.key = NoKey THEN "slot" ELSE "entering")
    /\ UNCHANGED <<clock, answer, flight, records, slots, stamp, registry>>

\* serialized: the entry of the identity, or a new one.
Enter(r) ==
    LET id == Identity(r)
        e == IF id \in DOMAIN flights THEN flights[id] ELSE r
    IN
    /\ At(r, "entering")
    /\ flights' = [i \in DOMAIN flights \cup {id} |-> IF i = id THEN e ELSE flights[i]]
    /\ users' = [users EXCEPT ![e] = @ + 1]
    /\ entry' = [entry EXCEPT ![r] = e]
    /\ Go(r, "waiting")
    /\ UNCHANGED <<clock, ask, answer, owner, records, slots, stamp, registry>>

Lock(r) ==
    /\ At(r, "waiting") /\ owner[entry[r]] = NoEntry
    /\ owner' = [owner EXCEPT ![entry[r]] = r]
    /\ Go(r, "looking")
    /\ UNCHANGED <<clock, ask, answer, flights, users, entry, records, slots, stamp, registry>>

\* IdempotencyStore.get: an expired record is forgotten before it is compared.
Look(r) ==
    LET mine == RecordsOf(Identity(r)) IN
    /\ At(r, "looking")
    /\ \/ /\ mine = {}
          /\ Go(r, "slot")
          /\ UNCHANGED <<answer, records>>
       \/ \E n \in mine :
            \/ /\ Expired(records[n])
               /\ records' = Without(Identity(r))
               /\ Go(r, "slot")
               /\ UNCHANGED answer
            \/ /\ ~Expired(records[n])
               /\ Say(r, IF records[n].digest = Digest(r) THEN "replayed" ELSE "conflict")
               /\ Go(r, "unlock")
               /\ UNCHANGED records
    /\ UNCHANGED <<clock, ask, flight, slots, stamp, registry>>

\* IdempotencyStore.put; only a success gets here.
Put(r) ==
    /\ At(r, "put")
    /\ records' = Newest(Append(Without(Identity(r)),
                                [id |-> Identity(r), digest |-> Digest(r), at |-> clock]),
                         MaxRecords)
    /\ Go(r, "unlock")
    /\ UNCHANGED <<clock, ask, answer, flight, slots, stamp, registry>>

Unlock(r) ==
    /\ At(r, "unlock")
    /\ owner' = [owner EXCEPT ![entry[r]] = NoEntry]
    /\ Go(r, "leave")
    /\ UNCHANGED <<clock, ask, answer, flights, users, entry, records, slots, stamp, registry>>

\* Mutant: whoever leaves first takes the entry away.
NobodyElse(e) == TRUE

Unused(e) == users[e] = 1

Leave(r) ==
    /\ At(r, "leave")
    /\ users' = [users EXCEPT ![entry[r]] = @ - 1]
    /\ flights' = IF Unused(entry[r])
                  THEN [i \in DOMAIN flights \ {Identity(r)} |-> flights[i]] ELSE flights
    /\ Go(r, "done")
    /\ UNCHANGED <<clock, ask, answer, owner, entry, records, slots, stamp, registry>>

-----------------------------------------------------------------------------
(* Slots *)

TakeSlot(r) ==
    /\ At(r, "slot")
    /\ \/ /\ used < MaxRunning
          /\ used' = used + 1
          /\ Go(r, "keySlot")
          /\ UNCHANGED answer
       \/ /\ used >= MaxRunning
          /\ Say(r, "refused")
          /\ Go(r, Unwind(r))
          /\ UNCHANGED used
    /\ UNCHANGED <<clock, ask, flight, records, held, stamp, registry>>

TakeKeySlot(r) ==
    LET c == ask[r].caller IN
    /\ At(r, "keySlot")
    /\ \/ /\ held[c] < MaxActive
          /\ held' = [held EXCEPT ![c] = @ + 1]
          /\ Go(r, "begin")
          /\ UNCHANGED answer
       \/ /\ held[c] >= MaxActive
          /\ Say(r, "refused")
          /\ Go(r, "freeSlot")
          /\ UNCHANGED held
    /\ UNCHANGED <<clock, ask, flight, records, used, stamp, registry>>

FreeKeySlot(r) ==
    /\ At(r, "freeKey")
    /\ held' = [held EXCEPT ![ask[r].caller] = @ - 1]
    /\ Go(r, "freeSlot")
    /\ UNCHANGED <<clock, ask, answer, flight, records, used, stamp, registry>>

FreeSlot(r) ==
    /\ At(r, "freeSlot")
    /\ used' = IF used > 0 THEN used - 1 ELSE 0
    /\ Go(r, IF answer[r] = "applied" /\ Keyed(r) THEN "put" ELSE Unwind(r))
    /\ UNCHANGED <<clock, ask, answer, flight, records, held, stamp, registry>>

-----------------------------------------------------------------------------
(* Operations: the leases of a pool *)

\* An operation that raises before it changed anything.
Fail(r) ==
    /\ At(r, "begin")
    /\ Say(r, "failed")
    /\ Go(r, "freeKey")
    /\ UNCHANGED <<clock, ask, flight, records, slots, stamp, registry>>

Owns(r, l) == l \in Unexpired(clock) /\ ask[l].caller = ask[r].caller

\* What happens before the lock of the change: renew and release look whether
\* the lease is the caller's (_owned).
Begin(r) ==
    /\ At(r, "begin")
    /\ stamp' = [stamp EXCEPT ![r] = clock]
    /\ IF ask[r].op = "acquire" THEN UNCHANGED live ELSE live' = Unexpired(clock)
    /\ IF ask[r].op = "acquire" \/ Owns(r, ask[r].lease)
       THEN Go(r, "commit") /\ UNCHANGED answer
       ELSE Go(r, "freeKey") /\ Say(r, "refused")
    /\ UNCHANGED <<clock, ask, flight, records, slots, leases, returned>>

\* Reservations.acquire under its lock: addresses no live lease holds.
CommitAcquire(r, now) ==
    LET there == Unexpired(now)
        free == Proxies \ UNION {leases[l].proxies : l \in there}
    IN
    \/ /\ free # {}
       /\ \E some \in SUBSET free :
            /\ Cardinality(some) = IF ask[r].count <= Cardinality(free)
                                   THEN ask[r].count ELSE Cardinality(free)
            /\ leases' = [leases EXCEPT ![r] = [proxies |-> some,
                                                expires |-> now + LeaseTtl]]
       /\ live' = there \cup {r}
       /\ Say(r, "applied")
       /\ UNCHANGED returned
    \/ /\ free = {}
       /\ live' = there
       /\ Say(r, "refused")
       /\ UNCHANGED <<leases, returned>>

\* Mutant: renew trusts the record it found before.
StillFound(l, now) == TRUE

StillThere(l, now) == l \in Unexpired(now)

\* Reservations.renew under its lock: the lease may have ended meanwhile.
CommitRenew(r, now) ==
    LET l == ask[r].lease IN
    /\ live' = Unexpired(now)
    /\ IF StillThere(l, now)
       THEN /\ leases' = [leases EXCEPT ![l].expires = now + LeaseTtl]
            /\ Say(r, "applied")
       ELSE Say(r, "refused") /\ UNCHANGED leases
    /\ UNCHANGED returned

\* Reservations.release, for the time of the moment.
CommitRelease(r) ==
    LET l == ask[r].lease IN
    /\ live' = Unexpired(clock) \ {l}
    /\ IF l \in Unexpired(clock)
       THEN returned' = returned \cup {l} /\ Say(r, "applied")
       ELSE Say(r, "refused") /\ UNCHANGED returned
    /\ UNCHANGED leases

\* acquire and renew read the time before they have the lock.
Commit(r) ==
    /\ At(r, "commit")
    /\ \/ /\ ask[r].op = "acquire"
          /\ \E now \in stamp[r]..clock : CommitAcquire(r, now)
       \/ /\ ask[r].op = "renew"
          /\ \E now \in stamp[r]..clock : CommitRenew(r, now)
       \/ ask[r].op = "release" /\ CommitRelease(r)
    /\ Go(r, "freeKey")
    /\ UNCHANGED <<clock, ask, flight, records, slots, stamp>>

-----------------------------------------------------------------------------

Tick ==
    /\ clock < MaxClock
    /\ clock' = clock + 1
    /\ UNCHANGED <<ask, at, answer, flight, records, slots, stamp, registry>>

Init ==
    /\ clock = 0
    /\ ask = [r \in Requests |-> CHOOSE a \in Asks[r] : TRUE]    \* no request yet
    /\ at = [r \in Requests |-> "new"] /\ answer = [r \in Requests |-> "none"]
    /\ flights = [i \in {} |-> NoEntry]
    /\ users = [r \in Requests |-> 0] /\ owner = [r \in Requests |-> NoEntry]
    /\ entry = [r \in Requests |-> NoEntry]
    /\ records = <<>>
    /\ used = 0 /\ held = [c \in Callers |-> 0]
    /\ stamp = [r \in Requests |-> 0]
    /\ leases = [r \in Requests |-> NoLease] /\ live = {} /\ returned = {}

Serve(r) ==
    \/ Enter(r) \/ Lock(r) \/ Look(r) \/ Put(r) \/ Unlock(r) \/ Leave(r)
    \/ TakeSlot(r) \/ TakeKeySlot(r) \/ FreeKeySlot(r) \/ FreeSlot(r)
    \/ Begin(r) \/ Commit(r)

Next ==
    \/ \E r \in Requests : Arrive(r) \/ Serve(r) \/ Fail(r)
    \/ Tick

Spec == Init /\ [][Next]_vars

\* Every thread is scheduled again; nobody has to send anything.
LiveSpec == Spec /\ \A r \in Requests : WF_vars(Serve(r))

-----------------------------------------------------------------------------
(* Properties *)

Applied(r) == answer[r] = "applied"
Remembered(r) == \E n \in RecordsOf(Identity(r)) : ~Expired(records[n])

\* A request that is sent again with its idempotency key is not applied again:
\* not while the first is still on its way, whatever failed before, and not
\* while the answer is remembered.
AppliedOnce ==
    [][\A r, q \in Requests :
         /\ q # r /\ Keyed(r) /\ Identity(q) = Identity(r)
         /\ Applied(q) /\ (at[q] \in {"freeKey", "freeSlot", "put"} \/ Remembered(r))
         => ~(Applied(r)' /\ ~Applied(r))]_vars

\* A lease takes its addresses out of the pool for its life (docstring of
\* Reservations): no address is promised by two leases that have neither ended
\* nor been given back, although acquire and renew act on a time they read
\* before they had the lock and renew on a record it found before.
Promised(l) == leases[l].expires > clock /\ l \notin returned
LeaseExclusive ==
    \A l, m \in Requests :
        l # m /\ Promised(l) /\ Promised(m) => leases[l].proxies \cap leases[m].proxies = {}

\* Every request that arrived is answered, however the requests of its key
\* before it ended.
RequestsAnswered == <>[](\A r \in Requests : at[r] \in {"new", "done"})

=============================================================================
