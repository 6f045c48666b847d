------------------------- MODULE ApiRequests_proofs -------------------------
(***************************************************************************)
(* Theorems about ApiRequests, for every set of requests, API keys and     *)
(* addresses.  A lease that was promised is in the registry (LeaseInv), so *)
(* its addresses are not free for another, whatever time was read before   *)
(* the lock.  The requests of one identity have one entry as long as one   *)
(* of them uses it (FlightInv), so one at a time looks for an answer and   *)
(* applies the operation (RecordInv).                                      *)
(***************************************************************************)
EXTENDS ApiRequests, FiniteSetTheorems, SequenceTheorems, TLAPS

Answers == {"none", "applied", "replayed", "conflict", "refused", "failed"}
Leases == [proxies : SUBSET Proxies, expires : Nat]

\* The state is well typed.
ApiTypeOK ==
    /\ clock \in Nat
    /\ DOMAIN ask = Requests /\ \A r \in Requests : ask[r] \in Asks[r]
    /\ at \in [Requests -> Steps]
    /\ answer \in [Requests -> Answers]
    /\ stamp \in [Requests -> Nat] /\ \A r \in Requests : stamp[r] <= clock
    /\ leases \in [Requests -> Leases]
    /\ live \in SUBSET Requests /\ returned \in SUBSET Requests

\* Before the operation of a request is committed.
Before == {"new", "entering", "waiting", "looking", "slot", "keySlot", "begin", "commit"}

-----------------------------------------------------------------------------
(* Types *)

LEMMA AskTyped ==
    ASSUME ApiTypeOK, NEW r \in Requests
    PROVE  /\ ask[r].op \in Operations /\ ask[r].caller \in Callers
           /\ ask[r].count \in Nat /\ ask[r].lease \in Requests
  BY AsksAssumption DEF ApiTypeOK

\* acquire changes nothing, or makes a lease of addresses no live lease has.
LEMMA AcquireShape ==
    ASSUME NEW r, NEW now, CommitAcquire(r, now)
    PROVE  /\ returned' = returned
           /\ \/ /\ leases' = leases /\ live' = Unexpired(now)
                 /\ answer' = [answer EXCEPT ![r] = "refused"]
              \/ \E some \in SUBSET Proxies :
                   /\ \A l \in Unexpired(now) : leases[l].proxies \cap some = {}
                   /\ leases' = [leases EXCEPT ![r] = [proxies |-> some, expires |-> now + LeaseTtl]]
                   /\ live' = Unexpired(now) \cup {r}
                   /\ answer' = [answer EXCEPT ![r] = "applied"]
  <1> DEFINE taken == UNION {leases[l].proxies : l \in Unexpired(now)}
  <1>1. \A some \in SUBSET (Proxies \ taken) :
           some \in SUBSET Proxies /\ \A l \in Unexpired(now) : leases[l].proxies \cap some = {}
    OBVIOUS
  <1>2. CASE /\ Proxies \ taken # {}
             /\ \E some \in SUBSET (Proxies \ taken) :
                  leases' = [leases EXCEPT ![r] = [proxies |-> some, expires |-> now + LeaseTtl]]
             /\ live' = Unexpired(now) \cup {r}
             /\ answer' = [answer EXCEPT ![r] = "applied"]
             /\ returned' = returned
    BY <1>1, <1>2, Zenon
  <1>3. CASE /\ live' = Unexpired(now)
             /\ answer' = [answer EXCEPT ![r] = "refused"]
             /\ leases' = leases /\ returned' = returned
    BY <1>3
  <1>4. QED
    BY <1>2, <1>3, Zenon DEF CommitAcquire, Say

LEMMA TypeInit == Init => ApiTypeOK
  <1> SUFFICES ASSUME Init PROVE ApiTypeOK
    OBVIOUS
  <1>1. \A r \in Requests : ask[r] \in Asks[r]
    BY AsksAssumption DEF Init
  <1>2. QED
    BY <1>1 DEF Init, ApiTypeOK, Steps, Answers, Leases, NoLease

\* What the steps of a request do to the variables that the types name.
LEMMA TypeStep ==
    ASSUME ApiTypeOK, [Next]_vars
    PROVE  ApiTypeOK'
  <1> USE DEF ApiTypeOK, Go, Say, At, flight, slots, registry
  <1>1. CASE UNCHANGED vars
    BY <1>1 DEF vars
  <1>2. CASE Tick
    BY <1>2 DEF Tick
  <1>3. ASSUME NEW r \in Requests, Arrive(r)
        PROVE  ApiTypeOK'
    BY <1>3 DEF Arrive, Steps
  <1>4. ASSUME NEW r \in Requests, Enter(r) \/ Lock(r) \/ Unlock(r) \/ Leave(r)
        PROVE  ApiTypeOK'
    BY <1>4 DEF Enter, Lock, Unlock, Leave, Steps
  <1>5. ASSUME NEW r \in Requests, Look(r) \/ Put(r)
        PROVE  ApiTypeOK'
    BY <1>5 DEF Look, Put, Steps, Answers
  <1>6. ASSUME NEW r \in Requests, TakeSlot(r) \/ TakeKeySlot(r) \/ FreeKeySlot(r) \/ FreeSlot(r)
        PROVE  ApiTypeOK'
    BY <1>6 DEF TakeSlot, TakeKeySlot, FreeKeySlot, FreeSlot, Unwind, Steps, Answers
  <1>7. ASSUME NEW r \in Requests, Fail(r)
        PROVE  ApiTypeOK'
    BY <1>7 DEF Fail, Steps, Answers
  <1>8. ASSUME NEW r \in Requests, Begin(r)
        PROVE  ApiTypeOK'
    BY <1>8 DEF Begin, Unexpired, Steps, Answers
  <1>9. ASSUME NEW r \in Requests, Commit(r)
        PROVE  ApiTypeOK'
    <2>1. at' \in [Requests -> Steps] /\ UNCHANGED <<clock, ask, stamp>>
      BY <1>9 DEF Commit, Steps
    <2>2. ASSUME NEW now \in stamp[r]..clock, CommitAcquire(r, now)
          PROVE  /\ answer' \in [Requests -> Answers] /\ leases' \in [Requests -> Leases]
                 /\ live' \in SUBSET Requests /\ returned' \in SUBSET Requests
      <3>1. now + LeaseTtl \in Nat
        BY ApiAssumption
      <3>2. UNCHANGED returned /\ live' \in SUBSET Requests /\ answer' \in [Requests -> Answers]
        BY <2>2, AcquireShape DEF Unexpired, Answers
      <3>3. \A some \in SUBSET Proxies :
               [leases EXCEPT ![r] = [proxies |-> some, expires |-> now + LeaseTtl]] \in [Requests -> Leases]
        BY <3>1 DEF Leases
      <3>4. leases' \in [Requests -> Leases]
        BY <2>2, <3>3, AcquireShape
      <3>5. QED
        BY <3>2, <3>4
    <2>3. ASSUME NEW now \in stamp[r]..clock, CommitRenew(r, now)
          PROVE  /\ answer' \in [Requests -> Answers] /\ leases' \in [Requests -> Leases]
                 /\ live' \in SUBSET Requests /\ returned' \in SUBSET Requests
      <3>1. now + LeaseTtl \in Nat
        BY ApiAssumption
      <3>2. UNCHANGED returned /\ live' \in SUBSET Requests /\ answer' \in [Requests -> Answers]
        BY <2>3 DEF CommitRenew, Unexpired, Answers
      <3>3. [leases EXCEPT ![ask[r].lease].expires = now + LeaseTtl] \in [Requests -> Leases]
        BY <3>1 DEF Leases
      <3>4. leases' \in [Requests -> Leases]
        BY <2>3, <3>3 DEF CommitRenew
      <3>5. QED
        BY <3>2, <3>4
    <2>4. ASSUME CommitRelease(r)
          PROVE  /\ answer' \in [Requests -> Answers] /\ leases' \in [Requests -> Leases]
                 /\ live' \in SUBSET Requests /\ returned' \in SUBSET Requests
      BY <2>4, AskTyped DEF CommitRelease, Unexpired, Answers
    <2>5. QED
      BY <1>9, <2>1, <2>2, <2>3, <2>4 DEF Commit
  <1>10. QED
    BY <1>1, <1>2, <1>3, <1>4, <1>5, <1>6, <1>7, <1>8, <1>9 DEF Next, Serve

\* The state of the requests stays well typed.
THEOREM ApiTypeCorrect == Spec => []ApiTypeOK
  BY TypeInit, TypeStep, PTL DEF Spec

-----------------------------------------------------------------------------
(* Leases *)

LeaseInv ==
    /\ \A l, m \in live : l # m => leases[l].proxies \cap leases[m].proxies = {}
    /\ \A l \in Requests : Promised(l) => l \in live
    /\ \A r \in Requests : at[r] \in Before => r \notin live

LEMMA LeaseInit == Init => LeaseInv
  BY DEF Init, LeaseInv, Promised, NoLease

LEMMA LeaseStep ==
    ASSUME ApiTypeOK, LeaseInv, [Next]_vars
    PROVE  LeaseInv'
  <1> USE DEF LeaseInv, Go, At, flight, slots, registry, Promised
  \* A step that neither commits nor moves a request back.
  <1>1. ASSUME UNCHANGED <<clock, leases, returned>>, live' = live \/ live' = Unexpired(clock),
               \A r \in Requests : at'[r] \in Before => at[r] \in Before
        PROVE  LeaseInv'
    BY <1>1 DEF ApiTypeOK, Unexpired, Leases
  <1>2. CASE UNCHANGED vars
    BY <1>1, <1>2 DEF vars
  <1>3. CASE Tick
    BY <1>3 DEF Tick, ApiTypeOK, Leases
  <1>4. ASSUME NEW r \in Requests, Arrive(r) \/ Fail(r) \/ Begin(r)
        PROVE  LeaseInv'
    <2>1. \A q \in Requests : at'[q] \in Before => at[q] \in Before
      BY <1>4 DEF ApiTypeOK, Arrive, Fail, Begin, Before
    <2>2. QED
      BY <1>1, <1>4, <2>1 DEF Arrive, Fail, Begin
  <1>5. ASSUME NEW r \in Requests, Enter(r) \/ Lock(r) \/ Look(r) \/ Put(r) \/ Unlock(r) \/ Leave(r)
        PROVE  LeaseInv'
    <2>1. \A q \in Requests : at'[q] \in Before => at[q] \in Before
      BY <1>5 DEF ApiTypeOK, Enter, Lock, Look, Put, Unlock, Leave, Before
    <2>2. QED
      BY <1>1, <1>5, <2>1 DEF Enter, Lock, Look, Put, Unlock, Leave
  <1>6. ASSUME NEW r \in Requests, TakeSlot(r) \/ TakeKeySlot(r) \/ FreeKeySlot(r) \/ FreeSlot(r)
        PROVE  LeaseInv'
    <2>1. \A q \in Requests : at'[q] \in Before => at[q] \in Before
      BY <1>6 DEF ApiTypeOK, TakeSlot, TakeKeySlot, FreeKeySlot, FreeSlot, Unwind, Before
    <2>2. QED
      BY <1>1, <1>6, <2>1 DEF TakeSlot, TakeKeySlot, FreeKeySlot, FreeSlot
  <1>7. ASSUME NEW r \in Requests, Commit(r)
        PROVE  LeaseInv'
    <2>1. /\ at[r] = "commit" /\ clock' = clock
          /\ \A q \in Requests : at'[q] \in Before => at[q] \in Before /\ q # r
      BY <1>7 DEF ApiTypeOK, Commit, Before
    <2>2. r \notin live
      BY <2>1 DEF Before
    <2>3. \A now \in stamp[r]..clock : now \in Nat /\ now <= clock
      BY DEF ApiTypeOK
    <2>4. ASSUME NEW now \in stamp[r]..clock, CommitAcquire(r, now)
          PROVE  LeaseInv'
      <3> DEFINE there == Unexpired(now)
      <3>1. there \subseteq live /\ \A l \in Requests : Promised(l) => l \in there
        BY <2>3 DEF Unexpired, ApiTypeOK, Leases
      <3>2. CASE leases' = leases /\ returned' = returned /\ live' = there
        BY <2>1, <3>1, <3>2
      <3>3. ASSUME NEW some \in SUBSET Proxies,
                   \A l \in there : leases[l].proxies \cap some = {},
                   leases' = [leases EXCEPT ![r] = [proxies |-> some, expires |-> now + LeaseTtl]],
                   live' = there \cup {r}, returned' = returned
            PROVE  LeaseInv'
        <4>1. \A l \in Requests : l # r => leases'[l] = leases[l]
          BY <3>3 DEF ApiTypeOK
        <4>2. leases'[r].proxies = some
          BY <3>3 DEF ApiTypeOK
        <4>3. \A l \in there : leases[l].proxies \cap some = {}
          BY <3>3
        <4>4. \A l, m \in live' : l # m => leases'[l].proxies \cap leases'[m].proxies = {}
          BY <2>2, <3>1, <3>3, <4>1, <4>2, <4>3 DEF ApiTypeOK
        <4>5. \A l \in Requests : Promised(l)' => l \in live'
          BY <2>1, <3>1, <3>3, <4>1
        <4>6. QED
          BY <2>1, <3>1, <3>3, <4>4, <4>5
      <3>4. QED
        BY <2>4, <3>2, <3>3, AcquireShape
    <2>5. ASSUME NEW now \in stamp[r]..clock, CommitRenew(r, now)
          PROVE  LeaseInv'
      <3> DEFINE k == ask[r].lease
      <3>1. /\ live' \subseteq live /\ UNCHANGED returned
            /\ \A l \in live : leases[l].expires > now => l \in live'
        BY <2>5 DEF CommitRenew, Unexpired
      <3>2. \A l \in Requests : leases'[l].proxies = leases[l].proxies
        BY <2>5, AskTyped DEF CommitRenew, ApiTypeOK, Leases
      <3>3. \A l \in Requests : leases'[l].expires = leases[l].expires \/ l \in live'
        BY <2>5, AskTyped DEF CommitRenew, StillThere, ApiTypeOK, Leases
      <3>4. \A l \in Requests : Promised(l)' => l \in live'
        BY <2>1, <2>3, <3>1, <3>3 DEF ApiTypeOK, Leases
      <3>5. QED
        BY <2>1, <3>1, <3>2, <3>4 DEF ApiTypeOK
    <2>6. ASSUME CommitRelease(r)
          PROVE  LeaseInv'
      BY <2>1, <2>6 DEF CommitRelease, Unexpired, ApiTypeOK
    <2>7. QED
      BY <1>7, <2>4, <2>5, <2>6 DEF Commit
  <1>8. QED
    BY <1>2, <1>3, <1>4, <1>5, <1>6, <1>7 DEF Next, Serve

LEMMA LeaseInvExclusive == ApiTypeOK /\ LeaseInv => LeaseExclusive
  BY DEF LeaseInv, LeaseExclusive

\* No address is promised by two leases that have neither ended nor been given
\* back, for any number of requests, keys, addresses and any expiry.
THEOREM LeasesAreExclusive == Spec => []LeaseExclusive
  <1>1. ApiTypeOK /\ LeaseInv /\ [Next]_vars => (ApiTypeOK /\ LeaseInv)'
    BY TypeStep, LeaseStep
  <1>2. QED
    BY <1>1, TypeInit, LeaseInit, LeaseInvExclusive, PTL DEF Spec

-----------------------------------------------------------------------------
(* One entry per identity, one request at a time *)

Asked == UNION {Asks[r] : r \in Requests}
Ids == {<<a.caller, a.op, a.key>> : a \in Asked}
Digests == {<<a.count, a.lease>> : a \in Asked}
Records == [id : Ids, digest : Digests, at : Nat]

Alone == {"looking", "slot", "keySlot", "begin", "commit", "freeKey", "freeSlot", "put", "unlock"}

\* The requests that use an entry, and those that have its lock.
Inside(r) == Keyed(r) /\ at[r] \in Alone \cup {"waiting", "leave"}
Holding(r) == Keyed(r) /\ at[r] \in Alone
UsersOf(e) == {r \in Requests : Inside(r) /\ entry[r] = e}

FlightInv ==
    /\ users \in [Requests -> Int]
    /\ owner \in [Requests -> Requests \cup {NoEntry}]
    /\ entry \in [Requests -> Requests \cup {NoEntry}]
    /\ \A id \in DOMAIN flights : flights[id] \in Requests
    /\ \A r \in Requests :
         at[r] \in {"entering", "waiting", "looking", "put", "unlock", "leave"} => Keyed(r)
    /\ \A e \in Requests : users[e] = Cardinality(UsersOf(e))
    /\ \A r \in Requests :
         Inside(r) => /\ entry[r] \in Requests
                      /\ Identity(r) \in DOMAIN flights /\ flights[Identity(r)] = entry[r]
    /\ \A r \in Requests : Holding(r) => owner[entry[r]] = r

\* Two requests of one identity are never both past the lock.
LEMMA HoldingAlone ==
    ASSUME FlightInv, NEW r \in Requests, NEW q \in Requests,
           Holding(r), Holding(q), Identity(r) = Identity(q)
    PROVE  r = q
  BY DEF FlightInv, Holding, Inside

LEMMA FlightInit == Init => FlightInv
  <1> SUFFICES ASSUME Init PROVE FlightInv
    OBVIOUS
  <1>1. \A e \in Requests : UsersOf(e) = {}
    BY DEF Init, UsersOf, Inside, Alone
  <1>2. \A e \in Requests : Cardinality(UsersOf(e)) = 0
    BY <1>1, FS_EmptySet
  <1>3. \A r \in Requests : at[r] = "new" /\ ~Inside(r) /\ ~Holding(r)
    BY DEF Init, Inside, Holding, Alone
  <1>4. QED
    BY <1>2, <1>3 DEF Init, FlightInv

LEMMA UsersFinite ==
    ASSUME NEW e
    PROVE  IsFiniteSet(UsersOf(e)) /\ Cardinality(UsersOf(e)) \in Nat
  <1>1. UsersOf(e) \in SUBSET Requests
    BY DEF UsersOf
  <1>2. QED
    BY <1>1, ApiAssumption, FS_Subset, FS_CardinalityType

\* A step of r that leaves the entries alone and neither lets r in nor out.
LEMMA SameFlight ==
    ASSUME ApiTypeOK, FlightInv, NEW r \in Requests, NEW to,
           at' = [at EXCEPT ![r] = to], UNCHANGED <<flights, users, entry>>,
           \A q \in Requests : q = r \/ ask'[q] = ask[q],
           Inside(r)' <=> Inside(r), Inside(r) => Identity(r)' = Identity(r),
           to \in {"entering", "waiting", "looking", "put", "unlock", "leave"} => Keyed(r)',
           owner' \in [Requests -> Requests \cup {NoEntry}],
           \A q \in Requests : Holding(q)' => owner'[entry[q]] = q
    PROVE  FlightInv'
  <1>1. \A q \in Requests : q # r => at'[q] = at[q] /\ (Keyed(q)' <=> Keyed(q)) /\ Identity(q)' = Identity(q)
    BY DEF ApiTypeOK, Keyed, Identity
  <1>2. \A q \in Requests : Inside(q)' <=> Inside(q)
    BY <1>1 DEF Inside
  <1>3. \A e : UsersOf(e)' = UsersOf(e)
    BY <1>2 DEF UsersOf
  <1>4. \A q \in Requests : Inside(q) => Identity(q)' = Identity(q)
    BY <1>1
  <1>5. \A q \in Requests :
          at'[q] \in {"entering", "waiting", "looking", "put", "unlock", "leave"} => Keyed(q)'
    BY <1>1 DEF FlightInv, ApiTypeOK
  <1>6. QED
    BY <1>2, <1>3, <1>4, <1>5 DEF FlightInv

LEMMA EnterFlight ==
    ASSUME ApiTypeOK, FlightInv, NEW r \in Requests, Enter(r)
    PROVE  FlightInv'
  <1>0. PICK e \in Requests :
          e = IF Identity(r) \in DOMAIN flights THEN flights[Identity(r)] ELSE r
    <2> DEFINE i == Identity(r)
               d == IF i \in DOMAIN flights THEN flights[i] ELSE r
    <2>1. d \in Requests
      BY DEF FlightInv
    <2>2. QED
      BY <2>1, Zenon
  <1>1. /\ at[r] = "entering" /\ at' = [at EXCEPT ![r] = "waiting"] /\ Keyed(r)
        /\ UNCHANGED <<ask, owner>>
        /\ flights' = [i \in DOMAIN flights \cup {Identity(r)} |-> IF i = Identity(r) THEN e ELSE flights[i]]
        /\ users' = [users EXCEPT ![e] = @ + 1]
        /\ entry' = [entry EXCEPT ![r] = e]
    BY <1>0 DEF Enter, At, Go, FlightInv
  <1>2. e \in Requests /\ ~Inside(r) /\ Inside(r)'
    BY <1>1 DEF FlightInv, Inside, Alone, ApiTypeOK, Keyed
  <1>3. \A q \in Requests : q # r =>
          /\ (Inside(q)' <=> Inside(q)) /\ (Holding(q)' <=> Holding(q))
          /\ entry'[q] = entry[q] /\ at'[q] = at[q]
    BY <1>1 DEF Inside, Holding, Keyed, ApiTypeOK, FlightInv
  <1>4. \A q \in Requests : Identity(q)' = Identity(q) /\ (Keyed(q)' <=> Keyed(q))
    BY <1>1 DEF Identity, Keyed
  <1>5. ~Holding(r)' /\ entry'[r] = e
    BY <1>1, <1>2 DEF Holding, Alone, ApiTypeOK, FlightInv
  <1>6. UsersOf(e)' = UsersOf(e) \cup {r} /\ r \notin UsersOf(e)
    BY <1>2, <1>3, <1>5 DEF UsersOf
  <1>7. \A d \in Requests : d # e => UsersOf(d)' = UsersOf(d)
    BY <1>2, <1>3, <1>5 DEF UsersOf
  <1>8. Cardinality(UsersOf(e)') = Cardinality(UsersOf(e)) + 1
    BY <1>6, UsersFinite, FS_AddElement
  <1>9. \A d \in Requests : users'[d] = Cardinality(UsersOf(d)')
    BY <1>1, <1>2, <1>7, <1>8 DEF FlightInv
  <1>10. \A q \in Requests :
           Inside(q)' => /\ entry'[q] \in Requests
                         /\ Identity(q)' \in DOMAIN flights' /\ flights'[Identity(q)'] = entry'[q]
    <2>1. ASSUME NEW q \in Requests, q # r, Inside(q)
          PROVE  /\ entry'[q] \in Requests
                 /\ Identity(q) \in DOMAIN flights' /\ flights'[Identity(q)] = entry'[q]
      <3>1. Identity(q) \in DOMAIN flights /\ flights[Identity(q)] = entry[q] /\ entry[q] \in Requests
        BY <2>1 DEF FlightInv
      <3>2. QED
        BY <1>0, <1>1, <1>3, <2>1, <3>1
    <2>2. Identity(r) \in DOMAIN flights' /\ flights'[Identity(r)] = entry'[r]
      BY <1>1, <1>5
    <2>3. QED
      BY <1>2, <1>3, <1>4, <1>5, <2>1, <2>2
  <1>11. \A i \in DOMAIN flights' : flights'[i] \in Requests
    BY <1>1, <1>2 DEF FlightInv
  <1>12. users' \in [Requests -> Int] /\ entry' \in [Requests -> Requests \cup {NoEntry}]
    BY <1>1, <1>2 DEF FlightInv
  <1>13. \A q \in Requests :
           at'[q] \in {"entering", "waiting", "looking", "put", "unlock", "leave"} => Keyed(q)'
    BY <1>1, <1>3, <1>4 DEF FlightInv
  <1>14. \A q \in Requests : Holding(q)' => owner'[entry'[q]] = q
    BY <1>1, <1>3, <1>5 DEF FlightInv
  <1>15. QED
    BY <1>1, <1>4, <1>9, <1>10, <1>11, <1>12, <1>13, <1>14 DEF FlightInv

LEMMA LeaveFlight ==
    ASSUME ApiTypeOK, FlightInv, NEW r \in Requests, Leave(r)
    PROVE  FlightInv'
  <1> DEFINE e == entry[r]
  <1>1. /\ at[r] = "leave" /\ at' = [at EXCEPT ![r] = "done"] /\ Keyed(r)
        /\ UNCHANGED <<ask, owner, entry>>
        /\ users' = [users EXCEPT ![e] = @ - 1]
        /\ \/ users[e] = 1 /\ flights' = [i \in DOMAIN flights \ {Identity(r)} |-> flights[i]]
           \/ users[e] # 1 /\ flights' = flights
    BY DEF Leave, Unused, At, Go, FlightInv
  <1>2. Inside(r) /\ ~Inside(r)' /\ ~Holding(r)' /\ e \in Requests
    BY <1>1 DEF FlightInv, Inside, Holding, Alone, ApiTypeOK
  <1>3. \A q \in Requests : q # r =>
          (Inside(q)' <=> Inside(q)) /\ (Holding(q)' <=> Holding(q)) /\ at'[q] = at[q]
    BY <1>1 DEF Inside, Holding, Keyed, ApiTypeOK
  <1>4. \A q \in Requests : Identity(q)' = Identity(q) /\ (Keyed(q)' <=> Keyed(q))
    BY <1>1 DEF Identity, Keyed
  <1>5. UsersOf(e)' = UsersOf(e) \ {r} /\ r \in UsersOf(e)
    BY <1>1, <1>2, <1>3 DEF UsersOf
  <1>6. \A d \in Requests : d # e => UsersOf(d)' = UsersOf(d)
    BY <1>1, <1>2, <1>3 DEF UsersOf
  <1>7. Cardinality(UsersOf(e)') = Cardinality(UsersOf(e)) - 1
    BY <1>5, UsersFinite, FS_RemoveElement
  <1>8. \A d \in Requests : users'[d] = Cardinality(UsersOf(d)')
    BY <1>1, <1>2, <1>6, <1>7 DEF FlightInv
  \* Who is the last takes the entry away from nobody.
  <1>9. ASSUME NEW q \in Requests, q # r, Inside(q)
        PROVE  Identity(q) \in DOMAIN flights' /\ flights'[Identity(q)] = entry[q]
    <2>1. Identity(q) \in DOMAIN flights /\ flights[Identity(q)] = entry[q]
      BY <1>9 DEF FlightInv
    <2>2. CASE users[e] # 1
      BY <1>1, <2>1, <2>2
    <2>3. CASE users[e] = 1
      <3>1. SUFFICES Identity(q) # Identity(r)
        BY <1>1, <2>1, <2>3
      <3>2. SUFFICES ASSUME Identity(q) = Identity(r) PROVE FALSE
        OBVIOUS
      <3>3. entry[q] = e
        BY <1>2, <2>1, <3>2 DEF FlightInv
      <3>4. q \in UsersOf(e)'
        BY <1>3, <1>5, <1>9, <3>3 DEF UsersOf
      <3>5. Cardinality(UsersOf(e)') = 0 /\ IsFiniteSet(UsersOf(e)')
        BY <1>2, <1>5, <1>7, <2>3, UsersFinite, FS_RemoveElement DEF FlightInv
      <3>6. UsersOf(e)' = {}
        BY <3>5, FS_EmptySet
      <3>7. QED
        BY <3>4, <3>6
    <2>4. QED
      BY <2>2, <2>3
  <1>10. \A i \in DOMAIN flights' : flights'[i] \in Requests
    BY <1>1 DEF FlightInv
  <1>11. users' \in [Requests -> Int]
    BY <1>1, <1>2 DEF FlightInv
  <1>12. \A q \in Requests :
           at'[q] \in {"entering", "waiting", "looking", "put", "unlock", "leave"} => Keyed(q)'
    BY <1>1, <1>3, <1>4 DEF FlightInv, ApiTypeOK
  <1>13. \A q \in Requests : Inside(q)' => Inside(q) /\ q # r
    BY <1>2, <1>3
  <1>14. \A q \in Requests : Holding(q)' => owner'[entry'[q]] = q
    BY <1>1, <1>2, <1>3 DEF FlightInv
  <1>15. \A q \in Requests :
           Inside(q)' => /\ entry'[q] \in Requests
                         /\ Identity(q)' \in DOMAIN flights' /\ flights'[Identity(q)'] = entry'[q]
    BY <1>1, <1>4, <1>9, <1>13 DEF FlightInv
  <1>16. QED
    BY <1>1, <1>8, <1>10, <1>11, <1>12, <1>14, <1>15 DEF FlightInv

LEMMA FlightStep ==
    ASSUME ApiTypeOK, FlightInv, [Next]_vars
    PROVE  FlightInv'
  <1> USE DEF Go, At, flight, slots, registry
  <1>1. CASE UNCHANGED vars \/ Tick
    <2>1. UNCHANGED <<ask, at, flight>>
      BY <1>1 DEF vars, Tick
    <2>2. \A q \in Requests :
            /\ (Inside(q)' <=> Inside(q)) /\ (Holding(q)' <=> Holding(q))
            /\ Identity(q)' = Identity(q) /\ (Keyed(q)' <=> Keyed(q))
      BY <2>1 DEF Inside, Holding, Keyed, Identity
    <2>3. \A e : UsersOf(e)' = UsersOf(e)
      BY <2>1, <2>2 DEF UsersOf, Inside, Keyed
    <2>4. QED
      BY <2>1, <2>2, <2>3 DEF FlightInv, Inside, Holding, Keyed, Identity
  <1>2. ASSUME NEW r \in Requests, Arrive(r)
        PROVE  FlightInv'
    <2>1. PICK a \in Asks[r] : /\ at[r] = "new" /\ UNCHANGED flight
                               /\ ask' = [ask EXCEPT ![r] = a]
                               /\ at' = [at EXCEPT ![r] = IF a.key = NoKey THEN "slot" ELSE "entering"]
      BY <1>2 DEF Arrive
    <2>2. ~Inside(r) /\ ask'[r] = a /\ \A q \in Requests : q # r => ask'[q] = ask[q]
      BY <2>1 DEF Inside, Alone, ApiTypeOK
    <2>3. ~Inside(r)' /\ ~Holding(r)'
      BY <2>1, <2>2 DEF Inside, Holding, Alone, Keyed, ApiTypeOK
    <2>4. \A q \in Requests : Holding(q)' => Holding(q)
      BY <2>1, <2>2, <2>3 DEF Holding, Keyed, ApiTypeOK
    <2>5. QED
      BY <2>1, <2>2, <2>3, <2>4, SameFlight DEF FlightInv, Keyed
  <1>3. ASSUME NEW r \in Requests, Lock(r)
        PROVE  FlightInv'
    <2>1. /\ at[r] = "waiting" /\ at' = [at EXCEPT ![r] = "looking"]
          /\ owner[entry[r]] = NoEntry /\ owner' = [owner EXCEPT ![entry[r]] = r]
          /\ UNCHANGED <<ask, flights, users, entry>>
      BY <1>3 DEF Lock
    <2>2. Keyed(r) /\ Inside(r) /\ Inside(r)' /\ entry[r] \in Requests
      BY <2>1 DEF FlightInv, Inside, Keyed, Alone, ApiTypeOK
    <2>3. \A q \in Requests : Holding(q) => entry[q] # entry[r]
      BY <2>1, ApiAssumption DEF FlightInv
    <2>4. \A q \in Requests : q # r /\ Holding(q)' => Holding(q) /\ entry[q] \in Requests
      BY <2>1 DEF Holding, Keyed, ApiTypeOK, FlightInv, Inside
    <2>5. \A q \in Requests : Holding(q)' => owner'[entry[q]] = q
      BY <2>1, <2>2, <2>3, <2>4 DEF FlightInv
    <2>6. owner' \in [Requests -> Requests \cup {NoEntry}] /\ Keyed(r)' /\ Identity(r)' = Identity(r)
      BY <2>1, <2>2 DEF FlightInv, Keyed, Identity
    <2>7. QED
      BY <2>1, <2>2, <2>5, <2>6, SameFlight
  <1>4. ASSUME NEW r \in Requests, Unlock(r)
        PROVE  FlightInv'
    <2>1. /\ at[r] = "unlock" /\ at' = [at EXCEPT ![r] = "leave"]
          /\ owner' = [owner EXCEPT ![entry[r]] = NoEntry]
          /\ UNCHANGED <<ask, flights, users, entry>>
      BY <1>4 DEF Unlock
    <2>2. Keyed(r) /\ Inside(r) /\ Inside(r)' /\ Holding(r) /\ entry[r] \in Requests
      BY <2>1 DEF FlightInv, Inside, Holding, Keyed, Alone, ApiTypeOK
    <2>3. \A q \in Requests : Holding(q)' => q # r /\ Holding(q) /\ entry[q] \in Requests
      BY <2>1 DEF Holding, Keyed, Alone, ApiTypeOK, FlightInv, Inside
    <2>4. \A q \in Requests : Holding(q)' => owner'[entry[q]] = q
      BY <2>1, <2>2, <2>3 DEF FlightInv
    <2>5. owner' \in [Requests -> Requests \cup {NoEntry}] /\ Keyed(r)' /\ Identity(r)' = Identity(r)
      BY <2>1, <2>2 DEF FlightInv, Keyed, Identity
    <2>6. QED
      BY <2>1, <2>2, <2>4, <2>5, SameFlight
  \* The steps with the lock, and all those of a request without a key.
  <1>5. ASSUME NEW r \in Requests, NEW to, at[r] \in Alone \ {"unlock"},
               at' = [at EXCEPT ![r] = to], UNCHANGED <<ask, flight>>,
               to \in Alone \/ (to = "done" /\ ~Keyed(r)),
               to \in {"looking", "put", "unlock"} => Keyed(r)
        PROVE  FlightInv'
    <2>1. \A q \in Requests : Identity(q)' = Identity(q) /\ (Keyed(q)' <=> Keyed(q))
      BY <1>5 DEF Identity, Keyed
    <2>2. \A q \in Requests : (Inside(q)' <=> Inside(q)) /\ (Holding(q)' <=> Holding(q))
      BY <1>5, <2>1 DEF Inside, Holding, Alone, ApiTypeOK
    <2>3. to \in {"entering", "waiting", "looking", "put", "unlock", "leave"} => Keyed(r)'
      BY <1>5, <2>1 DEF Alone
    <2>4. \A q \in Requests : Holding(q)' => owner'[entry[q]] = q
      BY <1>5, <2>2 DEF FlightInv
    <2>5. owner' \in [Requests -> Requests \cup {NoEntry}]
      BY <1>5 DEF FlightInv
    <2>6. QED
      BY <1>5, <2>1, <2>2, <2>3, <2>4, <2>5, SameFlight
  <1>6. ASSUME NEW r \in Requests, Look(r) \/ Put(r)
        PROVE  FlightInv'
    <2>1. PICK to \in {"slot", "unlock"} : at' = [at EXCEPT ![r] = to]
      BY <1>6 DEF Look, Put
    <2>2. at[r] \in {"looking", "put"} /\ Keyed(r) /\ UNCHANGED <<ask, flight>>
      BY <1>6 DEF Look, Put, FlightInv
    <2>3. QED
      BY <1>5, <2>1, <2>2 DEF Alone
  <1>7. ASSUME NEW r \in Requests, TakeSlot(r) \/ TakeKeySlot(r) \/ FreeKeySlot(r) \/ FreeSlot(r)
        PROVE  FlightInv'
    <2>1. PICK to \in {"keySlot", "begin", "freeSlot", "put", "unlock", "done"} :
            /\ at' = [at EXCEPT ![r] = to]
            /\ to \in {"put", "unlock"} => Keyed(r)
            /\ to = "done" => ~Keyed(r)
      BY <1>7 DEF TakeSlot, TakeKeySlot, FreeKeySlot, FreeSlot, Unwind
    <2>2. at[r] \in {"slot", "keySlot", "freeKey", "freeSlot"} /\ UNCHANGED <<ask, flight>>
      BY <1>7 DEF TakeSlot, TakeKeySlot, FreeKeySlot, FreeSlot
    <2>3. QED
      BY <1>5, <2>1, <2>2 DEF Alone
  <1>8. ASSUME NEW r \in Requests, Fail(r) \/ Begin(r) \/ Commit(r)
        PROVE  FlightInv'
    <2>1. PICK to \in {"commit", "freeKey"} : at' = [at EXCEPT ![r] = to]
      BY <1>8 DEF Fail, Begin, Commit
    <2>2. at[r] \in {"begin", "commit"} /\ UNCHANGED <<ask, flight>>
      BY <1>8 DEF Fail, Begin, Commit
    <2>3. QED
      BY <1>5, <2>1, <2>2 DEF Alone
  <1>9. QED
    BY <1>1, <1>2, <1>3, <1>4, <1>6, <1>7, <1>8, EnterFlight, LeaveFlight DEF Next, Serve

-----------------------------------------------------------------------------
(* A remembered answer is not looked past *)

OnePerId(s) == \A m, n \in DOMAIN s : s[m].id = s[n].id => m = n

\* Whoever is past the look and has not put its answer knows that none is kept.
RecordInv ==
    /\ records \in Seq(Records) /\ OnePerId(records)
    /\ \A r \in Requests :
         Keyed(r) /\ at[r] \in {"slot", "keySlot", "begin", "commit"} => RecordsOf(Identity(r)) = {}

\* A sequence without its element k.
LEMMA CutOut ==
    ASSUME NEW S, NEW s \in Seq(S), NEW k \in 1..Len(s)
    PROVE  /\ RemoveAt(s, k) \in Seq(S) /\ Len(RemoveAt(s, k)) = Len(s) - 1
           /\ \A n \in 1..Len(RemoveAt(s, k)) :
                RemoveAt(s, k)[n] = IF n < k THEN s[n] ELSE s[n + 1]
  <1> DEFINE a == SubSeq(s, 1, k - 1)
             b == SubSeq(s, k + 1, Len(s))
  <1>1. a \in Seq(S) /\ Len(a) = k - 1 /\ \A n \in 1..(k - 1) : a[n] = s[n]
    BY SubSeqProperties
  <1>2. b \in Seq(S) /\ Len(b) = Len(s) - k /\ \A n \in 1..(Len(s) - k) : b[n] = s[n + k]
    <2>1. /\ b \in Seq(S) /\ Len(b) = IF k + 1 <= Len(s) THEN Len(s) - (k + 1) + 1 ELSE 0
          /\ \A n \in 1..(Len(s) - (k + 1) + 1) : b[n] = s[k + 1 + n - 1]
      BY SubSeqProperties
    <2>2. QED
      BY <2>1
  <1>3. RemoveAt(s, k) = a \o b
    BY DEF RemoveAt
  <1> HIDE DEF a, b
  <1>4. /\ a \o b \in Seq(S) /\ Len(a \o b) = Len(a) + Len(b)
        /\ \A n \in 1..(Len(a) + Len(b)) : (a \o b)[n] = IF n <= Len(a) THEN a[n] ELSE b[n - Len(a)]
    BY <1>1, <1>2, ConcatProperties
  <1>5. \A n \in 1..(Len(s) - 1) : (a \o b)[n] = IF n < k THEN s[n] ELSE s[n + 1]
    <2>1. ASSUME NEW n \in 1..(Len(s) - 1), n < k
          PROVE  (a \o b)[n] = s[n]
      BY <1>1, <1>2, <1>4, <2>1
    <2>2. ASSUME NEW n \in 1..(Len(s) - 1), ~(n < k)
          PROVE  (a \o b)[n] = s[n + 1]
      <3>1. PICK i \in 1..(Len(s) - k) : i = n - (k - 1) /\ i + k = n + 1 /\ (a \o b)[n] = b[i]
        BY <1>1, <1>2, <1>4, <2>2
      <3>2. b[i] = s[i + k]
        BY <1>2
      <3>3. QED
        BY <3>1, <3>2
    <2>3. QED
      BY <2>1, <2>2
  <1>6. Len(a \o b) = Len(s) - 1
    BY <1>1, <1>2, <1>4
  <1>7. QED
    BY <1>3, <1>4, <1>5, <1>6

LEMMA WithoutOne ==
    ASSUME records \in Seq(Records), OnePerId(records), NEW id
    PROVE  /\ Without(id) \in Seq(Records) /\ OnePerId(Without(id))
           /\ \A n \in DOMAIN Without(id) :
                /\ Without(id)[n].id # id
                /\ \E m \in DOMAIN records : Without(id)[n] = records[m]
  <1>1. CASE RecordsOf(id) = {}
    BY <1>1 DEF Without, RecordsOf
  <1>2. CASE RecordsOf(id) # {}
    <2>1. PICK k \in RecordsOf(id) : Without(id) = RemoveAt(records, k)
      BY <1>2 DEF Without
    <2>2. k \in 1..Len(records) /\ records[k].id = id
      BY <2>1 DEF RecordsOf
    <2> DEFINE w == RemoveAt(records, k)
    <2>3. /\ w \in Seq(Records) /\ Len(w) = Len(records) - 1
          /\ \A n \in 1..Len(w) : w[n] = IF n < k THEN records[n] ELSE records[n + 1]
      BY <2>2, CutOut
    <2> HIDE DEF w
    <2>4. \A n \in DOMAIN w : \E m \in DOMAIN records : m # k /\ w[n] = records[m]
      BY <2>2, <2>3
    <2>5. \A m, n \in DOMAIN w : w[m].id = w[n].id => m = n
      <3> DEFINE old(n) == IF n < k THEN n ELSE n + 1
      <3>1. \A n \in DOMAIN w : n \in 1..Len(w) /\ old(n) \in DOMAIN records /\ w[n] = records[old(n)]
        BY <2>2, <2>3
      <3>2. \A m, n \in 1..Len(w) : old(m) = old(n) => m = n
        BY <2>2
      <3> HIDE DEF old
      <3>3. QED
        BY <3>1, <3>2 DEF OnePerId
    <2>6. \A n \in DOMAIN w : w[n].id # id
      BY <2>2, <2>4 DEF OnePerId
    <2>7. Without(id) = w
      BY <2>1 DEF w
    <2>8. QED
      BY <2>3, <2>4, <2>5, <2>6, <2>7 DEF OnePerId
  <1>3. QED
    BY <1>1, <1>2

\* put keeps some of the others and perhaps the new one.
LEMMA PutOne ==
    ASSUME NEW s \in Seq(Records), OnePerId(s), NEW x \in Records,
           \A n \in DOMAIN s : s[n].id # x.id
    PROVE  LET t == Newest(Append(s, x), MaxRecords)
           IN  /\ t \in Seq(Records) /\ OnePerId(t)
               /\ \A n \in DOMAIN t : t[n] = x \/ \E m \in DOMAIN s : t[n] = s[m]
  <1> DEFINE u == Append(s, x)
             t == Newest(u, MaxRecords)
  <1>1. /\ u \in Seq(Records) /\ Len(u) = Len(s) + 1
        /\ \A n \in 1..Len(u) : u[n] = IF n = Len(s) + 1 THEN x ELSE s[n]
    OBVIOUS
  <1> HIDE DEF u
  <1>2. \A m, n \in 1..Len(u) : u[m].id = u[n].id => m = n
    BY <1>1 DEF OnePerId
  <1>3. PICK d \in Nat : /\ t \in Seq(Records) /\ Len(t) = Len(u) - d
                         /\ \A n \in 1..Len(t) : t[n] = u[n + d]
    <2>1. CASE Len(u) <= MaxRecords
      <3>1. t = u
        BY <2>1 DEF Newest
      <3>2. 0 \in Nat /\ Len(t) = Len(u) - 0 /\ \A n \in 1..Len(t) : t[n] = u[n + 0]
        BY <1>1, <3>1
      <3>3. QED
        BY <1>1, <3>1, <3>2
    <2>2. CASE ~(Len(u) <= MaxRecords)
      <3> DEFINE d == Len(u) - MaxRecords
      <3>0. Len(u) \in Nat /\ MaxRecords \in Nat
        BY <1>1, ApiAssumption
      <3>7. d \in Nat
        BY <2>2, <3>0
      <3>8. t = SubSeq(u, d + 1, Len(u))
        BY <2>2 DEF Newest
      <3>1. t = SubSeq(u, d + 1, Len(u)) /\ d \in Nat /\ Len(u) \in Nat /\ MaxRecords \in Nat
        BY <3>0, <3>7, <3>8
      <3>2. /\ t \in Seq(Records) /\ Len(t) = IF d + 1 <= Len(u) THEN Len(u) - (d + 1) + 1 ELSE 0
            /\ \A n \in 1..(Len(u) - (d + 1) + 1) : t[n] = u[d + 1 + n - 1]
        BY <1>1, <3>1, SubSeqProperties
      <3>3. Len(t) = Len(u) - d
        BY <3>1, <3>2
      <3> HIDE DEF t
      <3> HIDE DEF d
      <3>5. \A n \in 1..Len(t) : n \in 1..(Len(u) - (d + 1) + 1) /\ d + 1 + n - 1 = n + d
        BY <3>1, <3>3
      <3>6. \A n \in 1..Len(t) : t[n] = u[n + d]
        BY <3>2, <3>5
      <3>4. QED
        BY <3>1, <3>2, <3>3, <3>6
    <2>3. QED
      BY <2>1, <2>2
  <1> HIDE DEF t
  <1>4. \A n \in DOMAIN t : n \in Nat /\ n + d \in 1..Len(u) /\ t[n] = u[n + d]
    BY <1>1, <1>3
  <1>5. ASSUME NEW m \in DOMAIN t, NEW n \in DOMAIN t, t[m].id = t[n].id
        PROVE  m = n
    <2>1. u[m + d].id = u[n + d].id
      BY <1>4, <1>5
    <2>2. m + d = n + d
      BY <1>2, <1>4, <2>1
    <2>3. QED
      BY <1>4, <2>2
  <1>6. ASSUME NEW n \in DOMAIN t
        PROVE  t[n] = x \/ \E m \in DOMAIN s : t[n] = s[m]
    <2>1. n + d \in 1..Len(u) /\ t[n] = u[n + d]
      BY <1>4
    <2>2. n + d = Len(s) + 1 \/ n + d \in DOMAIN s
      BY <1>1, <2>1
    <2>3. QED
      BY <1>1, <2>1, <2>2
  <1>7. QED
    BY <1>3, <1>5, <1>6 DEF t, u, OnePerId

LEMMA RecordInit == Init => RecordInv
  BY DEF Init, RecordInv, OnePerId

LEMMA RecordStep ==
    ASSUME ApiTypeOK, FlightInv, RecordInv, [Next]_vars
    PROVE  RecordInv'
  <1> USE DEF Go, At, flight, slots, registry
  <1> DEFINE Past == {"slot", "keySlot", "begin", "commit"}
  \* Nobody is let past the look, and no record is added.
  <1>1. ASSUME UNCHANGED records,
               \A r \in Requests : Keyed(r)' /\ at'[r] \in Past =>
                  Keyed(r) /\ at[r] \in Past /\ Identity(r)' = Identity(r)
        PROVE  RecordInv'
    BY <1>1 DEF RecordInv, RecordsOf
  <1>2. ASSUME UNCHANGED <<ask, records>>, \A r \in Requests : at'[r] \in Past => at[r] \in Past
        PROVE  RecordInv'
    BY <1>1, <1>2 DEF Keyed, Identity
  <1>3. CASE UNCHANGED vars \/ Tick
    BY <1>2, <1>3 DEF vars, Tick
  <1>4. ASSUME NEW r \in Requests, Arrive(r)
        PROVE  RecordInv'
    <2>1. PICK a \in Asks[r] : /\ ask' = [ask EXCEPT ![r] = a]
                               /\ at' = [at EXCEPT ![r] = IF a.key = NoKey THEN "slot" ELSE "entering"]
      BY <1>4 DEF Arrive
    <2>2. \A q \in Requests : Keyed(q)' /\ at'[q] \in Past => q # r
      BY <2>1 DEF ApiTypeOK, Keyed
    <2>3. \A q \in Requests : q # r => ask'[q] = ask[q] /\ at'[q] = at[q]
      BY <2>1 DEF ApiTypeOK
    <2>4. QED
      BY <1>1, <1>4, <2>2, <2>3 DEF Arrive, Keyed, Identity
  <1>5. ASSUME NEW r \in Requests, Enter(r) \/ Lock(r) \/ Unlock(r) \/ Leave(r)
        PROVE  RecordInv'
    <2>1. \A q \in Requests : at'[q] \in Past => at[q] \in Past
      BY <1>5 DEF Enter, Lock, Unlock, Leave, ApiTypeOK
    <2>2. QED
      BY <1>2, <1>5, <2>1 DEF Enter, Lock, Unlock, Leave
  <1>6. ASSUME NEW r \in Requests, TakeSlot(r) \/ TakeKeySlot(r) \/ FreeKeySlot(r) \/ FreeSlot(r)
        PROVE  RecordInv'
    <2>1. \A q \in Requests : at'[q] \in Past => at[q] \in Past
      BY <1>6 DEF TakeSlot, TakeKeySlot, FreeKeySlot, FreeSlot, Unwind, ApiTypeOK
    <2>2. QED
      BY <1>2, <1>6, <2>1 DEF TakeSlot, TakeKeySlot, FreeKeySlot, FreeSlot
  <1>7. ASSUME NEW r \in Requests, Fail(r) \/ Begin(r) \/ Commit(r)
        PROVE  RecordInv'
    <2>1. \A q \in Requests : at'[q] \in Past => at[q] \in Past
      BY <1>7 DEF Fail, Begin, Commit, ApiTypeOK
    <2>2. QED
      BY <1>2, <1>7, <2>1 DEF Fail, Begin, Commit
  <1>8. ASSUME NEW r \in Requests, Look(r)
        PROVE  RecordInv'
    <2> DEFINE id == Identity(r)
    <2>1. \A q \in Requests : /\ Identity(q)' = Identity(q) /\ (Keyed(q)' <=> Keyed(q))
                              /\ q # r /\ at'[q] \in Past => at[q] \in Past
      BY <1>8 DEF Look, Identity, Keyed, ApiTypeOK
    <2>2. CASE UNCHANGED records
      <3>1. at'[r] \in Past => RecordsOf(id) = {}
        BY <1>8, <2>2, WithoutOne DEF Look, RecordInv, ApiTypeOK, RecordsOf
      <3>2. QED
        BY <2>1, <2>2, <3>1 DEF RecordInv, RecordsOf
    <2>3. CASE records' = Without(id)
      <3>1. records' \in Seq(Records) /\ OnePerId(records')
        BY <2>3, WithoutOne DEF RecordInv
      <3>2. \A n \in DOMAIN records' :
              records'[n].id # id /\ \E m \in DOMAIN records : records'[n] = records[m]
        BY <2>3, WithoutOne DEF RecordInv
      <3>3. \A q \in Requests : RecordsOf(Identity(q)) = {} => RecordsOf(Identity(q))' = {}
        BY <2>1, <3>2 DEF RecordsOf
      <3>4. RecordsOf(id)' = {}
        BY <2>1, <3>2 DEF RecordsOf
      <3>5. QED
        BY <2>1, <3>1, <3>3, <3>4 DEF RecordInv
    <2>4. QED
      BY <1>8, <2>2, <2>3 DEF Look
  <1>9. ASSUME NEW r \in Requests, Put(r)
        PROVE  RecordInv'
    <2> DEFINE id == Identity(r)
               x == [id |-> id, digest |-> Digest(r), at |-> clock]
    <2>1. /\ at[r] = "put" /\ at' = [at EXCEPT ![r] = "unlock"] /\ UNCHANGED ask
          /\ records' = Newest(Append(Without(id), x), MaxRecords)
      BY <1>9 DEF Put
    <2>2. ask[r] \in Asked
      BY DEF ApiTypeOK, Asked
    <2>3. x \in Records
      BY <2>2 DEF Records, Ids, Digests, Identity, Digest, ApiTypeOK
    <2>4. /\ Without(id) \in Seq(Records) /\ OnePerId(Without(id))
          /\ \A n \in DOMAIN Without(id) :
                Without(id)[n].id # x.id /\ \E m \in DOMAIN records : Without(id)[n] = records[m]
      BY WithoutOne DEF RecordInv
    <2>5. /\ records' \in Seq(Records) /\ OnePerId(records')
          /\ \A n \in DOMAIN records' : records'[n] = x \/ \E m \in DOMAIN Without(id) : records'[n] = Without(id)[m]
      BY <2>1, <2>3, <2>4, PutOne
    <2>6. \A n \in DOMAIN records' : records'[n].id = id \/ \E m \in DOMAIN records : records'[n] = records[m]
      BY <2>4, <2>5
    <2>7. Holding(r)
      BY <2>1 DEF FlightInv, Holding, Alone
    <2>8. \A q \in Requests : Keyed(q) /\ at'[q] \in Past => at[q] \in Past /\ Identity(q) # id
      <3>1. \A q \in Requests : Keyed(q) /\ at'[q] \in Past => at[q] \in Past /\ Holding(q) /\ q # r
        BY <2>1 DEF Holding, Alone, ApiTypeOK
      <3>2. QED
        BY <2>7, <3>1, HoldingAlone
    <2>9. \A q \in Requests : /\ Identity(q)' = Identity(q) /\ (Keyed(q)' <=> Keyed(q))
      BY <2>1 DEF Identity, Keyed
    <2>10. \A q \in Requests :
             RecordsOf(Identity(q)) = {} /\ Identity(q) # id => RecordsOf(Identity(q))' = {}
      BY <2>6, <2>9 DEF RecordsOf
    <2>11. QED
      BY <2>5, <2>8, <2>9, <2>10 DEF RecordInv
  <1>10. QED
    BY <1>3, <1>4, <1>5, <1>6, <1>7, <1>8, <1>9 DEF Next, Serve

\* The step of AppliedOnce.
Once ==
    \A r, q \in Requests :
      /\ q # r /\ Keyed(r) /\ Identity(q) = Identity(r)
      /\ Applied(q) /\ (at[q] \in {"freeKey", "freeSlot", "put"} \/ Remembered(r))
      => ~(Applied(r)' /\ ~Applied(r))

LEMMA OnlyCommitApplies ==
    ASSUME ApiTypeOK, [Next]_vars, NEW r \in Requests, Applied(r)', ~Applied(r)
    PROVE  at[r] = "commit"
  <1> USE DEF Go, Say, At, Applied, ApiTypeOK
  <1>1. CASE UNCHANGED vars \/ Tick
    BY <1>1 DEF vars, Tick
  <1>2. ASSUME NEW q \in Requests, Arrive(q) \/ Enter(q) \/ Lock(q) \/ Put(q) \/ Unlock(q) \/ Leave(q)
        PROVE  FALSE
    BY <1>2 DEF Arrive, Enter, Lock, Put, Unlock, Leave
  <1>3. ASSUME NEW q \in Requests, Look(q) \/ Fail(q) \/ Begin(q)
        PROVE  FALSE
    BY <1>3 DEF Look, Fail, Begin
  <1>4. ASSUME NEW q \in Requests, TakeSlot(q) \/ TakeKeySlot(q) \/ FreeKeySlot(q) \/ FreeSlot(q)
        PROVE  FALSE
    BY <1>4 DEF TakeSlot, TakeKeySlot, FreeKeySlot, FreeSlot
  <1>5. ASSUME NEW q \in Requests, Commit(q)
        PROVE  q = r
    <2>1. \E what : answer' = [answer EXCEPT ![q] = what]
      BY <1>5, AcquireShape DEF Commit, CommitRenew, CommitRelease
    <2>2. QED
      BY <2>1
  <1>6. QED
    BY <1>1, <1>2, <1>3, <1>4, <1>5 DEF Next, Serve, Commit

LEMMA OnceStep ==
    ASSUME ApiTypeOK, FlightInv, RecordInv, [Next]_vars
    PROVE  Once
  <1> SUFFICES ASSUME NEW r \in Requests, NEW q \in Requests,
                      q # r, Keyed(r), Identity(q) = Identity(r),
                      at[q] \in {"freeKey", "freeSlot", "put"} \/ Remembered(r),
                      Applied(r)', ~Applied(r)
               PROVE  FALSE
    BY DEF Once
  <1>1. at[r] = "commit"
    BY OnlyCommitApplies
  <1>2. Holding(r) /\ RecordsOf(Identity(r)) = {}
    BY <1>1 DEF Holding, Alone, RecordInv
  <1>3. Keyed(q)
    BY DEF Keyed, Identity
  <1>4. at[q] \notin {"freeKey", "freeSlot", "put"}
    BY <1>2, <1>3, HoldingAlone DEF Holding, Alone
  <1>5. ~Remembered(r)
    BY <1>2 DEF Remembered
  <1>6. QED
    BY <1>4, <1>5

ApiInv == ApiTypeOK /\ FlightInv /\ RecordInv

LEMMA ApiInvHolds == Spec => []ApiInv
  <1>1. Init => ApiInv
    BY TypeInit, FlightInit, RecordInit DEF ApiInv
  <1>2. ApiInv /\ [Next]_vars => ApiInv'
    BY TypeStep, FlightStep, RecordStep DEF ApiInv
  <1>3. QED
    BY <1>1, <1>2, PTL DEF Spec

\* A request that is sent again with its idempotency key is not applied again
\* while the first is on its way or its answer is remembered, for any number of
\* requests, keys, places for answers and failures.
THEOREM KeyedRequestsApplyOnce == Spec => AppliedOnce
  <1>1. ApiInv /\ [Next]_vars => [Once]_vars
    BY OnceStep DEF ApiInv
  <1>2. Spec => [][Once]_vars
    BY <1>1, ApiInvHolds, PTL DEF Spec
  <1>3. QED
    BY <1>2 DEF AppliedOnce, Once

=============================================================================
