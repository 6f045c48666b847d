-------------------------- MODULE Pipeline_proofs --------------------------
(***************************************************************************)
(* Theorems about Pipeline, for every set of items, hosts and workers.     *)
(* The slots of a host are counted by its holders (Slots), so a host with  *)
(* slots in use has a holder, and an item that is parked behind it has a   *)
(* worker that comes back (Comers).  Every item that is admitted and not   *)
(* decided is counted once over the queue, the parked items and the hands  *)
(* of the workers (Ledger), so no item is lost and none has two results.   *)
(***************************************************************************)
EXTENDS Pipeline, FiniteSetTheorems, TLAPS

Tasks == [at : WorkerSteps, item : SUBSET Items]

ParkedOK(p) == p \in [Hosts -> Seq(Items)] /\ ParkedCount(p) <= MaxQueue

-----------------------------------------------------------------------------
(* Lemmas about what is parked *)

ParkedPlaces(p) == {x \in Hosts \X (1..MaxQueue + 1) : x[2] <= Len(p[x[1]])}

LEMMA PlacesFinite ==
    ASSUME NEW p
    PROVE  IsFiniteSet(ParkedPlaces(p)) /\ Cardinality(ParkedPlaces(p)) \in Nat
  <1>1. MaxQueue + 1 \in Int /\ 1 \in Int
    BY SizesAssumption
  <1>2. IsFiniteSet(1..MaxQueue + 1)
    BY <1>1, FS_Interval
  <1>3. IsFiniteSet(Hosts \X (1..MaxQueue + 1))
    BY <1>2, SizesAssumption, FS_Product
  <1>4. ParkedPlaces(p) \in SUBSET (Hosts \X (1..MaxQueue + 1))
    BY DEF ParkedPlaces
  <1>5. IsFiniteSet(ParkedPlaces(p))
    BY <1>3, <1>4, FS_Subset
  <1>6. QED
    BY <1>5, FS_CardinalityType

\* Fewer items on every host are fewer parked items.
LEMMA FewerParked ==
    ASSUME NEW p \in [Hosts -> Seq(Items)], NEW q \in [Hosts -> Seq(Items)],
           \A h \in Hosts : Len(q[h]) <= Len(p[h])
    PROVE  ParkedCount(q) <= ParkedCount(p)
  <1>1. ParkedPlaces(q) \in SUBSET ParkedPlaces(p)
    BY SizesAssumption DEF ParkedPlaces
  <1>2. Cardinality(ParkedPlaces(q)) <= Cardinality(ParkedPlaces(p))
    BY <1>1, PlacesFinite, FS_Subset
  <1>3. QED
    BY <1>2 DEF ParkedCount, ParkedPlaces

\* One more item parked is at most one more parked item.
LEMMA OneMoreParked ==
    ASSUME NEW p \in [Hosts -> Seq(Items)], NEW h \in Hosts, NEW i \in Items,
           ParkedCount(p) < MaxQueue
    PROVE  ParkedOK([p EXCEPT ![h] = Append(@, i)])
  <1> DEFINE q == [p EXCEPT ![h] = Append(@, i)]
             y == <<h, Len(p[h]) + 1>>
             P == ParkedPlaces(p)
             Q == ParkedPlaces(q)
  <1>1. q \in [Hosts -> Seq(Items)]
    OBVIOUS
  <1>2. \A g \in Hosts : Len(q[g]) = IF g = h THEN Len(p[h]) + 1 ELSE Len(p[g])
    OBVIOUS
  <1>3. Q \in SUBSET (P \cup {y})
    <2> SUFFICES ASSUME NEW x \in Hosts \X (1..MaxQueue + 1), x[2] <= Len(q[x[1]]), x # y
                 PROVE  x[2] <= Len(p[x[1]])
      BY DEF ParkedPlaces
    <2>1. x[1] \in Hosts /\ x[2] \in Nat /\ x = <<x[1], x[2]>> /\ Len(p[x[1]]) \in Nat
      BY SizesAssumption
    <2>2. QED
      BY <1>2, <2>1
  <1>4. /\ IsFiniteSet(P) /\ Cardinality(P) \in Nat /\ Cardinality(Q) \in Nat
        /\ P = {x \in Hosts \X (1..MaxQueue + 1) : x[2] <= Len(p[x[1]])}
        /\ Q = {x \in Hosts \X (1..MaxQueue + 1) : x[2] <= Len(q[x[1]])}
    BY PlacesFinite DEF ParkedPlaces
  <1>5. ParkedCount(p) = Cardinality(P) /\ ParkedCount(q) = Cardinality(Q)
    BY DEF ParkedCount, ParkedPlaces
  <1> HIDE DEF P, Q, q, y
  <1>6. /\ IsFiniteSet(P \cup {y})
        /\ Cardinality(P \cup {y}) \in {Cardinality(P), Cardinality(P) + 1}
    BY <1>4, FS_AddElement
  <1>7. Cardinality(Q) <= Cardinality(P \cup {y})
    BY <1>3, <1>6, FS_Subset
  <1>8. ParkedCount(q) <= MaxQueue
    BY <1>4, <1>5, <1>6, <1>7, SizesAssumption
  <1>9. QED
    BY <1>1, <1>8 DEF ParkedOK, q

LEMMA NothingParked ==
    ParkedOK([h \in Hosts |-> <<>>])
  <1> DEFINE p == [h \in Hosts |-> <<>>]
  <1>1. ParkedPlaces(p) = {}
    BY DEF ParkedPlaces
  <1>2. ParkedCount(p) = 0
    BY <1>1, FS_EmptySet DEF ParkedCount, ParkedPlaces
  <1>3. p \in [Hosts -> Seq(Items)]
    OBVIOUS
  <1>4. QED
    BY <1>2, <1>3, SizesAssumption DEF ParkedOK

\* What takes items away from one host keeps the parked items in bounds.
LEMMA LessParked ==
    ASSUME NEW p, ParkedOK(p), NEW h \in Hosts, NEW s \in Seq(Items), Len(s) <= Len(p[h])
    PROVE  ParkedOK([p EXCEPT ![h] = s])
  <1> DEFINE q == [p EXCEPT ![h] = s]
  <1>1. q \in [Hosts -> Seq(Items)] /\ p \in [Hosts -> Seq(Items)]
    BY DEF ParkedOK
  <1>2. \A g \in Hosts : Len(q[g]) <= Len(p[g])
    BY <1>1
  <1>3. ParkedCount(q) <= ParkedCount(p)
    BY <1>1, <1>2, FewerParked
  <1>4. ParkedCount(p) \in Nat /\ ParkedCount(q) \in Nat
    BY PlacesFinite DEF ParkedCount, ParkedPlaces
  <1>5. QED
    BY <1>1, <1>3, <1>4, SizesAssumption DEF ParkedOK

-----------------------------------------------------------------------------
(* Type correctness *)

LEMMA RankReasons ==
    DOMAIN Rank = {"none", "items_exhausted", "stopped", "deadline_exceeded",
                   "budget_exhausted", "paused", "want_reached", "cancelled"}
  BY DEF Rank

LEMMA StopTypes ==
    ASSUME reason \in DOMAIN Rank, NEW r \in DOMAIN Rank, Stop(r)
    PROVE  reason' \in DOMAIN Rank
  BY DEF Stop, Higher

LEMMA NotifiedTypes ==
    ASSUME task \in [Workers -> Tasks]
    PROVE  [v \in Workers |-> Notified(v)] \in [Workers -> Tasks]
  <1>1. \A v \in Workers : Notified(v) \in Tasks
    BY DEF Notified, At, Tasks, WorkerSteps
  <1>2. QED
    BY <1>1

LifeOK ==
    spaced \in BOOLEAN /\ run \in 0..Rounds /\ phase \in {"ready", "running", "ended", "torn"}
FeedOK ==
    /\ feeder \in {"reading", "offering", "done"}
    /\ offer \in SUBSET Items /\ unread \in SUBSET Items /\ feedComplete \in BOOLEAN
QueueOK == queue \in Seq(Items) /\ Len(queue) <= MaxQueue
TaskOK == task \in [Workers -> Tasks]
HostsOK == busy \in [Hosts -> Nat] /\ cooling \in [Hosts -> BOOLEAN]
OutcomeOK == recorded \in [Items -> Nat] /\ enough \in BOOLEAN /\ reason \in DOMAIN Rank
LedgerOK ==
    /\ admitted \in SUBSET Items /\ finished \in SUBSET Items /\ released \in SUBSET Items
    /\ adrift \in SUBSET Items

LEMMA EnterTypes ==
    ASSUME NEW w \in Workers, NEW i \in Items, NEW b \in [Hosts -> Nat], NEW c,
           NEW p, ParkedOK(p), NEW t \in [Workers -> Tasks], LedgerOK,
           Enter(w, i, b, c, p, t)
    PROVE  /\ LedgerOK' /\ busy' \in [Hosts -> Nat]
           /\ ParkedOK(parked') /\ task' \in [Workers -> Tasks]
  <1> DEFINE h == HostOf[i]
  <1>0. h \in Hosts /\ p \in [Hosts -> Seq(Items)] /\ p[h] \in Seq(Items)
    BY ItemsAssumption DEF ParkedOK
  <1>1. /\ Idle \in Tasks
        /\ \A s \in WorkerSteps : [at |-> s, item |-> {i}] \in Tasks
        /\ {"measuring", "asleep"} \subseteq WorkerSteps
    BY DEF Idle, Tasks, WorkerSteps, Holding
  <1>2. CASE Stopped
    <2>1. GiveBack({i} \cup Elements(p[h])) /\ busy' = b
          /\ parked' = [p EXCEPT ![h] = <<>>] /\ task' = [t EXCEPT ![w] = Idle]
      BY <1>2 DEF Enter
    <2>2. LedgerOK'
      BY <2>1 DEF GiveBack, LedgerOK
    <2>3. <<>> \in Seq(Items) /\ Len(<<>>) <= Len(p[h])
      BY <1>0
    <2>4. ParkedOK(parked')
      BY <1>0, <2>1, <2>3, LessParked
    <2>5. QED
      BY <1>1, <2>1, <2>2, <2>4
  <1>3. CASE ~Stopped
    <2>1. UNCHANGED ledger
      BY <1>3 DEF Enter
    <2>2. LedgerOK'
      BY <2>1 DEF ledger, LedgerOK
    <2>3. CASE /\ busy' = [b EXCEPT ![h] = @ + 1] /\ parked' = p
               /\ task' = [t EXCEPT ![w] = [at |-> "measuring", item |-> {i}]]
      <3>1. ParkedOK(parked')
        BY <2>3
      <3>2. b[h] + 1 \in Nat /\ busy' \in [Hosts -> Nat]
        BY <1>0, <2>3
      <3>3. task' \in [Workers -> Tasks]
        BY <1>1, <2>3
      <3>4. QED
        BY <2>2, <3>1, <3>2, <3>3
    <2>4. CASE /\ Parkable(h, b, p)
               /\ parked' = [p EXCEPT ![h] = Append(@, i)] /\ busy' = b
               /\ task' = [t EXCEPT ![w] = Idle]
      <3>1. ParkedCount(p) < MaxQueue
        BY <2>4 DEF Parkable
      <3>2. ParkedOK(parked')
        BY <1>0, <2>4, <3>1, OneMoreParked
      <3>3. QED
        BY <1>1, <2>2, <2>4, <3>2
    <2>5. CASE /\ parked' = p /\ busy' = b
               /\ task' = [t EXCEPT ![w] = [at |-> "asleep", item |-> {i}]]
      <3>1. ParkedOK(parked')
        BY <2>5
      <3>2. QED
        BY <1>1, <2>2, <2>5, <3>1
    <2>6. QED
      BY <1>3, <2>3, <2>4, <2>5 DEF Enter
  <1>4. QED
    BY <1>2, <1>3


LEMMA TypeParts ==
    PTypeOK <=> /\ LifeOK /\ FeedOK /\ QueueOK /\ ParkedOK(parked) /\ TaskOK
                /\ HostsOK /\ LedgerOK /\ OutcomeOK
  BY DEF PTypeOK, LifeOK, FeedOK, QueueOK, ParkedOK, TaskOK, Tasks, HostsOK, LedgerOK, OutcomeOK

LEMMA TypesAfter ==
    ASSUME LifeOK', FeedOK', QueueOK', ParkedOK(parked'), TaskOK', HostsOK', LedgerOK', OutcomeOK'
    PROVE  PTypeOK'
  BY DEF PTypeOK, LifeOK, FeedOK, QueueOK, ParkedOK, TaskOK, Tasks, HostsOK, LedgerOK, OutcomeOK

\* The feeder changes the feed, the queue, the ledger and the reason.
LEMMA FeederTypes ==
    ASSUME PTypeOK, Feeder
    PROVE  PTypeOK'
  <1>1. /\ LifeOK /\ FeedOK /\ QueueOK /\ ParkedOK(parked) /\ TaskOK
        /\ HostsOK /\ LedgerOK /\ OutcomeOK
    BY TypeParts
  <1>2. UNCHANGED <<life, parked, task, hosts, recorded, enough>>
    BY DEF Feeder, ReadItem, PutOffered, GiveUpOffer, CloseFeed
  <1>3. LifeOK' /\ ParkedOK(parked') /\ TaskOK' /\ HostsOK'
    BY <1>1, <1>2 DEF LifeOK, TaskOK, HostsOK, life, hosts
  <1> SUFFICES FeedOK' /\ QueueOK' /\ LedgerOK' /\ OutcomeOK'
    BY <1>3, TypesAfter
  <1>4. ASSUME NEW i \in Items, ReadItem(i) PROVE FeedOK' /\ QueueOK' /\ LedgerOK' /\ OutcomeOK'
    <2>1. FeedOK'
      BY <1>1, <1>4 DEF FeedOK, ReadItem
    <2>2. QueueOK'
      BY <1>1, <1>4, SizesAssumption DEF QueueOK, ReadItem
    <2>3. LedgerOK'
      BY <1>1, <1>4 DEF LedgerOK, ReadItem, Admit, ledger
    <2>4. OutcomeOK'
      BY <1>1, <1>4 DEF OutcomeOK, ReadItem
    <2>5. QED
      BY <2>1, <2>2, <2>3, <2>4
  <1>5. CASE PutOffered
    <2>1. FeedOK'
      BY <1>1, <1>5 DEF FeedOK, PutOffered
    <2>2. QueueOK' /\ LedgerOK'
      BY <1>1, <1>5, SizesAssumption DEF FeedOK, QueueOK, LedgerOK, PutOffered, Admit
    <2>3. OutcomeOK'
      BY <1>1, <1>5 DEF OutcomeOK, PutOffered
    <2>4. QED
      BY <2>1, <2>2, <2>3
  <1>6. CASE GiveUpOffer
    BY <1>1, <1>6 DEF FeedOK, QueueOK, LedgerOK, OutcomeOK, GiveUpOffer, ledger
  <1>7. CASE CloseFeed
    <2>1. reason' \in DOMAIN Rank
      BY <1>1, <1>7, RankReasons, StopTypes DEF CloseFeed, OutcomeOK
    <2>2. QED
      BY <1>1, <1>7, <2>1 DEF FeedOK, QueueOK, LedgerOK, OutcomeOK, CloseFeed, ledger
  <1>8. QED
    BY <1>4, <1>5, <1>6, <1>7 DEF Feeder

\* A worker changes everything but the run and the feed.
LEMMA WorkerTypes ==
    ASSUME PTypeOK, NEW w \in Workers, Worker(w)
    PROVE  PTypeOK'
  <1>1. /\ LifeOK /\ FeedOK /\ QueueOK /\ ParkedOK(parked) /\ TaskOK
        /\ HostsOK /\ LedgerOK /\ OutcomeOK
    BY TypeParts
  <1>2. /\ task \in [Workers -> Tasks] /\ task[w] \in Tasks
        /\ \A i \in task[w].item : i \in Items /\ HostOf[i] \in Hosts
    BY <1>1, ItemsAssumption DEF TaskOK, Tasks
  <1>3. LifeOK' /\ FeedOK'
    <2>1. UNCHANGED <<life, feed>>
      BY DEF Worker, TakeItem, LeaveWork, Arrive, AskHost, Measure, Emitted, FreeHost
    <2>2. QED
      BY <1>1, <2>1 DEF LifeOK, FeedOK, life, feed
  <1> SUFFICES QueueOK' /\ ParkedOK(parked') /\ TaskOK' /\ HostsOK' /\ LedgerOK' /\ OutcomeOK'
    BY <1>3, TypesAfter
  <1>4. CASE TakeItem(w)
    <2>1. TaskOK' /\ QueueOK'
      BY <1>1, <1>4, SizesAssumption DEF TaskOK, Tasks, QueueOK, TakeItem, WorkerSteps
    <2>2. ParkedOK(parked')
      BY <1>1, <1>4 DEF TakeItem
    <2>3. QED
      BY <1>1, <1>4, <2>1, <2>2 DEF HostsOK, LedgerOK, OutcomeOK, TakeItem, hosts, ledger
  <1>5. CASE LeaveWork(w)
    <2>1. TaskOK'
      BY <1>1, <1>5 DEF TaskOK, Tasks, LeaveWork, WorkerSteps
    <2>2. ParkedOK(parked') /\ QueueOK'
      BY <1>1, <1>5 DEF QueueOK, LeaveWork
    <2>3. QED
      BY <1>1, <1>5, <2>1, <2>2 DEF HostsOK, LedgerOK, OutcomeOK, LeaveWork, hosts, ledger
  <1>6. CASE Arrive(w)
    <2>1. PICK i \in task[w].item : Enter(w, i, busy, cooling, parked, task)
      BY <1>6 DEF Arrive
    <2>2. /\ LedgerOK' /\ busy' \in [Hosts -> Nat]
          /\ ParkedOK(parked') /\ task' \in [Workers -> Tasks]
      BY <1>1, <1>2, <2>1, EnterTypes DEF HostsOK
    <2>3. QED
      BY <1>1, <1>6, <2>2 DEF Arrive, TaskOK, HostsOK, QueueOK, OutcomeOK
  <1>7. CASE AskHost(w)
    <2>1. PICK i \in task[w].item :
             \/ /\ busy' = [busy EXCEPT ![HostOf[i]] = @ + 1]
                /\ \/ GiveBack({i}) /\ task' = [task EXCEPT ![w].at = "releasing"]
                   \/ UNCHANGED ledger /\ task' = [task EXCEPT ![w].at = "measuring"]
             \/ task' = [task EXCEPT ![w].at = "asleep"] /\ UNCHANGED <<busy, ledger>>
      BY <1>7 DEF AskHost
    <2>2. LedgerOK'
      BY <1>1, <2>1 DEF LedgerOK, GiveBack, ledger
    <2>3. HostsOK'
      BY <1>1, <1>2, <1>7, <2>1 DEF AskHost, HostsOK
    <2>4. TaskOK'
      BY <1>1, <2>1 DEF TaskOK, Tasks, WorkerSteps, Holding
    <2>5. ParkedOK(parked')
      BY <1>1, <1>7 DEF AskHost
    <2>6. QED
      BY <1>1, <1>7, <2>2, <2>3, <2>4, <2>5 DEF AskHost, QueueOK, OutcomeOK
  <1>8. CASE Measure(w)
    <2>1. PICK i \in task[w].item :
             /\ UNCHANGED ledger \/ Finish(i)
             /\ UNCHANGED recorded \/ Record(i)
             /\ UNCHANGED reason \/ Stop("budget_exhausted")
             /\ enough' \in BOOLEAN
             /\ \/ task' = [task EXCEPT ![w].at = "emitting"]
                \/ task' = [task EXCEPT ![w].at = "releasing"]
      BY <1>1, <1>8 DEF Measure, OutcomeOK
    <2>2. LedgerOK'
      BY <1>1, <1>2, <2>1 DEF LedgerOK, Finish, ledger
    <2>3. TaskOK'
      BY <1>1, <2>1 DEF TaskOK, Tasks, WorkerSteps, Holding
    <2>4. reason' \in DOMAIN Rank
      BY <1>1, <2>1, RankReasons, StopTypes DEF OutcomeOK
    <2>5. recorded' \in [Items -> Nat]
      BY <1>1, <1>2, <2>1 DEF Record, OutcomeOK
    <2>6. ParkedOK(parked')
      BY <1>1, <1>8 DEF Measure
    <2>7. QED
      BY <1>1, <1>8, <2>1, <2>2, <2>3, <2>4, <2>5, <2>6
         DEF Measure, QueueOK, HostsOK, OutcomeOK, hosts
  <1>9. CASE Emitted(w)
    <2>1. TaskOK'
      BY <1>1, <1>9 DEF Emitted, TaskOK, Tasks, WorkerSteps, Holding
    <2>2. reason' \in DOMAIN Rank
      BY <1>1, <1>9, RankReasons, StopTypes DEF Emitted, OutcomeOK
    <2>3. ParkedOK(parked')
      BY <1>1, <1>9 DEF Emitted
    <2>4. QED
      BY <1>1, <1>9, <2>1, <2>2, <2>3
         DEF Emitted, QueueOK, HostsOK, LedgerOK, OutcomeOK, hosts, ledger
  <1>10. CASE FreeHost(w)
    <2> DEFINE Slots(h) == [busy EXCEPT ![h] = IF @ > 0 THEN @ - 1 ELSE 0]
               Left(h) == [parked EXCEPT ![h] = Tail(@)]
               t == [v \in Workers |-> Notified(v)]
    <2>1. PICK i \in task[w].item :
             /\ cooling' = [cooling EXCEPT ![HostOf[i]] = @ \/ (spaced /\ Slots(HostOf[i])[HostOf[i]] = 0)]
             /\ IF Unpark(HostOf[i]) = {}
                THEN /\ task' = [t EXCEPT ![w] = Idle] /\ busy' = Slots(HostOf[i])
                     /\ UNCHANGED <<parked, ledger>>
                ELSE \E k \in Unpark(HostOf[i]) :
                       Enter(w, k, Slots(HostOf[i]), cooling', Left(HostOf[i]), t)
      BY <1>10 DEF FreeHost
    <2> DEFINE h == HostOf[i]
    <2>2. h \in Hosts /\ Slots(h) \in [Hosts -> Nat]
      BY <1>1, <1>2 DEF HostsOK
    <2>3. t \in [Workers -> Tasks] /\ Idle \in Tasks
      BY <1>2, NotifiedTypes DEF Idle, Tasks, WorkerSteps
    <2>4. cooling' \in [Hosts -> BOOLEAN]
      BY <1>1, <2>1, <2>2 DEF HostsOK
    <2>5. QueueOK' /\ OutcomeOK'
      BY <1>1, <1>10 DEF FreeHost, QueueOK, OutcomeOK
    <2>6. CASE Unpark(h) = {}
      <3>1. task' = [t EXCEPT ![w] = Idle] /\ busy' = Slots(h) /\ UNCHANGED <<parked, ledger>>
        BY <2>1, <2>6
      <3>2. ParkedOK(parked') /\ LedgerOK'
        BY <1>1, <3>1 DEF LedgerOK, ledger
      <3>3. TaskOK'
        BY <2>3, <3>1 DEF TaskOK
      <3>4. QED
        BY <2>2, <2>4, <2>5, <3>1, <3>2, <3>3 DEF HostsOK
    <2>7. CASE Unpark(h) # {}
      <3>1. PICK k \in Unpark(h) : Enter(w, k, Slots(h), cooling', Left(h), t)
        BY <2>1, <2>7
      <3>2. /\ parked[h] # <<>> /\ k = Head(parked[h]) /\ parked[h] \in Seq(Items)
        BY <1>1, <2>2, <3>1 DEF Unpark, ParkedOK
      <3>3. k \in Items /\ Tail(parked[h]) \in Seq(Items) /\ Len(Tail(parked[h])) <= Len(parked[h])
        BY <3>2
      <3>4. ParkedOK(Left(h))
        BY <1>1, <2>2, <3>3, LessParked
      <3>5. /\ LedgerOK' /\ busy' \in [Hosts -> Nat]
            /\ ParkedOK(parked') /\ task' \in [Workers -> Tasks]
        BY <1>1, <2>2, <2>3, <3>1, <3>3, <3>4, EnterTypes
      <3>6. QED
        BY <2>4, <2>5, <3>5 DEF HostsOK, TaskOK
    <2>8. QED
      BY <2>6, <2>7
  <1>11. QED
    BY <1>4, <1>5, <1>6, <1>7, <1>8, <1>9, <1>10 DEF Worker

\* The run starts, ends, is stopped or is torn down; an interval elapses.
LEMMA RunTypes ==
    ASSUME PTypeOK,
           \/ \E h \in Hosts : Elapse(h)
           \/ \E r \in Stops : Control(r) \/ TearDown(r)
           \/ Start \/ End \/ Rest
    PROVE  PTypeOK'
  <1>1. /\ LifeOK /\ FeedOK /\ QueueOK /\ ParkedOK(parked) /\ TaskOK
        /\ HostsOK /\ LedgerOK /\ OutcomeOK
    BY TypeParts
  <1>2. ASSUME NEW h \in Hosts, Elapse(h) PROVE PTypeOK'
    <2>1. HostsOK'
      BY <1>1, <1>2 DEF HostsOK, Elapse
    <2>2. LifeOK' /\ FeedOK' /\ QueueOK' /\ TaskOK' /\ LedgerOK' /\ OutcomeOK'
      BY <1>1, <1>2 DEF Elapse, LifeOK, FeedOK, QueueOK, TaskOK, LedgerOK, OutcomeOK, life, feed, ledger
    <2>3. ParkedOK(parked')
      BY <1>1, <1>2 DEF Elapse
    <2>4. QED
      BY <2>1, <2>2, <2>3, TypesAfter
  <1>3. ASSUME NEW r \in Stops, Control(r) PROVE PTypeOK'
    <2>1. reason' \in DOMAIN Rank
      BY <1>1, <1>3, RankReasons, StopTypes DEF Control, OutcomeOK
    <2>2. LifeOK' /\ FeedOK' /\ QueueOK' /\ TaskOK' /\ HostsOK' /\ LedgerOK' /\ OutcomeOK'
      BY <1>1, <1>3, <2>1
         DEF Control, LifeOK, FeedOK, QueueOK, TaskOK, HostsOK, LedgerOK, OutcomeOK,
             life, feed, hosts, ledger
    <2>3. ParkedOK(parked')
      BY <1>1, <1>3 DEF Control
    <2>4. QED
      BY <2>2, <2>3, TypesAfter
  <1>4. ASSUME NEW r \in Stops, TearDown(r) PROVE PTypeOK'
    <2>1. reason' \in DOMAIN Rank
      BY <1>1, <1>4, RankReasons, StopTypes DEF TearDown, OutcomeOK
    <2>2. TaskOK'
      BY <1>1, <1>4 DEF TearDown, TaskOK, Tasks, WorkerSteps
    <2>3. LifeOK' /\ FeedOK' /\ QueueOK' /\ HostsOK' /\ LedgerOK' /\ OutcomeOK'
      BY <1>1, <1>4, <2>1
         DEF TearDown, LifeOK, FeedOK, QueueOK, HostsOK, LedgerOK, OutcomeOK
    <2>4. ParkedOK(parked')
      BY <1>1, <1>4 DEF TearDown
    <2>5. QED
      BY <2>2, <2>3, <2>4, TypesAfter
  <1>5. CASE Start
    <2>1. TaskOK'
      BY <1>5 DEF Start, TaskOK, Tasks, WorkerSteps, Idle
    <2>2. QueueOK' /\ FeedOK' /\ LifeOK'
      <3>1. LifeOK'
        BY <1>1, <1>5, SizesAssumption DEF Start, LifeOK
      <3>2. FeedOK'
        BY <1>5 DEF Start, FeedOK
      <3>3. <<>> \in Seq(Items) /\ Len(<<>>) = 0
        OBVIOUS
      <3>4. QueueOK'
        BY <1>5, <3>3, SizesAssumption DEF Start, QueueOK
      <3>5. QED
        BY <3>1, <3>2, <3>4
    <2>3. HostsOK' /\ LedgerOK' /\ OutcomeOK'
      BY <1>1, <1>5, RankReasons DEF Start, HostsOK, LedgerOK, OutcomeOK, hosts, ledger
    <2>4. ParkedOK(parked')
      BY <1>5, NothingParked DEF Start
    <2>5. QED
      BY <2>1, <2>2, <2>3, <2>4, TypesAfter
  <1>6. CASE End
    <2>1. reason' \in DOMAIN Rank
      BY <1>1, <1>6, RankReasons, StopTypes DEF End, OutcomeOK
    <2>2. LifeOK' /\ FeedOK' /\ QueueOK' /\ TaskOK' /\ HostsOK' /\ LedgerOK' /\ OutcomeOK'
      BY <1>1, <1>6, <2>1
         DEF End, LifeOK, FeedOK, QueueOK, TaskOK, HostsOK, LedgerOK, OutcomeOK, feed, hosts, ledger
    <2>3. ParkedOK(parked')
      BY <1>1, <1>6 DEF End
    <2>4. QED
      BY <2>2, <2>3, TypesAfter
  <1>7. CASE Rest
    BY <1>7 DEF Rest, PTypeOK, vars, life, feed, hosts, ledger
  <1>8. QED
    BY <1>2, <1>3, <1>4, <1>5, <1>6, <1>7

\* Every variable keeps its type; the queue and the parked items stay within
\* max_queue_items (_enqueue, _park).
THEOREM PTypeCorrect == PSpec => []PTypeOK
  <1>1. PInit => PTypeOK
    <2> SUFFICES ASSUME PInit PROVE PTypeOK
      OBVIOUS
    <2>1. /\ LifeOK /\ FeedOK /\ QueueOK /\ HostsOK /\ LedgerOK /\ OutcomeOK
      <3>1. <<>> \in Seq(Items) /\ Len(<<>>) = 0
        OBVIOUS
      <3>2. QueueOK
        BY <3>1, SizesAssumption DEF PInit, QueueOK
      <3>3. LifeOK /\ FeedOK
        <4>1. spaced \in BOOLEAN
          BY SizesAssumption DEF PInit
        <4>2. run \in 0..Rounds /\ phase \in {"ready", "running", "ended", "torn"}
          BY SizesAssumption DEF PInit
        <4>3. FeedOK
          BY DEF PInit, FeedOK
        <4>4. QED
          BY <4>1, <4>2, <4>3 DEF LifeOK
      <3>4. HostsOK /\ LedgerOK /\ OutcomeOK
        BY RankReasons DEF PInit, HostsOK, LedgerOK, OutcomeOK
      <3>5. QED
        BY <3>2, <3>3, <3>4
    <2>2. TaskOK
      BY DEF PInit, TaskOK, Tasks, WorkerSteps, Idle
    <2>3. ParkedOK(parked)
      BY NothingParked DEF PInit
    <2>4. QED
      BY <2>1, <2>2, <2>3, TypeParts
  <1>2. PTypeOK /\ [PNext]_vars => PTypeOK'
    <2> SUFFICES ASSUME PTypeOK, [PNext]_vars PROVE PTypeOK'
      OBVIOUS
    <2>1. CASE UNCHANGED vars
      BY <2>1 DEF PTypeOK, vars, life, feed, hosts, ledger
    <2>2. CASE PNext
      BY <2>2, FeederTypes, WorkerTypes, RunTypes DEF PNext
    <2>3. QED
      BY <2>1, <2>2
  <1>3. QED
    BY <1>1, <1>2, PTL DEF PSpec

-----------------------------------------------------------------------------
(* Slots: a host has as many in use as it has holders *)

\* A worker with the task u holds h.
Occupies(u, h) == u.at \in Holding /\ \E i \in u.item : HostOf[i] = h

\* The holders of h by the tasks t.
HoldersIn(t, h) == {v \in Workers : Occupies(t[v], h)}

\* b counts the holders by the tasks t, leaving w out.
CountsOthers(b, t, w) ==
    \A h \in Hosts : b[h] = Cardinality(HoldersIn(t, h) \ {w}) /\ b[h] <= MaxPerHost

Slots == \A h \in Hosts : busy[h] = Cardinality(HoldersIn(task, h)) /\ busy[h] <= MaxPerHost

\* A worker has at most one item in hand.
OneInHand == \A w \in Workers : \A i, k \in task[w].item : i = k

\* Without a run there is nobody at work.
Quiet == Running \/ \A w \in Workers : At(w, "left")

LEMMA CountHolders ==
    ASSUME NEW t, NEW h, NEW w
    PROVE  /\ Cardinality(HoldersIn(t, h)) \in Nat /\ Cardinality(HoldersIn(t, h) \ {w}) \in Nat
           /\ Cardinality(HoldersIn(t, h)) =
                Cardinality(HoldersIn(t, h) \ {w}) + IF w \in HoldersIn(t, h) THEN 1 ELSE 0
  <1> DEFINE H == HoldersIn(t, h)
  <1>1. H \in SUBSET Workers
    BY DEF HoldersIn
  <1>2. IsFiniteSet(H)
    BY <1>1, SizesAssumption, FS_Subset
  <1> HIDE DEF H
  <1>3. /\ IsFiniteSet(H \ {w})
        /\ Cardinality(H \ {w}) = IF w \in H THEN Cardinality(H) - 1 ELSE Cardinality(H)
    BY <1>2, FS_RemoveElement
  <1>4. Cardinality(H) \in Nat /\ Cardinality(H \ {w}) \in Nat
    BY <1>2, <1>3, FS_CardinalityType
  <1>5. QED
    BY <1>3, <1>4 DEF H

\* The worker w goes on and holds what it held.
LEMMA StillHolds ==
    ASSUME TaskOK, Slots, UNCHANGED busy, NEW w \in Workers, NEW u,
           task' = [task EXCEPT ![w] = u],
           \A h \in Hosts : Occupies(u, h) <=> Holds(w, h)
    PROVE  Slots'
  <1> SUFFICES ASSUME NEW h \in Hosts
               PROVE  busy'[h] = Cardinality(HoldersIn(task', h)) /\ busy'[h] <= MaxPerHost
    BY DEF Slots
  <1>1. task'[w] = u /\ \A v \in Workers : v # w => task'[v] = task[v]
    BY DEF TaskOK
  <1>2. Occupies(u, h) <=> Occupies(task[w], h)
    BY DEF Occupies, Holds, OnHost
  <1>3. \A v \in Workers : Occupies(task'[v], h) <=> Occupies(task[v], h)
    BY <1>1, <1>2, Zenon
  <1>4. HoldersIn(task', h) = HoldersIn(task, h)
    BY <1>3 DEF HoldersIn
  <1>5. QED
    BY <1>4 DEF Slots

\* The others are counted by b, and w takes the task u.
LEMMA Counted ==
    ASSUME NEW w \in Workers, NEW u, NEW b \in [Hosts -> Nat], NEW t \in [Workers -> Tasks],
           CountsOthers(b, t, w), task' = [t EXCEPT ![w] = u], NEW h \in Hosts
    PROVE  Cardinality(HoldersIn(task', h)) = b[h] + IF Occupies(u, h) THEN 1 ELSE 0
  <1>1. task'[w] = u /\ \A v \in Workers : v # w => task'[v] = t[v]
    OBVIOUS
  <1>2. HoldersIn(task', h) \ {w} = HoldersIn(t, h) \ {w}
    BY <1>1 DEF HoldersIn
  <1>3. w \in HoldersIn(task', h) <=> Occupies(u, h)
    BY <1>1 DEF HoldersIn
  <1>4. Cardinality(HoldersIn(task', h)) =
          Cardinality(HoldersIn(task', h) \ {w}) + IF w \in HoldersIn(task', h) THEN 1 ELSE 0
    BY CountHolders
  <1>5. b[h] = Cardinality(HoldersIn(t, h) \ {w})
    BY DEF CountsOthers
  <1>6. QED
    BY <1>2, <1>3, <1>4, <1>5

\* w gets a slot of h that is free.
LEMMA GetsSlot ==
    ASSUME NEW w \in Workers, NEW u, NEW b \in [Hosts -> Nat], NEW t \in [Workers -> Tasks],
           CountsOthers(b, t, w), task' = [t EXCEPT ![w] = u], NEW h \in Hosts,
           b[h] < MaxPerHost, busy' = [b EXCEPT ![h] = @ + 1],
           \A g \in Hosts : Occupies(u, g) <=> g = h
    PROVE  Slots'
  <1> SUFFICES ASSUME NEW g \in Hosts
               PROVE  busy'[g] = Cardinality(HoldersIn(task', g)) /\ busy'[g] <= MaxPerHost
    BY DEF Slots
  <1>1. Cardinality(HoldersIn(task', g)) = b[g] + IF g = h THEN 1 ELSE 0
    BY Counted
  <1>2. busy'[g] = b[g] + IF g = h THEN 1 ELSE 0
    OBVIOUS
  <1>3. b[g] <= MaxPerHost
    BY DEF CountsOthers
  <1>4. QED
    BY <1>1, <1>2, <1>3, SizesAssumption

\* w gets no slot.
LEMMA GetsNone ==
    ASSUME NEW w \in Workers, NEW u, NEW b \in [Hosts -> Nat], NEW t \in [Workers -> Tasks],
           CountsOthers(b, t, w), task' = [t EXCEPT ![w] = u], busy' = b,
           \A g \in Hosts : ~Occupies(u, g)
    PROVE  Slots'
  <1> SUFFICES ASSUME NEW g \in Hosts
               PROVE  busy'[g] = Cardinality(HoldersIn(task', g)) /\ busy'[g] <= MaxPerHost
    BY DEF Slots
  <1>1. Cardinality(HoldersIn(task', g)) = b[g] + IF Occupies(u, g) THEN 1 ELSE 0
    BY Counted
  <1>2. b[g] \in Nat /\ b[g] <= MaxPerHost
    BY DEF CountsOthers
  <1>3. QED
    BY <1>1, <1>2

LEMMA EnterSlots ==
    ASSUME NEW w \in Workers, NEW i \in Items, NEW b \in [Hosts -> Nat], NEW c, NEW p,
           NEW t \in [Workers -> Tasks], CountsOthers(b, t, w), Enter(w, i, b, c, p, t)
    PROVE  Slots'
  <1> DEFINE h == HostOf[i]
             u == [at |-> "measuring", item |-> {i}]
             v == [at |-> "asleep", item |-> {i}]
  <1>1. h \in Hosts
    BY ItemsAssumption
  <1>2. \A g \in Hosts : ~Occupies(Idle, g) /\ ~Occupies(v, g) /\ (Occupies(u, g) <=> g = h)
    BY DEF Occupies, Idle, Holding
  <1>3. CASE Free(h, b, c) /\ busy' = [b EXCEPT ![h] = @ + 1] /\ task' = [t EXCEPT ![w] = u]
    <2>1. b[h] < MaxPerHost
      BY <1>3 DEF Free
    <2>2. QED
      BY <1>1, <1>2, <1>3, <2>1, GetsSlot
  <1>4. CASE busy' = b /\ (task' = [t EXCEPT ![w] = Idle] \/ task' = [t EXCEPT ![w] = v])
    BY <1>2, <1>4, GetsNone
  <1>5. QED
    BY <1>3, <1>4 DEF Enter

\* Seen from w, the others hold what the slots count, less its own.
LEMMA OthersCounted ==
    ASSUME TaskOK, HostsOK, Slots, NEW w \in Workers, \A h \in Hosts : ~Holds(w, h)
    PROVE  CountsOthers(busy, task, w)
  <1> SUFFICES ASSUME NEW h \in Hosts
               PROVE  busy[h] = Cardinality(HoldersIn(task, h) \ {w}) /\ busy[h] <= MaxPerHost
    BY DEF CountsOthers
  <1>1. w \notin HoldersIn(task, h)
    BY DEF HoldersIn, Occupies, Holds, OnHost
  <1>2. HoldersIn(task, h) \ {w} = HoldersIn(task, h)
    BY <1>1
  <1>3. QED
    BY <1>2 DEF Slots

-----------------------------------------------------------------------------
(* Comers: a parked item has a worker that comes back for it *)

\* A worker with the task u will look at what is parked behind h.
Comes(u, h) ==
    u.at \in Holding \cup {"asking", "asleep"} /\ \E i \in u.item : HostOf[i] = h

Awaited(p, t) == \A h \in Hosts : p[h] # <<>> => \E w \in Workers : Comes(t[w], h)

Comers == Running => Awaited(parked, task)

\* An item is parked behind its own host.
AtHome == \A h \in Hosts : \A i \in Elements(parked[h]) : HostOf[i] = h

Hold == OneInHand /\ Quiet /\ Slots /\ AtHome /\ Comers

PInv == PTypeOK /\ Hold

\* What Enter needs to know of the tasks t but that of w: every other host with
\* items parked has somebody who comes.
AwaitedBut(p, t, w, h) ==
    \A g \in Hosts \ {h} : p[g] # <<>> => \E v \in Workers \ {w} : Comes(t[v], g)

LEMMA EnterComers ==
    ASSUME NEW w \in Workers, NEW i \in Items, NEW b \in [Hosts -> Nat], NEW c,
           NEW p \in [Hosts -> Seq(Items)], NEW t \in [Workers -> Tasks],
           CountsOthers(b, t, w), Enter(w, i, b, c, p, t), AwaitedBut(p, t, w, HostOf[i])
    PROVE  Awaited(parked', task')
  <1> DEFINE h == HostOf[i]
             u == [at |-> "measuring", item |-> {i}]
             v == [at |-> "asleep", item |-> {i}]
  <1>1. h \in Hosts
    BY ItemsAssumption
  <1>2. Comes(u, h) /\ Comes(v, h)
    BY DEF Comes, Holding
  <1>3. ASSUME NEW x, task' = [t EXCEPT ![w] = x]
        PROVE  task'[w] = x /\ \A y \in Workers \ {w} : task'[y] = t[y]
    BY <1>3
  <1>4. /\ \A y \in Workers \ {w} : task'[y] = t[y]
        /\ \A g \in Hosts \ {h} : parked'[g] = p[g]
    BY <1>3 DEF Enter
  <1>5. ASSUME NEW g \in Hosts \ {h}, parked'[g] # <<>>
        PROVE  \E y \in Workers : Comes(task'[y], g)
    BY <1>4, <1>5 DEF AwaitedBut
  <1>6. parked'[h] = <<>> \/ \E y \in Workers : Comes(task'[y], h)
    <2>1. CASE parked' = [p EXCEPT ![h] = <<>>]
      BY <1>1, <2>1
    <2>2. CASE task' = [t EXCEPT ![w] = u] \/ task' = [t EXCEPT ![w] = v]
      BY <1>2, <1>3, <2>2
    <2>3. CASE Parkable(h, b, p)
      <3>1. b[h] > 0 /\ b[h] = Cardinality(HoldersIn(t, h) \ {w})
        BY <1>1, <2>3 DEF Parkable, CountsOthers
      <3>2. HoldersIn(t, h) \ {w} # {}
        <4>1. ASSUME HoldersIn(t, h) \ {w} = {} PROVE Cardinality(HoldersIn(t, h) \ {w}) = 0
          BY <4>1, FS_EmptySet, Zenon
        <4>2. QED
          BY <3>1, <4>1
      <3>3. PICK y \in Workers \ {w} : Occupies(t[y], h)
        BY <3>2 DEF HoldersIn
      <3>4. Comes(task'[y], h)
        BY <1>4, <3>3 DEF Occupies, Comes
      <3>5. QED
        BY <3>4
    <2>4. QED
      BY <2>1, <2>2, <2>3 DEF Enter
  <1>7. QED
    BY <1>5, <1>6 DEF Awaited

\* What w does with i leaves every item behind its own host, and w with one item.
LEMMA EnterHome ==
    ASSUME NEW w \in Workers, NEW i \in Items, NEW b, NEW c,
           NEW p \in [Hosts -> Seq(Items)], NEW t \in [Workers -> Tasks], Enter(w, i, b, c, p, t),
           \A h \in Hosts : \A k \in Elements(p[h]) : HostOf[k] = h,
           \A v \in Workers : \A k, l \in t[v].item : k = l
    PROVE  AtHome' /\ OneInHand'
  <1> DEFINE h == HostOf[i]
  <1>1. h \in Hosts /\ p[h] \in Seq(Items)
    BY ItemsAssumption
  <1>2. Elements(<<>>) = {} /\ Elements(Append(p[h], i)) = Elements(p[h]) \cup {i}
    <2>1. Elements(<<>>) = {}
      BY DEF Elements
    <2> DEFINE q == p[h]
    <2>2. q \in Seq(Items)
      BY <1>1
    <2> HIDE DEF q
    <2>3. DOMAIN q = 1..Len(q) /\ DOMAIN Append(q, i) = 1..Len(q) + 1 /\ Len(q) \in Nat
      BY <2>2
    <2>4. \A n \in 1..Len(q) + 1 : Append(q, i)[n] = IF n = Len(q) + 1 THEN i ELSE q[n]
      BY <2>2
    <2>5. Elements(Append(q, i)) = Elements(q) \cup {i}
      BY <2>3, <2>4 DEF Elements
    <2>6. QED
      BY <2>1, <2>5 DEF q
  <1>3. AtHome'
    <2>1. \/ parked' = p \/ parked' = [p EXCEPT ![h] = <<>>]
          \/ parked' = [p EXCEPT ![h] = Append(@, i)]
      BY DEF Enter
    <2> SUFFICES ASSUME NEW g \in Hosts, NEW k \in Elements(parked'[g]) PROVE HostOf[k] = g
      BY DEF AtHome
    <2>2. k \in Elements(p[g]) \/ (k = i /\ g = h)
      <3>1. CASE parked' = p
        BY <3>1
      <3>2. CASE parked' = [p EXCEPT ![h] = <<>>]
        <4>1. parked'[g] = IF g = h THEN <<>> ELSE p[g]
          BY <3>2
        <4>2. QED
          BY <1>2, <4>1
      <3>3. CASE parked' = [p EXCEPT ![h] = Append(@, i)]
        <4>1. parked'[g] = IF g = h THEN Append(p[h], i) ELSE p[g]
          BY <3>3
        <4>2. QED
          BY <1>2, <4>1
      <3>4. QED
        BY <2>1, <3>1, <3>2, <3>3
    <2>3. QED
      BY <2>2
  <1>4. OneInHand'
    <2>1. PICK x : task' = [t EXCEPT ![w] = x] /\ \A k, l \in x.item : k = l
      BY DEF Enter, Idle
    <2>2. QED
      BY <2>1 DEF OneInHand
  <1>5. QED
    BY <1>3, <1>4

-----------------------------------------------------------------------------
(* The steps keep what holds *)

\* The worker w goes on with what it holds and waits for.
LEMMA GoesOn ==
    ASSUME TaskOK, Hold, Running, UNCHANGED <<phase, busy, parked>>, NEW w \in Workers, NEW u,
           task' = [task EXCEPT ![w] = u],
           \A h \in Hosts : Occupies(u, h) <=> Holds(w, h),
           \A h \in Hosts : Comes(task[w], h) => Comes(u, h),
           \A i, k \in u.item : i = k
    PROVE  Hold'
  <1>1. task'[w] = u /\ \A v \in Workers : v # w => task'[v] = task[v]
    BY DEF TaskOK
  <1>2. Slots'
    BY StillHolds DEF Hold
  <1>3. OneInHand'
    BY <1>1 DEF Hold, OneInHand
  <1>4. Quiet' /\ AtHome'
    BY DEF Hold, Quiet, Running, AtHome
  <1>5. Comers'
    BY <1>1 DEF Hold, Comers, Running, Awaited
  <1>6. QED
    BY <1>2, <1>3, <1>4, <1>5 DEF Hold

\* Tasks, slots and parked items stay, and the run with them.
LEMMA NothingMoves ==
    ASSUME Hold, UNCHANGED <<phase, task, busy, parked>>
    PROVE  Hold'
  BY DEF Hold, OneInHand, Quiet, Slots, AtHome, Comers, Running, Awaited, At

\* Of a worker at step a, what its hand does.
LEMMA WorkerAt ==
    ASSUME TaskOK, NEW w \in Workers, NEW a
    PROVE  /\ [task EXCEPT ![w].at = a] = [task EXCEPT ![w] = [task[w] EXCEPT !.at = a]]
           /\ [task[w] EXCEPT !.at = a].at = a
           /\ [task[w] EXCEPT !.at = a].item = task[w].item
  BY DEF TaskOK, Tasks

LEMMA EasySteps ==
    ASSUME PTypeOK, Hold, NEW w \in Workers,
           TakeItem(w) \/ LeaveWork(w) \/ Measure(w) \/ Emitted(w)
    PROVE  Hold'
  <1> USE TypeParts
  <1>1. Running /\ UNCHANGED <<phase, busy, parked>>
    BY DEF TakeItem, LeaveWork, Measure, Emitted, life, hosts
  <1>2. CASE TakeItem(w)
    <2> DEFINE u == [at |-> "taken", item |-> {Head(queue)}]
    <2>1. task' = [task EXCEPT ![w] = u] /\ At(w, "idle")
      BY <1>2 DEF TakeItem
    <2>2. \A h \in Hosts : ~Occupies(u, h) /\ ~Holds(w, h) /\ ~Comes(task[w], h)
      BY <2>1 DEF Occupies, Holds, Comes, Holding, At
    <2>3. QED
      BY <1>1, <2>1, <2>2, GoesOn
  <1>3. CASE LeaveWork(w)
    <2> DEFINE u == [task[w] EXCEPT !.at = "left"]
    <2>1. task' = [task EXCEPT ![w] = u] /\ At(w, "idle") /\ u.at = "left" /\ u.item = task[w].item
      BY <1>3, WorkerAt DEF LeaveWork
    <2> HIDE DEF u
    <2>2. \A h \in Hosts : ~Occupies(u, h) /\ ~Holds(w, h) /\ ~Comes(task[w], h)
      BY <2>1 DEF Occupies, Holds, Comes, Holding, At
    <2>3. \A i, k \in u.item : i = k
      BY <2>1 DEF Hold, OneInHand
    <2>4. QED
      BY <1>1, <2>1, <2>2, <2>3, GoesOn
  <1>4. CASE Measure(w) \/ Emitted(w)
    <2>1. PICK a \in {"emitting", "releasing"} : task' = [task EXCEPT ![w].at = a]
      BY <1>4 DEF Measure, Emitted
    <2> DEFINE u == [task[w] EXCEPT !.at = a]
    <2>2. task' = [task EXCEPT ![w] = u] /\ u.at = a /\ u.item = task[w].item
      BY <2>1, WorkerAt
    <2>3. task[w].at \in Holding
      BY <1>4 DEF Measure, Emitted, At, Holding
    <2> HIDE DEF u
    <2>4. \A h \in Hosts : (Occupies(u, h) <=> Holds(w, h)) /\ (Comes(task[w], h) => Comes(u, h))
      BY <2>1, <2>2, <2>3 DEF Occupies, Holds, OnHost, Comes, Holding
    <2>5. \A i, k \in u.item : i = k
      BY <2>2 DEF Hold, OneInHand
    <2>6. QED
      BY <1>1, <2>2, <2>4, <2>5, GoesOn
  <1>5. QED
    BY <1>2, <1>3, <1>4

LEMMA ArriveStep ==
    ASSUME PTypeOK, Hold, NEW w \in Workers, Arrive(w)
    PROVE  Hold'
  <1> USE TypeParts
  <1>1. PICK i \in task[w].item : Enter(w, i, busy, cooling, parked, task)
    BY DEF Arrive
  <1>2. i \in Items
    BY DEF TaskOK, Tasks
  <1>3. At(w, "taken") /\ Running /\ Running'
    BY DEF Arrive, Running, life
  <1>4. \A h \in Hosts : ~Holds(w, h) /\ ~Comes(task[w], h)
    BY <1>3 DEF Holds, Comes, Holding, At
  <1>5. CountsOthers(busy, task, w)
    BY <1>4, OthersCounted DEF Hold
  <1>6. /\ busy \in [Hosts -> Nat] /\ parked \in [Hosts -> Seq(Items)] /\ task \in [Workers -> Tasks]
    BY DEF HostsOK, ParkedOK, TaskOK
  <1>7. AwaitedBut(parked, task, w, HostOf[i])
    BY <1>3, <1>4 DEF Hold, Comers, Awaited, AwaitedBut
  <1>8. Slots'
    BY <1>1, <1>2, <1>5, <1>6, EnterSlots
  <1>9. Awaited(parked', task')
    BY <1>1, <1>2, <1>5, <1>6, <1>7, EnterComers
  <1>10. AtHome' /\ OneInHand'
    <2>1. /\ \A h \in Hosts : \A k \in Elements(parked[h]) : HostOf[k] = h
          /\ \A v \in Workers : \A k, l \in task[v].item : k = l
      BY DEF Hold, AtHome, OneInHand
    <2>2. QED
      BY <1>1, <1>2, <1>6, <2>1, EnterHome
  <1>11. QED
    BY <1>3, <1>8, <1>9, <1>10 DEF Hold, Quiet, Comers

LEMMA AskStep ==
    ASSUME PTypeOK, Hold, NEW w \in Workers, AskHost(w)
    PROVE  Hold'
  <1> USE TypeParts
  <1>1. PICK i \in task[w].item :
          \/ /\ busy[HostOf[i]] < MaxPerHost
             /\ busy' = [busy EXCEPT ![HostOf[i]] = @ + 1]
             /\ \E a \in {"releasing", "measuring"} : task' = [task EXCEPT ![w].at = a]
          \/ task' = [task EXCEPT ![w].at = "asleep"] /\ UNCHANGED busy
    BY DEF AskHost, Free
  <1>2. At(w, "asking") /\ Running /\ UNCHANGED <<phase, parked>>
    BY DEF AskHost, life
  <1>3. /\ HostOf[i] \in Hosts /\ \A k \in task[w].item : k = i
        /\ busy \in [Hosts -> Nat] /\ task \in [Workers -> Tasks]
    BY ItemsAssumption DEF TaskOK, Tasks, HostsOK, Hold, OneInHand
  <1>4. \A h \in Hosts : ~Holds(w, h)
    BY <1>2 DEF Holds, Holding, At
  <1>5. CASE task' = [task EXCEPT ![w].at = "asleep"] /\ UNCHANGED busy
    <2> DEFINE u == [task[w] EXCEPT !.at = "asleep"]
    <2>1. task' = [task EXCEPT ![w] = u] /\ u.at = "asleep" /\ u.item = task[w].item
      BY <1>5, WorkerAt
    <2> HIDE DEF u
    <2>2. \A h \in Hosts : (Occupies(u, h) <=> Holds(w, h)) /\ (Comes(task[w], h) => Comes(u, h))
      BY <1>4, <2>1 DEF Occupies, Comes, Holding
    <2>3. \A k, l \in u.item : k = l
      BY <2>1 DEF Hold, OneInHand
    <2>4. QED
      BY <1>2, <1>5, <2>1, <2>2, <2>3, GoesOn
  <1>6. ASSUME NEW a \in {"releasing", "measuring"}, task' = [task EXCEPT ![w].at = a],
               busy[HostOf[i]] < MaxPerHost, busy' = [busy EXCEPT ![HostOf[i]] = @ + 1]
        PROVE  Hold'
    <2> DEFINE u == [task[w] EXCEPT !.at = a]
    <2>1. task' = [task EXCEPT ![w] = u] /\ u.at = a /\ u.item = task[w].item
      BY <1>6, WorkerAt
    <2> HIDE DEF u
    <2>2. /\ \A g \in Hosts : Occupies(u, g) <=> g = HostOf[i]
          /\ \A g \in Hosts : Comes(task[w], g) => Comes(u, g)
      BY <1>3, <1>6, <2>1 DEF Occupies, Comes, Holding
    <2>3. CountsOthers(busy, task, w)
      BY <1>4, OthersCounted DEF Hold
    <2>4. Slots'
      BY <1>3, <1>6, <2>1, <2>2, <2>3, GetsSlot
    <2>5. task'[w] = u /\ \A v \in Workers : v # w => task'[v] = task[v]
      BY <1>3, <2>1
    <2>6. OneInHand'
      BY <2>1, <2>5 DEF Hold, OneInHand
    <2>7. Comers'
      BY <1>2, <2>2, <2>5 DEF Hold, Comers, Running, Awaited
    <2>8. Quiet' /\ AtHome'
      BY <1>2 DEF Hold, Quiet, Running, AtHome
    <2>9. QED
      BY <2>4, <2>6, <2>7, <2>8 DEF Hold
  <1>7. QED
    BY <1>1, <1>5, <1>6

\* The worker w leaves its host, everybody is told, and it takes the next item
\* that is parked there.
LEMMA FreeStep ==
    ASSUME PTypeOK, Hold, NEW w \in Workers, FreeHost(w)
    PROVE  Hold'
  <1> USE TypeParts
  <1>1. PICK i \in task[w].item :
          LET h == HostOf[i]
              b == [busy EXCEPT ![h] = IF @ > 0 THEN @ - 1 ELSE 0]
              t == [v \in Workers |-> Notified(v)]
          IN  IF Unpark(h) = {}
              THEN task' = [t EXCEPT ![w] = Idle] /\ busy' = b /\ UNCHANGED parked
              ELSE \E k \in Unpark(h) :
                     Enter(w, k, b, cooling', [parked EXCEPT ![h] = Tail(@)], t)
    BY DEF FreeHost, ledger
  <1> DEFINE h == HostOf[i]
             b == [busy EXCEPT ![h] = IF @ > 0 THEN @ - 1 ELSE 0]
             t == [v \in Workers |-> Notified(v)]
             q == [parked EXCEPT ![h] = Tail(@)]
  <1>2. At(w, "releasing") /\ Running /\ Running'
    BY DEF FreeHost, Running, life
  <1>3. /\ h \in Hosts /\ \A k \in task[w].item : k = i
        /\ busy \in [Hosts -> Nat] /\ task \in [Workers -> Tasks] /\ parked \in [Hosts -> Seq(Items)]
    BY ItemsAssumption DEF TaskOK, Tasks, HostsOK, ParkedOK, Hold, OneInHand
  <1>4. \A g \in Hosts : Occupies(task[w], g) <=> g = h
    BY <1>2, <1>3 DEF Occupies, Holding, At
  <1>5. /\ t \in [Workers -> Tasks]
        /\ \A v \in Workers : t[v].item = task[v].item
        /\ \A v \in Workers : \A g \in Hosts :
             (Occupies(t[v], g) <=> Occupies(task[v], g)) /\ (Comes(t[v], g) <=> Comes(task[v], g))
    <2>1. t \in [Workers -> Tasks]
      BY NotifiedTypes DEF TaskOK
    <2>2. \A v \in Workers : /\ t[v].item = task[v].item
                             /\ t[v].at = IF task[v].at = "asleep" THEN "asking" ELSE task[v].at
      BY <1>3 DEF Notified, At, Tasks
    <2> HIDE DEF t
    <2>3. QED
      BY <2>1, <2>2 DEF Occupies, Comes, Holding
  <1>6. b \in [Hosts -> Nat] /\ CountsOthers(b, t, w)
    <2>1. b \in [Hosts -> Nat]
      BY <1>3
    <2> SUFFICES ASSUME NEW g \in Hosts
                 PROVE  b[g] = Cardinality(HoldersIn(t, g) \ {w}) /\ b[g] <= MaxPerHost
      BY <2>1 DEF CountsOthers
    <2>2. HoldersIn(t, g) = HoldersIn(task, g)
      BY <1>5 DEF HoldersIn
    <2>3. w \in HoldersIn(task, g) <=> g = h
      BY <1>4 DEF HoldersIn
    <2>4. /\ Cardinality(HoldersIn(task, g) \ {w}) \in Nat
          /\ Cardinality(HoldersIn(task, g)) =
               Cardinality(HoldersIn(task, g) \ {w}) + IF w \in HoldersIn(task, g) THEN 1 ELSE 0
      BY CountHolders
    <2>5. busy[g] = Cardinality(HoldersIn(task, g)) /\ busy[g] <= MaxPerHost
      BY DEF Hold, Slots
    <2>6. b[g] = IF g = h THEN IF busy[g] > 0 THEN busy[g] - 1 ELSE 0 ELSE busy[g]
      BY <1>3
    <2> HIDE DEF b, h
    <2>7. b[g] = Cardinality(HoldersIn(task, g) \ {w}) /\ b[g] <= MaxPerHost
      BY <2>3, <2>4, <2>5, <2>6, SizesAssumption
    <2>8. QED
      BY <2>2, <2>7
  <1>7. \A g \in Hosts \ {h} : parked[g] # <<>> => \E v \in Workers \ {w} : Comes(t[v], g)
    <2>1. \A g \in Hosts \ {h} : ~Comes(task[w], g)
      BY <1>3 DEF Comes
    <2>2. Awaited(parked, task)
      BY <1>2 DEF Hold, Comers
    <2> HIDE DEF t, h
    <2>3. QED
      BY <1>5, <2>1, <2>2 DEF Awaited
  <1>8. CASE Unpark(h) = {}
    <2>1. task' = [t EXCEPT ![w] = Idle] /\ busy' = b /\ parked' = parked /\ parked[h] = <<>>
      BY <1>1, <1>8 DEF Unpark
    <2> HIDE DEF t, b
    <2>2. \A g \in Hosts : ~Occupies(Idle, g)
      BY DEF Occupies, Idle
    <2>3. Slots'
      BY <1>5, <1>6, <2>1, <2>2, GetsNone
    <2>4. task'[w] = Idle /\ \A v \in Workers : v # w => task'[v] = t[v]
      BY <1>5, <2>1
    <2>5. OneInHand'
      BY <1>5, <2>4 DEF Hold, OneInHand, Idle
    <2>6. Comers'
      BY <1>7, <2>1, <2>4 DEF Comers, Awaited
    <2>7. QED
      BY <1>2, <2>1, <2>3, <2>5, <2>6 DEF Hold, Quiet, AtHome
  <1>9. CASE Unpark(h) # {}
    <2>1. PICK k \in Unpark(h) : Enter(w, k, b, cooling', q, t)
      BY <1>1, <1>9
    <2>2. parked[h] # <<>> /\ k = Head(parked[h]) /\ parked[h] \in Seq(Items)
      BY <1>3 DEF Unpark
    <2> DEFINE r == parked[h]
    <2>3. r \in Seq(Items) /\ r # <<>> /\ Tail(r) \in Seq(Items) /\ Elements(Tail(r)) \subseteq Elements(r)
          /\ Head(r) \in Elements(r) /\ Head(r) \in Items
      <3>1. r \in Seq(Items) /\ r # <<>>
        BY <2>2
      <3> HIDE DEF r
      <3>2. /\ DOMAIN r = 1..Len(r) /\ Len(r) \in Nat \ {0} /\ Head(r) = r[1]
            /\ Tail(r) \in Seq(Items) /\ DOMAIN Tail(r) = 1..Len(r) - 1
            /\ \A n \in 1..Len(r) - 1 : Tail(r)[n] = r[n + 1]
        BY <3>1
      <3>3. QED
        BY <3>1, <3>2 DEF Elements
    <2>4. HostOf[k] = h /\ k \in Items
      BY <1>3, <2>2, <2>3 DEF Hold, AtHome
    <2>5. q \in [Hosts -> Seq(Items)] /\ \A g \in Hosts : q[g] = IF g = h THEN Tail(r) ELSE parked[g]
      BY <1>3, <2>3
    <2> HIDE DEF t, b, q, r
    <2>6. AwaitedBut(q, t, w, HostOf[k])
      BY <1>7, <2>4, <2>5 DEF AwaitedBut
    <2>7. \A g \in Hosts : \A l \in Elements(q[g]) : HostOf[l] = g
      BY <2>3, <2>5 DEF Hold, AtHome, r
    <2>8. \A v \in Workers : \A l, m \in t[v].item : l = m
      BY <1>5 DEF Hold, OneInHand
    <2>9. Slots'
      BY <1>5, <1>6, <2>1, <2>4, EnterSlots
    <2>10. Awaited(parked', task')
      BY <1>5, <1>6, <2>1, <2>4, <2>5, <2>6, EnterComers
    <2>11. AtHome' /\ OneInHand'
      BY <1>5, <2>1, <2>4, <2>5, <2>7, <2>8, EnterHome
    <2>12. QED
      BY <1>2, <2>9, <2>10, <2>11 DEF Hold, Quiet, Comers
  <1>10. QED
    BY <1>8, <1>9

\* The run starts with nobody at work, and ends or is torn down with everybody gone.
LEMMA RunSteps ==
    ASSUME PTypeOK, Hold, Start \/ End \/ \E r \in Stops : TearDown(r)
    PROVE  Hold'
  <1> USE TypeParts
  <1>1. CASE Start
    <2>1. \A w \in Workers : At(w, "left")
      BY <1>1 DEF Start, Over, Hold, Quiet, Running
    <2>2. \A w \in Workers : \A h \in Hosts : ~Occupies(task[w], h) /\ ~Occupies(task'[w], h)
      BY <1>1, <2>1 DEF Start, At, Occupies, Holding, Idle
    <2>3. \A h \in Hosts : HoldersIn(task, h) = {} /\ HoldersIn(task', h) = {}
      BY <2>2 DEF HoldersIn
    <2>4. Slots'
      BY <1>1, <2>3 DEF Start, Slots, Hold, hosts
    <2>5. Running' /\ \A h \in Hosts : parked'[h] = <<>>
      BY <1>1 DEF Start, Running
    <2>6. AtHome' /\ Comers' /\ Quiet'
      BY <2>5 DEF AtHome, Comers, Awaited, Quiet, Elements
    <2>7. OneInHand'
      BY <1>1 DEF Start, OneInHand, Idle
    <2>8. QED
      BY <2>4, <2>6, <2>7 DEF Hold
  <1>2. CASE End
    <2>1. ~Running' /\ UNCHANGED <<task, busy, parked>> /\ \A w \in Workers : At(w, "left")
      BY <1>2 DEF End, Running, hosts
    <2>2. QED
      BY <2>1 DEF Hold, OneInHand, Quiet, Slots, AtHome, Comers, At
  <1>3. CASE \E r \in Stops : TearDown(r)
    <2>1. /\ ~Running' /\ UNCHANGED parked
          /\ task' = [w \in Workers |-> [task[w] EXCEPT !.at = "left"]]
          /\ busy' = [h \in Hosts |-> 0]
      BY <1>3 DEF TearDown, Running
    <2>2. \A w \in Workers : task'[w].at = "left" /\ task'[w].item = task[w].item
      BY <2>1 DEF TaskOK, Tasks
    <2>3. Quiet' /\ OneInHand' /\ AtHome' /\ Comers'
      BY <2>1, <2>2 DEF Hold, Quiet, At, OneInHand, AtHome, Comers
    <2>4. \A h \in Hosts : HoldersIn(task', h) = {}
      BY <2>2 DEF HoldersIn, Occupies, Holding
    <2>5. \A h \in Hosts : Cardinality(HoldersIn(task', h)) = 0
      BY <2>4, FS_EmptySet, Zenon
    <2>6. Slots'
      BY <2>1, <2>5, SizesAssumption DEF Slots
    <2>7. QED
      BY <2>3, <2>6 DEF Hold
  <1>4. QED
    BY <1>1, <1>2, <1>3

LEMMA InvHolds == PSpec => []PInv
  <1>1. PInit => Hold
    <2> SUFFICES ASSUME PInit PROVE Hold
      OBVIOUS
    <2>1. \A w \in Workers : task[w].at = "left" /\ task[w].item = {}
      BY DEF PInit, Idle
    <2>2. \A h \in Hosts : HoldersIn(task, h) = {}
      BY <2>1 DEF HoldersIn, Occupies, Holding
    <2>3. \A h \in Hosts : Cardinality(HoldersIn(task, h)) = 0
      BY <2>2, FS_EmptySet, Zenon
    <2>4. Slots
      BY <2>3, SizesAssumption DEF PInit, Slots
    <2>5. ~Running /\ \A h \in Hosts : parked[h] = <<>>
      BY DEF PInit, Running
    <2>6. QED
      BY <2>1, <2>4, <2>5 DEF Hold, OneInHand, Quiet, At, AtHome, Comers, Elements
  <1>2. PTypeOK /\ Hold /\ [PNext]_vars => Hold'
    <2> SUFFICES ASSUME PTypeOK, Hold, [PNext]_vars PROVE Hold'
      OBVIOUS
    <2>1. CASE UNCHANGED vars \/ Feeder \/ (\E h \in Hosts : Elapse(h)) \/ (\E r \in Stops : Control(r)) \/ Rest
      <3>1. UNCHANGED <<phase, task, busy, parked>>
        BY <2>1 DEF vars, life, hosts, Feeder, ReadItem, PutOffered, GiveUpOffer, CloseFeed,
                    Elapse, Control, Rest
      <3>2. QED
        BY <3>1, NothingMoves
    <2>2. CASE \E w \in Workers : Worker(w)
      BY <2>2, EasySteps, ArriveStep, AskStep, FreeStep DEF Worker
    <2>3. CASE Start \/ End \/ \E r \in Stops : TearDown(r)
      BY <2>3, RunSteps
    <2>4. QED
      BY <2>1, <2>2, <2>3 DEF PNext
  <1>3. QED
    BY <1>1, <1>2, PTypeCorrect, PTL DEF PSpec, PInv

\* HostLimiter: the slots in use are the workers that hold the host, and there
\* are at most max_per_host of them.
THEOREM SlotsAreHolders == PSpec => []HostSlots
  <1>1. PInv => HostSlots
    <2>1. \A h \in Hosts : {w \in Workers : Holds(w, h)} = HoldersIn(task, h)
      BY DEF HoldersIn, Occupies, Holds, OnHost
    <2>2. QED
      BY <2>1 DEF PInv, Hold, Slots, HostSlots
  <1>2. QED
    BY <1>1, InvHolds, PTL

\* "a parked item always has a worker that comes back for it" (Pipeline._worker).
THEOREM ParkedHaveWorker == PSpec => []ParkedComesBack
  <1>1. PInv => ParkedComesBack
    <2>1. \A w \in Workers : \A h \in Hosts :
            Comes(task[w], h) => OnHost(w, h) /\ (Holds(w, h) \/ At(w, "asking") \/ At(w, "asleep"))
      BY DEF Comes, OnHost, Holds, At
    <2>2. QED
      BY <2>1 DEF PInv, Hold, Comers, Awaited, ParkedComesBack
  <1>2. QED
    BY <1>1, InvHolds, PTL

-----------------------------------------------------------------------------
(* Counting the places of an item: queue, parked, in the hand of a worker *)

Occ(s, i) == Cardinality({n \in DOMAIN s : s[n] = i})

\* How many workers but w have i in hand.
HandsBut(t, w, i) == Cardinality({v \in Workers \ {w} : i \in t[v].item})

Hands(t, i) == Cardinality({v \in Workers : i \in t[v].item})

LEMMA OccFinite ==
    ASSUME NEW s \in Seq(Items), NEW i
    PROVE  IsFiniteSet({n \in DOMAIN s : s[n] = i}) /\ Occ(s, i) \in Nat
  <1>1. DOMAIN s = 1..Len(s) /\ Len(s) \in Int /\ 1 \in Int
    OBVIOUS
  <1>2. IsFiniteSet(DOMAIN s)
    BY <1>1, FS_Interval
  <1>3. {n \in DOMAIN s : s[n] = i} \in SUBSET DOMAIN s
    OBVIOUS
  <1>4. IsFiniteSet({n \in DOMAIN s : s[n] = i})
    BY <1>2, <1>3, FS_Subset
  <1>5. QED
    BY <1>4, FS_CardinalityType DEF Occ

LEMMA OccEmpty ==
    ASSUME NEW i
    PROVE  Occ(<<>>, i) = 0
  <1>1. {n \in DOMAIN <<>> : <<>>[n] = i} = {}
    OBVIOUS
  <1>2. QED
    BY <1>1, FS_EmptySet DEF Occ

LEMMA OccPositive ==
    ASSUME NEW s \in Seq(Items), NEW i
    PROVE  Occ(s, i) > 0 <=> i \in Elements(s)
  <1> DEFINE D == {n \in DOMAIN s : s[n] = i}
  <1>1. IsFiniteSet(D) /\ Occ(s, i) \in Nat /\ Occ(s, i) = Cardinality(D)
    BY OccFinite DEF Occ
  <1>2. D = {} <=> i \notin Elements(s)
    BY DEF Elements
  <1> HIDE DEF D
  <1>3. Cardinality(D) = 0 <=> D = {}
    BY <1>1, FS_EmptySet
  <1>4. QED
    BY <1>1, <1>2, <1>3

\* Appended once, an item is there once more.
LEMMA OccAppend ==
    ASSUME NEW s \in Seq(Items), NEW j \in Items, NEW i
    PROVE  Occ(Append(s, j), i) = Occ(s, i) + IF i = j THEN 1 ELSE 0
  <1> DEFINE D == {n \in DOMAIN s : s[n] = i}
             E == {n \in DOMAIN Append(s, j) : Append(s, j)[n] = i}
             m == Len(s) + 1
  <1>1. /\ DOMAIN s = 1..Len(s) /\ DOMAIN Append(s, j) = 1..m /\ Len(s) \in Nat
        /\ \A n \in 1..m : Append(s, j)[n] = IF n = m THEN j ELSE s[n]
    OBVIOUS
  <1>2. m \notin D /\ E = IF i = j THEN D \cup {m} ELSE D
    BY <1>1
  <1>3. IsFiniteSet(D) /\ Cardinality(D) \in Nat
    BY OccFinite DEF Occ
  <1> HIDE DEF D, E, m
  <1>4. Cardinality(D \cup {m}) = Cardinality(D) + 1
    BY <1>2, <1>3, FS_AddElement
  <1>5. Cardinality(E) = Cardinality(D) + IF i = j THEN 1 ELSE 0
    BY <1>2, <1>3, <1>4
  <1>6. QED
    BY <1>5 DEF Occ, D, E

\* The head taken away, it is there once less.
LEMMA OccTail ==
    ASSUME NEW s \in Seq(Items), s # <<>>, NEW i
    PROVE  Occ(s, i) = Occ(Tail(s), i) + IF i = Head(s) THEN 1 ELSE 0
  <1> DEFINE D == {n \in DOMAIN s : s[n] = i}
             E == {n \in DOMAIN Tail(s) : Tail(s)[n] = i}
             F == D \ {1}
             f == [n \in E |-> n + 1]
  <1>1. /\ DOMAIN s = 1..Len(s) /\ Len(s) \in Nat \ {0} /\ Head(s) = s[1]
        /\ Tail(s) \in Seq(Items) /\ DOMAIN Tail(s) = 1..Len(s) - 1
        /\ \A n \in 1..Len(s) - 1 : Tail(s)[n] = s[n + 1]
    OBVIOUS
  <1>2. f \in Bijection(E, F)
    <2>1. \A n \in E : n + 1 \in F
      BY <1>1
    <2>2. \A m \in F : m - 1 \in E /\ f[m - 1] = m
      <3> SUFFICES ASSUME NEW m \in F PROVE m - 1 \in E /\ f[m - 1] = m
        OBVIOUS
      <3>1. m \in 2..Len(s) /\ s[m] = i
        BY <1>1
      <3>2. m - 1 \in 1..Len(s) - 1 /\ Tail(s)[m - 1] = s[(m - 1) + 1] /\ (m - 1) + 1 = m
        BY <1>1, <3>1
      <3>3. QED
        BY <1>1, <3>1, <3>2
    <2>3. \A a, b \in E : f[a] = f[b] => a = b
      BY <1>1
    <2>4. QED
      BY <2>1, <2>2, <2>3 DEF Bijection, Injection, Surjection, IsInjective
  <1>3. /\ IsFiniteSet(E) /\ Cardinality(E) \in Nat
        /\ IsFiniteSet(D) /\ Cardinality(D) \in Nat
    BY <1>1, OccFinite DEF Occ
  <1>4. 1 \in D <=> i = Head(s)
    BY <1>1
  <1> HIDE DEF D, E, f
  <1>5. Cardinality(F) = Cardinality(E)
    BY <1>2, <1>3, FS_Bijection DEF ExistsBijection
  <1>6. Cardinality(F) = IF 1 \in D THEN Cardinality(D) - 1 ELSE Cardinality(D)
    BY <1>3, FS_RemoveElement
  <1>7. Cardinality(D) = Cardinality(E) + IF i = Head(s) THEN 1 ELSE 0
    BY <1>3, <1>4, <1>5, <1>6
  <1>8. QED
    BY <1>7 DEF Occ, D, E

LEMMA HandsCounted ==
    ASSUME NEW t, NEW w \in Workers, NEW i
    PROVE  /\ HandsBut(t, w, i) \in Nat /\ Hands(t, i) \in Nat
           /\ Hands(t, i) = HandsBut(t, w, i) + IF i \in t[w].item THEN 1 ELSE 0
  <1> DEFINE H == {v \in Workers : i \in t[v].item}
             B == {v \in Workers \ {w} : i \in t[v].item}
  <1>1. H \in SUBSET Workers /\ B = H \ {w} /\ (w \in H <=> i \in t[w].item)
    OBVIOUS
  <1>2. IsFiniteSet(H)
    BY <1>1, SizesAssumption, FS_Subset
  <1>3. Hands(t, i) = Cardinality(H) /\ HandsBut(t, w, i) = Cardinality(B)
    BY DEF Hands, HandsBut
  <1> HIDE DEF H, B
  <1>4. /\ IsFiniteSet(B)
        /\ Cardinality(B) = IF w \in H THEN Cardinality(H) - 1 ELSE Cardinality(H)
    BY <1>1, <1>2, FS_RemoveElement
  <1>5. Cardinality(H) \in Nat /\ Cardinality(B) \in Nat
    BY <1>2, <1>4, FS_CardinalityType
  <1>6. QED
    BY <1>1, <1>3, <1>4, <1>5

\* Who but w has i in hand is told by the tasks of the others.
LEMMA SameHands ==
    ASSUME NEW t, NEW u, NEW w, NEW i,
           \A v \in Workers \ {w} : t[v].item = u[v].item
    PROVE  HandsBut(u, w, i) = HandsBut(t, w, i)
  <1>1. {v \in Workers \ {w} : i \in t[v].item} = {v \in Workers \ {w} : i \in u[v].item}
    OBVIOUS
  <1>2. QED
    BY <1>1 DEF HandsBut

LEMMA HandsPositive ==
    ASSUME NEW t, NEW w, NEW i
    PROVE  HandsBut(t, w, i) \in Nat /\
           (HandsBut(t, w, i) > 0 <=> \E v \in Workers \ {w} : i \in t[v].item)
  <1> DEFINE B == {v \in Workers \ {w} : i \in t[v].item}
  <1>1. B \in SUBSET Workers
    OBVIOUS
  <1>2. B # {} <=> \E v \in Workers \ {w} : i \in t[v].item
    OBVIOUS
  <1> HIDE DEF B
  <1>3. IsFiniteSet(B)
    BY <1>1, SizesAssumption, FS_Subset
  <1>4. Cardinality(B) \in Nat /\ (Cardinality(B) = 0 <=> B = {})
    BY <1>3, FS_CardinalityType, FS_EmptySet
  <1>5. HandsBut(t, w, i) = Cardinality(B)
    BY DEF HandsBut, B
  <1>6. QED
    BY <1>2, <1>4, <1>5

-----------------------------------------------------------------------------
(* Every open item is in one place *)

\* A worker at one of these steps has an item that is still to be decided.
Before == {"taken", "asking", "asleep", "measuring"}

\* Admitted, and neither decided nor recorded nor left by a run that was torn down.
Open == {i \in admitted \ (finished \cup adrift) : recorded[i] = 0}

\* The places of an item: the queue q, parked in p, the hands t of all workers
\* but w, and x in the hand of w.
Tally(q, p, t, w, x, i) ==
    Occ(q, i) + Occ(p[HostOf[i]], i) + HandsBut(t, w, i) + IF i \in x THEN 1 ELSE 0

\* Each item has a place at most, one if it is in o; items in the queue, parked
\* or about to be measured are in o, and what has a place is not in r.
Fits(q, p, t, w, x, o, r) ==
    \A i \in Items :
        /\ Tally(q, p, t, w, x, i) <= 1
        /\ Tally(q, p, t, w, x, i) > 0 => i \notin r
        /\ i \in o => Tally(q, p, t, w, x, i) = 1
        /\ i \in Elements(q) \cup Elements(p[HostOf[i]]) => i \in o
        /\ \A v \in Workers \ {w} : i \in t[v].item => (i \in o <=> t[v].at \in Before)

Parked == [Hosts -> Seq(Items)]

\* What is counted, and when it is positive.
LEMMA CountsOf ==
    ASSUME NEW q \in Seq(Items), NEW p \in Parked, NEW t, NEW w, NEW i \in Items
    PROVE  /\ Occ(q, i) \in Nat /\ Occ(p[HostOf[i]], i) \in Nat /\ HandsBut(t, w, i) \in Nat
           /\ Occ(q, i) > 0 <=> i \in Elements(q)
           /\ Occ(p[HostOf[i]], i) > 0 <=> i \in Elements(p[HostOf[i]])
           /\ HandsBut(t, w, i) > 0 <=> \E v \in Workers \ {w} : i \in t[v].item
  <1>1. p[HostOf[i]] \in Seq(Items)
    BY ItemsAssumption DEF Parked
  <1>2. QED
    BY <1>1, OccFinite, OccPositive, HandsPositive

LEMMA HeadThere ==
    ASSUME NEW s \in Seq(Items), s # <<>>
    PROVE  Head(s) \in Elements(s)
  <1>1. 1 \in DOMAIN s /\ Head(s) = s[1]
    OBVIOUS
  <1>2. QED
    BY <1>1 DEF Elements

\* Others may be told that a host is free.
LEMMA FitsTold ==
    ASSUME NEW q, NEW p, NEW t, NEW u, NEW w, NEW x, NEW o, NEW r, Fits(q, p, t, w, x, o, r),
           \A v \in Workers \ {w} :
              u[v].item = t[v].item /\ (u[v].at \in Before <=> t[v].at \in Before)
    PROVE  Fits(q, p, u, w, x, o, r)
  <1>1. \A i : HandsBut(u, w, i) = HandsBut(t, w, i)
    BY SameHands
  <1>2. \A i \in Items : Tally(q, p, u, w, x, i) = Tally(q, p, t, w, x, i)
    BY <1>1 DEF Tally
  <1>3. QED
    BY <1>2 DEF Fits

\* w takes the head of the queue.
LEMMA FitsTaken ==
    ASSUME NEW q \in Seq(Items), q # <<>>, NEW p \in Parked, NEW t, NEW w, NEW o, NEW r,
           Fits(q, p, t, w, {}, o, r)
    PROVE  Fits(Tail(q), p, t, w, {Head(q)}, o, r) /\ Head(q) \in o /\ Head(q) \in Items
  <1>1. Tail(q) \in Seq(Items) /\ Head(q) \in Items
    OBVIOUS
  <1>2. Head(q) \in Elements(q)
    BY HeadThere
  <1>3. Head(q) \in o
    BY <1>1, <1>2 DEF Fits
  <1> SUFFICES ASSUME NEW i \in Items
               PROVE  /\ Tally(Tail(q), p, t, w, {Head(q)}, i) = Tally(q, p, t, w, {}, i)
                      /\ i \in Elements(Tail(q)) => i \in Elements(q)
    BY <1>1, <1>3 DEF Fits
  <1>4. Occ(q, i) = Occ(Tail(q), i) + IF i = Head(q) THEN 1 ELSE 0
    BY OccTail
  <1>5. /\ Occ(Tail(q), i) \in Nat /\ (Occ(Tail(q), i) > 0 <=> i \in Elements(Tail(q)))
        /\ Occ(q, i) > 0 <=> i \in Elements(q)
    BY <1>1, OccFinite, OccPositive
  <1>6. Occ(p[HostOf[i]], i) \in Nat /\ HandsBut(t, w, i) \in Nat
    BY CountsOf
  <1>7. QED
    BY <1>4, <1>5, <1>6 DEF Tally

\* w lets go of what is not open.
LEMMA FitsDropped ==
    ASSUME NEW q \in Seq(Items), NEW p \in Parked, NEW t, NEW w, NEW x, NEW o, NEW r,
           Fits(q, p, t, w, x, o, r), x \cap o = {}
    PROVE  Fits(q, p, t, w, {}, o, r)
  <1> SUFFICES ASSUME NEW i \in Items
               PROVE  /\ Tally(q, p, t, w, {}, i) <= Tally(q, p, t, w, x, i)
                      /\ i \in o => Tally(q, p, t, w, {}, i) = Tally(q, p, t, w, x, i)
                      /\ Tally(q, p, t, w, {}, i) \in Nat /\ Tally(q, p, t, w, x, i) \in Nat
    BY DEF Fits
  <1>1. Occ(q, i) \in Nat /\ Occ(p[HostOf[i]], i) \in Nat /\ HandsBut(t, w, i) \in Nat
    BY CountsOf
  <1>2. QED
    BY <1>1 DEF Tally

\* What w has in hand is decided.
LEMMA FitsDecided ==
    ASSUME NEW q \in Seq(Items), NEW p \in Parked, NEW t, NEW w, NEW j \in Items, NEW o, NEW r,
           Fits(q, p, t, w, {j}, o, r)
    PROVE  Fits(q, p, t, w, {j}, o \ {j}, r)
  <1>1. /\ j \notin Elements(q) \cup Elements(p[HostOf[j]])
        /\ \A v \in Workers \ {w} : j \notin t[v].item
    <2>1. Tally(q, p, t, w, {j}, j) <= 1
      BY DEF Fits
    <2>2. QED
      BY <2>1, CountsOf DEF Tally
  <1>2. QED
    BY <1>1 DEF Fits

\* w parks its item.
LEMMA FitsParked ==
    ASSUME NEW q \in Seq(Items), NEW p \in Parked, NEW t, NEW w, NEW j \in Items, NEW o, NEW r,
           Fits(q, p, t, w, {j}, o, r), j \in o
    PROVE  Fits(q, [p EXCEPT ![HostOf[j]] = Append(@, j)], t, w, {}, o, r)
  <1> DEFINE h == HostOf[j]
             s == p[h]
             n == [p EXCEPT ![h] = Append(@, j)]
  <1>1. h \in Hosts /\ s \in Seq(Items) /\ n \in Parked
    BY ItemsAssumption DEF Parked
  <1> SUFFICES ASSUME NEW i \in Items
               PROVE  /\ Tally(q, n, t, w, {}, i) = Tally(q, p, t, w, {j}, i)
                      /\ i \in Elements(n[HostOf[i]]) => i \in Elements(p[HostOf[i]]) \/ i = j
    BY DEF Fits
  <1>2. n[HostOf[i]] = IF HostOf[i] = h THEN Append(s, j) ELSE p[HostOf[i]]
    BY ItemsAssumption DEF Parked
  <1>3. Append(s, j) \in Seq(Items)
    BY <1>1
  <1> HIDE DEF n
  <1>4. Occ(n[HostOf[i]], i) = Occ(p[HostOf[i]], i) + IF i = j THEN 1 ELSE 0
    <2>1. Occ(Append(s, j), i) = Occ(s, i) + IF i = j THEN 1 ELSE 0
      BY <1>1, OccAppend
    <2>2. Occ(p[HostOf[i]], i) \in Nat
      BY CountsOf
    <2>3. QED
      BY <1>2, <2>1, <2>2
  <1>5. /\ Occ(q, i) \in Nat /\ Occ(p[HostOf[i]], i) \in Nat /\ HandsBut(t, w, i) \in Nat
        /\ Occ(p[HostOf[i]], i) > 0 <=> i \in Elements(p[HostOf[i]])
        /\ Occ(n[HostOf[i]], i) > 0 <=> i \in Elements(n[HostOf[i]])
    BY <1>1, CountsOf
  <1>6. QED
    BY <1>4, <1>5 DEF Tally

\* w, with nothing in hand, takes the first item that is parked on h.
LEMMA FitsUnparked ==
    ASSUME NEW q \in Seq(Items), NEW p \in Parked, NEW t, NEW w, NEW h \in Hosts, NEW o, NEW r,
           Fits(q, p, t, w, {}, o, r), p[h] # <<>>, HostOf[Head(p[h])] = h
    PROVE  /\ Fits(q, [p EXCEPT ![h] = Tail(@)], t, w, {Head(p[h])}, o, r)
           /\ Head(p[h]) \in o
  <1> DEFINE s == p[h]
             j == Head(s)
             n == [p EXCEPT ![h] = Tail(@)]
  <1>1. s \in Seq(Items) /\ s # <<>> /\ j \in Items /\ Tail(s) \in Seq(Items) /\ n \in Parked
    <2>1. s \in Seq(Items) /\ s # <<>>
      BY DEF Parked
    <2>2. Head(s) \in Items /\ Tail(s) \in Seq(Items)
      BY <2>1
    <2>3. n \in Parked
      BY <2>2 DEF Parked
    <2>4. QED
      BY <2>1, <2>2, <2>3
  <1>2. j \in Elements(s)
    BY <1>1, HeadThere
  <1>3. j \in o
    BY <1>1, <1>2 DEF Fits
  <1> SUFFICES ASSUME NEW i \in Items
               PROVE  /\ Tally(q, n, t, w, {j}, i) = Tally(q, p, t, w, {}, i)
                      /\ i \in Elements(n[HostOf[i]]) => i \in Elements(p[HostOf[i]])
    BY <1>3 DEF Fits
  <1>4. n[HostOf[i]] = IF HostOf[i] = h THEN Tail(s) ELSE p[HostOf[i]]
    BY ItemsAssumption DEF Parked
  <1> HIDE DEF n
  <1>5. Occ(p[HostOf[i]], i) = Occ(n[HostOf[i]], i) + IF i = j THEN 1 ELSE 0
    <2>1. Occ(s, i) = Occ(Tail(s), i) + IF i = j THEN 1 ELSE 0
      BY <1>1, OccTail
    <2>2. Occ(n[HostOf[i]], i) \in Nat
      BY <1>1, CountsOf
    <2>3. QED
      BY <1>4, <2>1, <2>2
  <1>6. /\ Occ(q, i) \in Nat /\ HandsBut(t, w, i) \in Nat
        /\ Occ(n[HostOf[i]], i) \in Nat
        /\ Occ(p[HostOf[i]], i) > 0 <=> i \in Elements(p[HostOf[i]])
        /\ Occ(n[HostOf[i]], i) > 0 <=> i \in Elements(n[HostOf[i]])
    BY <1>1, CountsOf
  <1>7. QED
    BY <1>5, <1>6 DEF Tally

\* w gives its item back, and what is parked on its host.
LEMMA FitsGivenBack ==
    ASSUME NEW q \in Seq(Items), NEW p \in Parked, NEW t, NEW w, NEW j \in Items, NEW o, NEW r,
           Fits(q, p, t, w, {j}, o, r), \A k \in Elements(p[HostOf[j]]) : HostOf[k] = HostOf[j]
    PROVE  Fits(q, [p EXCEPT ![HostOf[j]] = <<>>], t, w, {},
                o \ ({j} \cup Elements(p[HostOf[j]])), r)
  <1> DEFINE h == HostOf[j]
             s == p[h]
             n == [p EXCEPT ![h] = <<>>]
             g == {j} \cup Elements(s)
  <1>1. h \in Hosts /\ s \in Seq(Items) /\ n \in Parked
    BY ItemsAssumption DEF Parked
  <1> SUFFICES ASSUME NEW i \in Items
               PROVE  /\ Tally(q, n, t, w, {}, i) <= 1
                      /\ Tally(q, n, t, w, {}, i) > 0 => i \notin r
                      /\ i \in o \ g => Tally(q, n, t, w, {}, i) = 1
                      /\ i \in Elements(q) \cup Elements(n[HostOf[i]]) => i \in o \ g
                      /\ \A v \in Workers \ {w} : i \in t[v].item => (i \in o \ g <=> t[v].at \in Before)
    BY DEF Fits
  <1>2. n[HostOf[i]] = IF HostOf[i] = h THEN <<>> ELSE p[HostOf[i]]
    BY ItemsAssumption DEF Parked
  <1> HIDE DEF n
  <1>3. /\ Occ(q, i) \in Nat /\ Occ(p[HostOf[i]], i) \in Nat /\ HandsBut(t, w, i) \in Nat
        /\ Occ(q, i) > 0 <=> i \in Elements(q)
        /\ Occ(p[HostOf[i]], i) > 0 <=> i \in Elements(p[HostOf[i]])
        /\ HandsBut(t, w, i) > 0 <=> \E v \in Workers \ {w} : i \in t[v].item
    BY CountsOf
  <1>13. Occ(n[HostOf[i]], i) \in Nat /\ (Occ(n[HostOf[i]], i) > 0 <=> i \in Elements(n[HostOf[i]]))
    BY <1>1, CountsOf
  <1>4. Occ(<<>>, i) = 0
    BY OccEmpty
  <1>5. i \in g => HostOf[i] = h
    OBVIOUS
  <1>6. Occ(n[HostOf[i]], i) = IF HostOf[i] = h THEN 0 ELSE Occ(p[HostOf[i]], i)
    BY <1>2, <1>4
  <1>7. i \in g <=> i = j \/ (HostOf[i] = h /\ Occ(p[HostOf[i]], i) > 0)
    BY <1>3, <1>5
  <1>8. /\ Tally(q, p, t, w, {j}, i) =
             Occ(q, i) + Occ(p[HostOf[i]], i) + HandsBut(t, w, i) + IF i = j THEN 1 ELSE 0
        /\ Tally(q, n, t, w, {}, i) = Occ(q, i) + Occ(n[HostOf[i]], i) + HandsBut(t, w, i)
    BY <1>3, <1>13 DEF Tally
  <1>9. /\ Tally(q, p, t, w, {j}, i) <= 1
        /\ Tally(q, p, t, w, {j}, i) > 0 => i \notin r
        /\ i \in o => Tally(q, p, t, w, {j}, i) = 1
        /\ i \in Elements(q) \cup Elements(p[HostOf[i]]) => i \in o
        /\ \A v \in Workers \ {w} : i \in t[v].item => (i \in o <=> t[v].at \in Before)
    BY DEF Fits
  <1> HIDE DEF g, h, s
  <1>10. CASE i \in g
    <2>1. Occ(q, i) = 0 /\ HandsBut(t, w, i) = 0
      BY <1>3, <1>7, <1>8, <1>9, <1>10
    <2>2. Occ(n[HostOf[i]], i) = 0
      BY <1>5, <1>6, <1>10
    <2>3. QED
      BY <1>3, <1>13, <1>8, <1>9, <1>10, <2>1, <2>2
  <1>11. CASE i \notin g
    <2>1. Occ(n[HostOf[i]], i) = Occ(p[HostOf[i]], i) /\ i # j
      BY <1>3, <1>6, <1>7, <1>11
    <2>2. Tally(q, n, t, w, {}, i) = Tally(q, p, t, w, {j}, i)
      BY <1>3, <1>8, <2>1
    <2>3. QED
      BY <1>3, <1>13, <1>9, <1>11, <2>1, <2>2
  <1>12. QED
    BY <1>10, <1>11

-----------------------------------------------------------------------------
(* The ledger, and where its items are *)

\* The ledger agrees with itself and with what was recorded.
Agrees ==
    /\ finished \subseteq admitted /\ adrift \subseteq admitted
    /\ \A i \in Items : recorded[i] \in {0, 1} /\ (recorded[i] = 1 => i \in admitted)

InPlace ==
    Running => \A w \in Workers :
        Fits(queue, parked, task, w, task[w].item, Open, unread \cup offer)

AtWork ==
    Running => \A w \in Workers : \A i \in task[w].item : i \in Open <=> task[w].at \in Before

\* What the feeder offers was not admitted, and has been read.
Offered ==
    Running => /\ offer \cap (admitted \cup unread) = {}
               /\ feeder # "offering" => offer = {}

\* Who has nothing to do has nothing in hand, and leaves when nothing is left.
Leaves(t) ==
    \A v \in Workers :
        /\ t[v].at \in {"idle", "left"} => t[v].item = {}
        /\ t[v].at = "left" => feeder = "done" /\ queue = <<>>

Leaving == Running => Leaves(task)

Settled == ~Running => Open = {}

Ledger == Agrees /\ InPlace /\ AtWork /\ Offered /\ Leaving /\ Settled

\* The tally is the same seen from any worker.
LEMMA SeenFromAny ==
    ASSUME NEW q \in Seq(Items), NEW p \in Parked, NEW t \in [Workers -> Tasks],
           NEW w \in Workers, NEW v \in Workers, NEW o, NEW r,
           Fits(q, p, t, w, t[w].item, o, r),
           \A i \in t[w].item : i \in o <=> t[w].at \in Before
    PROVE  Fits(q, p, t, v, t[v].item, o, r)
  <1>1. \A i \in Items : Tally(q, p, t, v, t[v].item, i) = Tally(q, p, t, w, t[w].item, i)
    <2> SUFFICES ASSUME NEW i \in Items
                 PROVE  Tally(q, p, t, v, t[v].item, i) = Tally(q, p, t, w, t[w].item, i)
      OBVIOUS
    <2>1. /\ HandsBut(t, w, i) \in Nat /\ Hands(t, i) \in Nat
          /\ Hands(t, i) = HandsBut(t, w, i) + IF i \in t[w].item THEN 1 ELSE 0
      BY HandsCounted
    <2>2. /\ HandsBut(t, v, i) \in Nat
          /\ Hands(t, i) = HandsBut(t, v, i) + IF i \in t[v].item THEN 1 ELSE 0
      BY HandsCounted
    <2>3. Occ(q, i) \in Nat /\ Occ(p[HostOf[i]], i) \in Nat
      BY CountsOf
    <2>4. QED
      BY <2>1, <2>2, <2>3 DEF Tally
  <1>2. QED
    BY <1>1 DEF Fits

\* w takes the task u, which fits what the others have.
LEMMA Closing ==
    ASSUME NEW t \in [Workers -> Tasks], NEW w \in Workers, NEW u \in Tasks,
           task' = [t EXCEPT ![w] = u], queue' \in Seq(Items), parked' \in Parked,
           Fits(queue', parked', t, w, u.item, Open', (unread \cup offer)'),
           \A i \in u.item : i \in Open' <=> u.at \in Before
    PROVE  InPlace' /\ AtWork'
  <1>1. /\ task' \in [Workers -> Tasks] /\ task'[w] = u
        /\ \A v \in Workers \ {w} : task'[v] = t[v]
    OBVIOUS
  <1>2. Fits(queue', parked', task', w, task'[w].item, Open', (unread \cup offer)')
    BY <1>1, FitsTold
  <1>3. \A v \in Workers :
          Fits(queue', parked', task', v, task'[v].item, Open', (unread \cup offer)')
    BY <1>1, <1>2, SeenFromAny
  <1>4. \A v \in Workers \ {w} : \A i \in task'[v].item :
          i \in Open' <=> task'[v].at \in Before
    <2>1. \A v \in Workers : task'[v].item \subseteq Items
      BY <1>1 DEF Tasks
    <2>2. QED
      BY <1>2, <2>1 DEF Fits
  <1>5. QED
    BY <1>1, <1>3, <1>4 DEF InPlace, AtWork

\* What w does with its open item i, with the parked items p and the tasks t of
\* the others, leaves every open item in one place.
LEMMA EnterLedger ==
    ASSUME NEW w \in Workers, NEW i \in Items, NEW b, NEW c, NEW p \in Parked,
           NEW t \in [Workers -> Tasks], Enter(w, i, b, c, p, t),
           LedgerOK, Agrees, UNCHANGED <<feed, queue, recorded>>, queue \in Seq(Items),
           Fits(queue, p, t, w, {i}, Open, unread \cup offer), i \in Open,
           \A h \in Hosts : \A k \in Elements(p[h]) : HostOf[k] = h
    PROVE  Agrees' /\ InPlace' /\ AtWork'
  <1> DEFINE h == HostOf[i]
             g == {i} \cup Elements(p[h])
             r == unread \cup offer
  <1>1. h \in Hosts /\ p[h] \in Seq(Items)
    BY ItemsAssumption DEF Parked
  <1>2. queue' = queue /\ recorded' = recorded /\ (unread \cup offer)' = r
    BY DEF feed
  <1>3. /\ Idle \in Tasks /\ Idle.item = {}
        /\ \A a \in Before : [at |-> a, item |-> {i}] \in Tasks
        /\ \A a : [at |-> a, item |-> {i}].item = {i} /\ [at |-> a, item |-> {i}].at = a
    BY DEF Idle, Tasks, WorkerSteps, Holding, Before
  <1>4. CASE Stopped
    <2>1. /\ GiveBack(g) /\ parked' = [p EXCEPT ![h] = <<>>]
          /\ task' = [t EXCEPT ![w] = Idle]
      BY <1>4 DEF Enter
    <2>2. g \subseteq Open
      <3>1. Elements(p[h]) \subseteq Items
        BY <1>1 DEF Elements
      <3>2. \A k \in Elements(p[h]) : HostOf[k] = h
        BY <1>1
      <3>3. QED
        BY <3>1, <3>2 DEF Fits
    <2>3. Open' = Open \ g
      BY <1>2, <2>1 DEF Open, GiveBack
    <2>4. Agrees'
      BY <1>2, <2>1, <2>2 DEF Agrees, GiveBack, Open
    <2>5. Fits(queue, parked', t, w, {}, Open', r)
      BY <1>1, <2>1, <2>3, FitsGivenBack
    <2>6. parked' \in Parked
      BY <1>1, <2>1 DEF Parked
    <2> HIDE DEF g, h, r
    <2>7. InPlace' /\ AtWork'
      BY <1>2, <1>3, <2>1, <2>5, <2>6, Closing
    <2>8. QED
      BY <2>4, <2>7
  <1>5. CASE ~Stopped
    <2>1. UNCHANGED ledger
      BY <1>5 DEF Enter
    <2>2. Open' = Open /\ Agrees'
      BY <1>2, <2>1 DEF Open, Agrees, ledger
    <2>3. ASSUME NEW a \in {"measuring", "asleep"}, parked' = p,
                 task' = [t EXCEPT ![w] = [at |-> a, item |-> {i}]]
          PROVE  InPlace' /\ AtWork'
      <3> DEFINE u == [at |-> a, item |-> {i}]
      <3>1. u \in Tasks /\ u.item = {i} /\ u.at \in Before
        BY <1>3 DEF Before
      <3> HIDE DEF u, r
      <3>2. Fits(queue', parked', t, w, u.item, Open', (unread \cup offer)')
        BY <1>2, <2>2, <2>3, <3>1 DEF r
      <3>3. QED
        BY <1>2, <2>2, <2>3, <3>1, <3>2, Closing DEF u
    <2>4. CASE parked' = [p EXCEPT ![h] = Append(@, i)] /\ task' = [t EXCEPT ![w] = Idle]
      <3>1. Fits(queue, parked', t, w, {}, Open', r)
        BY <2>2, <2>4, FitsParked
      <3>2. parked' \in Parked
        BY <1>1, <2>4 DEF Parked
      <3> HIDE DEF r, h
      <3>3. QED
        BY <1>2, <1>3, <2>2, <2>4, <3>1, <3>2, Closing
    <2>5. QED
      BY <1>5, <2>2, <2>3, <2>4 DEF Enter
  <1>6. QED
    BY <1>4, <1>5

-----------------------------------------------------------------------------
(* The steps of the workers keep the ledger *)

LEMMA Typed ==
    ASSUME PTypeOK
    PROVE  /\ queue \in Seq(Items) /\ parked \in Parked /\ task \in [Workers -> Tasks]
           /\ LedgerOK /\ offer \subseteq Items /\ unread \subseteq Items
           /\ recorded \in [Items -> Nat]
           /\ \A w \in Workers : task[w] \in Tasks /\ task[w].item \subseteq Items
  BY TypeParts DEF QueueOK, ParkedOK, Parked, TaskOK, FeedOK, OutcomeOK, Tasks

\* What is in the hand of a worker.
LEMMA InHandIs ==
    ASSUME PTypeOK, Hold, Ledger, Running, NEW w \in Workers
    PROVE  /\ Fits(queue, parked, task, w, task[w].item, Open, unread \cup offer)
           /\ \A i \in task[w].item : task[w].item = {i}
           /\ task[w].at \in Before => task[w].item \subseteq Open
           /\ task[w].at \notin Before => task[w].item \cap Open = {}
  <1>1. \A i \in task[w].item : task[w].item = {i}
    BY DEF Hold, OneInHand
  <1>2. QED
    BY <1>1 DEF Ledger, InPlace, AtWork

\* Nothing is admitted, and only w, which is idle or has something to do
\* afterwards, has a task of another kind: what the feeder offers and what the
\* others leave is as before.
LEMMA FeedKept ==
    ASSUME Ledger, Running, Running', UNCHANGED feed, admitted' \subseteq admitted,
           NEW w \in Workers, NEW t \in [Workers -> Tasks], NEW u, task' = [t EXCEPT ![w] = u],
           u.at \in {"idle", "left"} => u.item = {},
           u.at = "left" => feeder = "done" /\ queue' = <<>>,
           queue' = queue \/ queue # <<>>,
           \A v \in Workers : t[v].item = task[v].item /\
              \A a \in {"idle", "left"} : t[v].at = a <=> task[v].at = a
    PROVE  Offered' /\ Leaving' /\ Settled'
  <1>1. task'[w] = u /\ \A v \in Workers \ {w} : task'[v] = t[v]
    OBVIOUS
  <1>2. UNCHANGED <<feeder, offer, unread>>
    BY DEF feed
  <1>3. Offered'
    BY <1>2 DEF Ledger, Offered
  <1>4. Leaves(task)
    BY DEF Ledger, Leaving
  <1>5. Leaves(task)'
    BY <1>1, <1>2, <1>4 DEF Leaves
  <1>6. QED
    BY <1>3, <1>5 DEF Leaving, Settled

LEMMA TakeLedger ==
    ASSUME PTypeOK, Hold, Ledger, NEW w \in Workers, TakeItem(w)
    PROVE  Ledger'
  <1> USE Typed
  <1> DEFINE u == [at |-> "taken", item |-> {Head(queue)}]
  <1>1. /\ Running /\ Running' /\ queue # <<>> /\ task[w].at = "idle"
        /\ task' = [task EXCEPT ![w] = u] /\ queue' = Tail(queue)
        /\ UNCHANGED <<life, feed, parked, ledger, recorded>>
    BY DEF TakeItem, At, Running, life
  <1>2. task[w].item = {}
    BY <1>1 DEF Ledger, Leaving, Leaves
  <1>3. Open' = Open /\ (unread \cup offer)' = unread \cup offer /\ admitted' = admitted /\ Agrees'
    BY <1>1 DEF Open, feed, ledger, Agrees, Ledger
  <1>4. /\ Fits(Tail(queue), parked, task, w, {Head(queue)}, Open, unread \cup offer)
        /\ Head(queue) \in Open /\ Head(queue) \in Items
    <2>1. Fits(queue, parked, task, w, {}, Open, unread \cup offer)
      BY <1>1, <1>2, InHandIs
    <2>2. QED
      BY <1>1, <2>1, FitsTaken
  <1>5. u \in Tasks /\ u.item = {Head(queue)} /\ u.at = "taken" /\ u.at \in Before
    BY <1>4 DEF Tasks, WorkerSteps, Before
  <1>6. Tail(queue) \in Seq(Items)
    BY <1>1
  <1> HIDE DEF u
  <1>7. InPlace' /\ AtWork'
    BY <1>1, <1>3, <1>4, <1>5, <1>6, Closing
  <1>8. Offered' /\ Leaving' /\ Settled'
    BY <1>1, <1>3, <1>5, FeedKept
  <1>9. QED
    BY <1>3, <1>7, <1>8 DEF Ledger

\* w goes on with what it has in hand, or with nothing left to do.
LEMMA GoesOnLedger ==
    ASSUME PTypeOK, Hold, Ledger, Running, NEW w \in Workers, NEW a \in WorkerSteps,
           task' = [task EXCEPT ![w].at = a], a \in Before <=> task[w].at \in Before,
           a \in {"idle", "left"} => task[w].item = {},
           a = "left" => feeder = "done" /\ queue = <<>>,
           UNCHANGED <<life, feed, queue, parked, ledger, recorded>>
    PROVE  Ledger'
  <1> USE Typed
  <1> DEFINE u == [task[w] EXCEPT !.at = a]
  <1>1. /\ task' = [task EXCEPT ![w] = u] /\ u.at = a /\ u.item = task[w].item /\ u \in Tasks
    BY DEF Tasks
  <1>2. /\ Open' = Open /\ (unread \cup offer)' = unread \cup offer /\ admitted' = admitted
        /\ Agrees' /\ Running'
    BY DEF Open, feed, ledger, Agrees, Ledger, Running, life
  <1>3. /\ Fits(queue, parked, task, w, u.item, Open, unread \cup offer)
        /\ \A i \in u.item : i \in Open <=> u.at \in Before
    BY <1>1, InHandIs
  <1> HIDE DEF u
  <1>4. InPlace' /\ AtWork'
    BY <1>1, <1>2, <1>3, Closing
  <1>5. Offered' /\ Leaving' /\ Settled'
    <2>1. UNCHANGED feed /\ queue' = queue /\ admitted' \subseteq admitted
      BY <1>2
    <2>2. /\ u.at \in {"idle", "left"} => u.item = {}
          /\ u.at = "left" => feeder = "done" /\ queue' = <<>>
      BY <1>1, <2>1
    <2>3. QED
      BY <1>1, <1>2, <2>1, <2>2, FeedKept
  <1>6. QED
    BY <1>2, <1>4, <1>5 DEF Ledger

\* What w has in hand is decided, or given back.
LEMMA DecidesLedger ==
    ASSUME PTypeOK, Hold, Ledger, Running, NEW w \in Workers, NEW a \in {"emitting", "releasing"},
           task' = [task EXCEPT ![w].at = a], task[w].at \in Before, NEW i \in task[w].item,
           UNCHANGED <<life, feed, queue, parked>>, admitted' \subseteq admitted,
           Agrees', Open' = Open \ {i}
    PROVE  Ledger'
  <1> USE Typed
  <1> DEFINE u == [task[w] EXCEPT !.at = a]
  <1>1. /\ task' = [task EXCEPT ![w] = u] /\ u.at = a /\ u.item = {i} /\ u \in Tasks /\ i \in Items
    BY InHandIs DEF Tasks, WorkerSteps, Holding
  <1>2. (unread \cup offer)' = unread \cup offer /\ Running'
    BY DEF feed, Running, life
  <1>3. Fits(queue, parked, task, w, {i}, Open, unread \cup offer)
    BY InHandIs
  <1>4. Fits(queue, parked, task, w, {i}, Open', unread \cup offer)
    BY <1>1, <1>3, FitsDecided
  <1>9. u.at \notin Before /\ \A j \in u.item : j \in Open' <=> u.at \in Before
    BY <1>1 DEF Before
  <1> HIDE DEF u
  <1>5. InPlace' /\ AtWork'
    BY <1>1, <1>2, <1>4, <1>9, Closing
  <1>6. Offered' /\ Leaving' /\ Settled'
    BY <1>1, <1>2, FeedKept
  <1>7. QED
    BY <1>5, <1>6 DEF Ledger

LEMMA LeaveLedger ==
    ASSUME PTypeOK, Hold, Ledger, NEW w \in Workers, LeaveWork(w) \/ Emitted(w)
    PROVE  Ledger'
  <1>1. CASE LeaveWork(w)
    <2>1. /\ Running /\ task[w].at = "idle" /\ queue = <<>> /\ feeder = "done"
          /\ task' = [task EXCEPT ![w].at = "left"]
          /\ UNCHANGED <<life, feed, queue, parked, ledger, recorded>>
      BY <1>1 DEF LeaveWork, At
    <2>2. task[w].item = {}
      BY <2>1 DEF Ledger, Leaving, Leaves
    <2>3. "left" \in WorkerSteps /\ "left" \notin Before /\ "idle" \notin Before
      BY DEF WorkerSteps, Before
    <2>4. QED
      BY <2>1, <2>2, <2>3, GoesOnLedger
  <1>2. CASE Emitted(w)
    <2>1. /\ Running /\ task[w].at = "emitting"
          /\ task' = [task EXCEPT ![w].at = "releasing"]
          /\ UNCHANGED <<life, feed, queue, parked, ledger, recorded>>
      BY <1>2 DEF Emitted, At
    <2>2. "releasing" \in WorkerSteps /\ "releasing" \notin Before /\ "emitting" \notin Before
      BY DEF WorkerSteps, Holding, Before
    <2>3. QED
      BY <2>1, <2>2, GoesOnLedger
  <1>3. QED
    BY <1>1, <1>2

LEMMA AskLedger ==
    ASSUME PTypeOK, Hold, Ledger, NEW w \in Workers, AskHost(w)
    PROVE  Ledger'
  <1> USE Typed
  <1>1. /\ Running /\ task[w].at = "asking" /\ "asking" \in Before
        /\ UNCHANGED <<life, feed, queue, parked, recorded>>
    BY DEF AskHost, At, Before
  <1>2. PICK i \in task[w].item :
          \/ GiveBack({i}) /\ task' = [task EXCEPT ![w].at = "releasing"]
          \/ UNCHANGED ledger /\ \E a \in {"measuring", "asleep"} : task' = [task EXCEPT ![w].at = a]
    BY DEF AskHost
  <1>3. CASE GiveBack({i}) /\ task' = [task EXCEPT ![w].at = "releasing"]
    <2>1. i \in Open
      BY <1>1, InHandIs
    <2>2. Open' = Open \ {i} /\ admitted' \subseteq admitted
      BY <1>1, <1>3 DEF Open, GiveBack
    <2>3. Agrees'
      BY <1>1, <1>3, <2>1 DEF Agrees, Ledger, GiveBack, Open
    <2>4. QED
      BY <1>1, <1>3, <2>2, <2>3, DecidesLedger
  <1>4. ASSUME NEW a \in {"measuring", "asleep"}, UNCHANGED ledger, task' = [task EXCEPT ![w].at = a]
        PROVE  Ledger'
    <2>1. a \in Before /\ a \in WorkerSteps /\ a \notin {"idle", "left"}
      BY DEF Before, WorkerSteps, Holding
    <2>2. QED
      BY <1>1, <1>4, <2>1, GoesOnLedger
  <1>5. QED
    BY <1>2, <1>3, <1>4

LEMMA MeasureLedger ==
    ASSUME PTypeOK, Hold, Ledger, NEW w \in Workers, Measure(w)
    PROVE  Ledger'
  <1> USE Typed
  <1>1. /\ Running /\ task[w].at = "measuring" /\ "measuring" \in Before
        /\ UNCHANGED <<life, feed, queue, parked>>
    BY DEF Measure, At, Before
  <1>2. PICK i \in task[w].item :
          /\ \E a \in {"emitting", "releasing"} : task' = [task EXCEPT ![w].at = a]
          /\ \/ Record(i) /\ (UNCHANGED ledger \/ Finish(i))
             \/ UNCHANGED recorded /\ Finish(i)
    BY DEF Measure
  <1>3. i \in Open /\ i \in Items
    BY <1>1, InHandIs
  <1>4. admitted' = admitted /\ adrift' = adrift /\ finished' \in {finished, finished \cup {i}}
    BY <1>2 DEF Finish, ledger
  <1>5. /\ \A j \in Items : j # i => recorded'[j] = recorded[j]
        /\ recorded'[i] \in {0, 1}
        /\ recorded'[i] = 1 \/ finished' = finished \cup {i}
    BY <1>2, <1>3 DEF Record, Finish, Open
  <1>6. Open' = Open \ {i}
    <2>1. Open \subseteq Items
      BY DEF Open, LedgerOK
    <2>2. \A j \in Items : j \in Open' <=> j \in Open /\ j # i
      BY <1>3, <1>4, <1>5 DEF Open
    <2>3. Open' \subseteq Items
      BY <1>4 DEF Open, LedgerOK
    <2>4. QED
      BY <2>1, <2>2, <2>3
  <1>7. Agrees'
    BY <1>3, <1>4, <1>5 DEF Agrees, Ledger, Open
  <1>8. QED
    BY <1>1, <1>2, <1>4, <1>6, <1>7, DecidesLedger

\* What Enter leaves of the feed and of the tasks.
LEMMA EnterKept ==
    ASSUME Ledger, Running, Running', UNCHANGED <<feed, queue>>, NEW w \in Workers,
           NEW i \in Items, NEW b, NEW c, NEW p, NEW t \in [Workers -> Tasks],
           Enter(w, i, b, c, p, t),
           \A v \in Workers : t[v].item = task[v].item /\
              \A a \in {"idle", "left"} : t[v].at = a <=> task[v].at = a
    PROVE  Offered' /\ Leaving' /\ Settled'
  <1>1. PICK u : task' = [t EXCEPT ![w] = u] /\ u.at # "left" /\ (u.at = "idle" => u.item = {})
    <2>1. \E a \in {"measuring", "asleep"} :
            \/ task' = [t EXCEPT ![w] = [at |-> a, item |-> {i}]]
            \/ task' = [t EXCEPT ![w] = Idle]
      BY DEF Enter
    <2>2. Idle.at = "idle" /\ Idle.item = {}
      BY DEF Idle
    <2>3. \A a \in {"measuring", "asleep"} : [at |-> a, item |-> {i}].at \notin {"idle", "left"}
      OBVIOUS
    <2>4. QED
      BY <2>1, <2>2, <2>3
  <1>2. admitted' \subseteq admitted
    BY DEF Enter, GiveBack, ledger
  <1>3. QED
    BY <1>1, <1>2, FeedKept

LEMMA ArriveLedger ==
    ASSUME PTypeOK, Hold, Ledger, NEW w \in Workers, Arrive(w)
    PROVE  Ledger'
  <1> USE Typed
  <1>1. /\ Running /\ Running' /\ task[w].at = "taken" /\ "taken" \in Before
        /\ UNCHANGED <<feed, queue, recorded>>
    BY DEF Arrive, At, Before, Running, life
  <1>2. PICK i \in task[w].item : Enter(w, i, busy, cooling, parked, task)
    BY DEF Arrive
  <1>3. /\ i \in Items /\ i \in Open
        /\ Fits(queue, parked, task, w, {i}, Open, unread \cup offer)
    BY <1>1, InHandIs
  <1>4. Agrees' /\ InPlace' /\ AtWork'
    BY <1>1, <1>2, <1>3, EnterLedger DEF Hold, AtHome, Ledger
  <1>5. Offered' /\ Leaving' /\ Settled'
    BY <1>1, <1>2, <1>3, EnterKept
  <1>6. QED
    BY <1>4, <1>5 DEF Ledger

\* The worker w lets go of its item, the others are told, and it takes the next
\* item that is parked on the host.
LEMMA FreeLedger ==
    ASSUME PTypeOK, Hold, Ledger, NEW w \in Workers, FreeHost(w)
    PROVE  Ledger'
  <1> USE Typed
  <1> DEFINE t == [v \in Workers |-> Notified(v)]
             r == unread \cup offer
  <1>1. /\ Running /\ Running' /\ task[w].at = "releasing"
        /\ UNCHANGED <<feed, queue, recorded>>
    BY DEF FreeHost, At, Running, life
  <1>2. PICK i \in task[w].item :
          LET h == HostOf[i]
          IN  IF Unpark(h) = {}
              THEN task' = [t EXCEPT ![w] = Idle] /\ UNCHANGED <<parked, ledger>>
              ELSE \E b : \E k \in Unpark(h) :
                     Enter(w, k, b, cooling', [parked EXCEPT ![h] = Tail(@)], t)
    BY DEF FreeHost
  <1> DEFINE h == HostOf[i]
             q == [parked EXCEPT ![h] = Tail(@)]
  <1>3. i \in Items /\ h \in Hosts
    BY ItemsAssumption
  <1>4. /\ t \in [Workers -> Tasks]
        /\ \A v \in Workers :
             /\ t[v].item = task[v].item /\ (t[v].at \in Before <=> task[v].at \in Before)
             /\ \A a \in {"idle", "left"} : t[v].at = a <=> task[v].at = a
    <2>1. t \in [Workers -> Tasks]
      BY NotifiedTypes
    <2>2. \A v \in Workers : /\ t[v].item = task[v].item
                             /\ t[v].at = IF task[v].at = "asleep" THEN "asking" ELSE task[v].at
      BY DEF Notified, At, Tasks
    <2> HIDE DEF t
    <2>3. QED
      BY <2>1, <2>2 DEF Before
  <1>5. Fits(queue, parked, t, w, {}, Open, r)
    <2>1. Fits(queue, parked, task, w, task[w].item, Open, r) /\ task[w].item \cap Open = {}
      BY <1>1, InHandIs DEF Before
    <2> HIDE DEF r, t
    <2>2. Fits(queue, parked, task, w, {}, Open, r)
      BY <2>1, FitsDropped
    <2>3. QED
      BY <1>4, <2>2, FitsTold
  <1>6. CASE Unpark(h) = {}
    <2>1. task' = [t EXCEPT ![w] = Idle] /\ UNCHANGED <<parked, ledger>>
      BY <1>2, <1>6
    <2>2. Open' = Open /\ admitted' = admitted /\ Agrees' /\ (unread \cup offer)' = r
      BY <1>1, <2>1 DEF Open, feed, ledger, Agrees, Ledger
    <2>3. Idle \in Tasks /\ Idle.item = {} /\ Idle.at = "idle"
      BY DEF Idle, Tasks, WorkerSteps
    <2> HIDE DEF t, r
    <2>4. Fits(queue', parked', t, w, Idle.item, Open', (unread \cup offer)')
      BY <1>1, <1>5, <2>1, <2>2, <2>3
    <2>5. InPlace' /\ AtWork'
      BY <1>1, <1>4, <2>1, <2>3, <2>4, Closing
    <2>6. Offered' /\ Leaving' /\ Settled'
      BY <1>1, <1>4, <2>1, <2>2, <2>3, FeedKept
    <2>7. QED
      BY <2>2, <2>5, <2>6 DEF Ledger
  <1>7. CASE Unpark(h) # {}
    <2>1. PICK b, k : k \in Unpark(h) /\ Enter(w, k, b, cooling', q, t)
      BY <1>2, <1>7
    <2>2. /\ parked[h] # <<>> /\ k = Head(parked[h]) /\ parked[h] \in Seq(Items)
          /\ Tail(parked[h]) \in Seq(Items) /\ k \in Items
      <3>1. parked[h] # <<>> /\ k = Head(parked[h]) /\ parked[h] \in Seq(Items)
        BY <1>3, <2>1 DEF Unpark, Parked
      <3>2. QED
        BY <3>1
    <2>3. HostOf[k] = h
      BY <1>3, <2>2, HeadThere DEF Hold, AtHome
    <2>4. q \in Parked /\ \A g \in Hosts : q[g] = IF g = h THEN Tail(parked[h]) ELSE parked[g]
      BY <1>3, <2>2 DEF Parked
    <2>5. \A g \in Hosts : \A l \in Elements(q[g]) : HostOf[l] = g
      <3>1. Elements(Tail(parked[h])) \subseteq Elements(parked[h])
        <4> DEFINE s == parked[h]
        <4>1. s \in Seq(Items) /\ s # <<>>
          BY <2>2
        <4> HIDE DEF s
        <4>2. /\ DOMAIN s = 1..Len(s) /\ Len(s) \in Nat \ {0}
              /\ DOMAIN Tail(s) = 1..Len(s) - 1
              /\ \A n \in 1..Len(s) - 1 : Tail(s)[n] = s[n + 1]
          BY <4>1
        <4>3. Elements(Tail(s)) \subseteq Elements(s)
          BY <4>2 DEF Elements
        <4>4. QED
          BY <4>3 DEF s
      <3>2. QED
        BY <2>4, <3>1 DEF Hold, AtHome
    <2>6. Fits(queue, q, t, w, {k}, Open, r) /\ k \in Open
      <3> HIDE DEF t, r
      <3>1. QED
        BY <1>3, <1>5, <2>2, <2>3, FitsUnparked
    <2> HIDE DEF t, q, h
    <2>7. Agrees' /\ InPlace' /\ AtWork'
      BY <1>1, <1>4, <2>1, <2>2, <2>4, <2>5, <2>6, EnterLedger DEF Ledger
    <2>8. Offered' /\ Leaving' /\ Settled'
      BY <1>1, <1>4, <2>1, <2>2, EnterKept
    <2>9. QED
      BY <2>7, <2>8 DEF Ledger
  <1>8. QED
    BY <1>6, <1>7

-----------------------------------------------------------------------------
(* The steps of the feeder and of the run keep the ledger *)

\* An item that had no place is admitted at the end of the queue.
LEMMA FitsAdmitted ==
    ASSUME NEW q \in Seq(Items), NEW p \in Parked, NEW t, NEW w, NEW x, NEW o, NEW r, NEW s,
           Fits(q, p, t, w, x, o, r), NEW j \in r, j \in Items, s \subseteq r \ {j}
    PROVE  Fits(Append(q, j), p, t, w, x, o \cup {j}, s)
  <1> SUFFICES ASSUME NEW i \in Items
               PROVE  /\ Tally(Append(q, j), p, t, w, x, i) <= 1
                      /\ Tally(Append(q, j), p, t, w, x, i) > 0 => i \notin s
                      /\ i \in o \cup {j} => Tally(Append(q, j), p, t, w, x, i) = 1
                      /\ i \in Elements(Append(q, j)) \cup Elements(p[HostOf[i]]) => i \in o \cup {j}
                      /\ \A v \in Workers \ {w} :
                           i \in t[v].item => (i \in o \cup {j} <=> t[v].at \in Before)
    BY DEF Fits
  <1>1. Append(q, j) \in Seq(Items)
    OBVIOUS
  <1>2. Occ(Append(q, j), i) = Occ(q, i) + IF i = j THEN 1 ELSE 0
    BY OccAppend
  <1>3. /\ Occ(q, i) \in Nat /\ Occ(p[HostOf[i]], i) \in Nat /\ HandsBut(t, w, i) \in Nat
        /\ Occ(q, i) > 0 <=> i \in Elements(q)
        /\ Occ(Append(q, j), i) > 0 <=> i \in Elements(Append(q, j))
        /\ HandsBut(t, w, i) > 0 <=> \E v \in Workers \ {w} : i \in t[v].item
    BY <1>1, CountsOf
  <1>4. /\ Tally(Append(q, j), p, t, w, x, i) = Tally(q, p, t, w, x, i) + IF i = j THEN 1 ELSE 0
        /\ Tally(q, p, t, w, x, i) \in Nat
        /\ HandsBut(t, w, i) > 0 => Tally(q, p, t, w, x, i) > 0
    BY <1>2, <1>3 DEF Tally
  <1>5. /\ Tally(q, p, t, w, x, i) <= 1
        /\ Tally(q, p, t, w, x, i) > 0 => i \notin r
        /\ i \in o => Tally(q, p, t, w, x, i) = 1
        /\ i \in Elements(q) \cup Elements(p[HostOf[i]]) => i \in o
        /\ \A v \in Workers \ {w} : i \in t[v].item => (i \in o <=> t[v].at \in Before)
    BY DEF Fits
  <1>6. i \in Elements(Append(q, j)) => i \in Elements(q) \/ i = j
    BY <1>2, <1>3
  <1>7. CASE i = j
    BY <1>3, <1>4, <1>5, <1>7
  <1>8. CASE i # j
    BY <1>3, <1>4, <1>5, <1>6, <1>8
  <1>9. QED
    BY <1>7, <1>8

LEMMA FitsFewer ==
    ASSUME NEW q, NEW p, NEW t, NEW w, NEW x, NEW o, NEW r, NEW s,
           Fits(q, p, t, w, x, o, r), s \subseteq r
    PROVE  Fits(q, p, t, w, x, o, s)
  BY DEF Fits

\* Without a worker that has left, and the tasks as they were.
LEMMA AdmitLedger ==
    ASSUME PTypeOK, Ledger, Running, Running', NEW i \in Items, i \in (unread \cup offer) \ admitted,
           queue' = Append(queue, i), Admit(i), UNCHANGED <<parked, task, recorded>>,
           (unread \cup offer)' \subseteq (unread \cup offer) \ {i}, offer' = {}, feeder # "done"
    PROVE  Ledger'
  <1> USE Typed
  <1>1. Open' = Open \cup {i}
    BY DEF Open, Admit, Agrees, Ledger, LedgerOK
  <1>2. Agrees'
    BY DEF Agrees, Ledger, Admit
  <1>3. InPlace'
    <2> SUFFICES ASSUME NEW w \in Workers
                 PROVE  Fits(queue', parked', task', w, task'[w].item, Open', (unread \cup offer)')
      BY DEF InPlace
    <2>1. Fits(queue, parked, task, w, task[w].item, Open, unread \cup offer)
      BY DEF Ledger, InPlace
    <2>2. QED
      BY <1>1, <2>1, FitsAdmitted
  <1>4. AtWork'
    <2> SUFFICES ASSUME NEW w \in Workers, NEW k \in task[w].item
                 PROVE  k \in Open' <=> task[w].at \in Before
      BY DEF AtWork
    <2>1. Fits(queue, parked, task, w, task[w].item, Open, unread \cup offer)
      BY DEF Ledger, InPlace
    <2>2. k # i
      <3>1. k \in Items /\ (Tally(queue, parked, task, w, task[w].item, k) > 0 => k \notin unread \cup offer)
        BY <2>1 DEF Fits
      <3>2. Tally(queue, parked, task, w, task[w].item, k) > 0
        BY <3>1, CountsOf DEF Tally
      <3>3. QED
        BY <3>1, <3>2
    <2>3. QED
      BY <1>1, <2>2 DEF Ledger, AtWork
  <1>5. Offered' /\ Leaving' /\ Settled'
    BY DEF Ledger, Offered, Leaving, Leaves, Settled
  <1>6. QED
    BY <1>2, <1>3, <1>4, <1>5 DEF Ledger

\* The feeder reads what was admitted, or keeps what it read in hand.
LEMMA ReadLedger ==
    ASSUME PTypeOK, Ledger, Running, Running',
           UNCHANGED <<queue, parked, task, ledger, recorded>>,
           (unread \cup offer)' \subseteq unread \cup offer, feeder # "done",
           offer' \cap (admitted \cup unread') = {}, feeder' # "offering" => offer' = {}
    PROVE  Ledger'
  <1>1. Open' = Open /\ Agrees'
    BY DEF Open, Agrees, Ledger, ledger
  <1>2. InPlace'
    BY <1>1, FitsFewer DEF Ledger, InPlace
  <1>3. AtWork'
    BY <1>1 DEF Ledger, AtWork
  <1>4. Offered' /\ Leaving' /\ Settled'
    BY DEF Ledger, Offered, Leaving, Leaves, Settled, ledger
  <1>5. QED
    BY <1>1, <1>2, <1>3, <1>4 DEF Ledger

LEMMA FeederLedger ==
    ASSUME PTypeOK, Ledger, Feeder
    PROVE  Ledger'
  <1> USE Typed
  <1>1. Running /\ Running' /\ UNCHANGED <<parked, task, recorded>>
    BY DEF Feeder, ReadItem, PutOffered, GiveUpOffer, CloseFeed, Running, life
  <1>2. ASSUME NEW i \in Items, ReadItem(i) PROVE Ledger'
    <2>1. i \in unread /\ unread' = unread \ {i} /\ feeder = "reading" /\ offer = {}
      BY <1>1, <1>2 DEF ReadItem, Ledger, Offered
    <2>2. CASE Seen(i) /\ UNCHANGED <<feeder, offer, queue, ledger>>
      BY <1>1, <2>1, <2>2, ReadLedger
    <2>3. CASE ~Seen(i) /\ queue' = Append(queue, i) /\ Admit(i) /\ UNCHANGED <<feeder, offer>>
      BY <1>1, <2>1, <2>3, AdmitLedger DEF Seen
    <2>4. CASE ~Seen(i) /\ feeder' = "offering" /\ offer' = {i} /\ UNCHANGED <<queue, ledger>>
      <3>1. (unread \cup offer)' \subseteq unread \cup offer
        BY <2>1, <2>4
      <3>2. offer' \cap (admitted \cup unread') = {}
        BY <2>1, <2>4 DEF Seen
      <3>3. QED
        BY <1>1, <2>1, <2>4, <3>1, <3>2, ReadLedger
    <2>5. QED
      BY <1>2, <2>2, <2>3, <2>4 DEF ReadItem
  <1>3. CASE PutOffered
    <2>1. PICK i \in offer : queue' = Append(queue, i) /\ Admit(i)
      BY <1>3 DEF PutOffered
    <2>2. feeder = "offering" /\ offer' = {} /\ unread' = unread /\ i \notin admitted \cup unread
      BY <1>1, <1>3 DEF PutOffered, Ledger, Offered
    <2>3. (unread \cup offer)' \subseteq (unread \cup offer) \ {i}
      BY <2>2
    <2>4. QED
      BY <1>1, <2>1, <2>2, <2>3, AdmitLedger
  <1>4. CASE GiveUpOffer
    BY <1>1, <1>4, ReadLedger DEF GiveUpOffer
  <1>5. CASE CloseFeed
    <2>1. feeder = "reading" /\ offer = {} /\ UNCHANGED <<offer, unread, queue, ledger>>
      BY <1>1, <1>5 DEF CloseFeed, Ledger, Offered
    <2>2. QED
      BY <1>1, <2>1, ReadLedger
  <1>6. QED
    BY <1>2, <1>3, <1>4, <1>5 DEF Feeder

LEMMA LedgerKept ==
    ASSUME Ledger, UNCHANGED <<phase, feed, queue, parked, task, ledger, recorded>>
    PROVE  Ledger'
  <1>1. Open' = Open /\ (Running' <=> Running) /\ UNCHANGED <<offer, unread, feeder, task, queue, parked>>
    BY DEF Open, ledger, Running, feed
  <1>2. Agrees'
    BY DEF Agrees, Ledger, ledger
  <1>3. InPlace' /\ AtWork' /\ Offered' /\ Leaving' /\ Settled'
    BY <1>1 DEF Ledger, InPlace, AtWork, Offered, Leaving, Leaves, Settled, ledger
  <1>4. QED
    BY <1>2, <1>3 DEF Ledger

LEMMA RunLedger ==
    ASSUME PTypeOK, Hold, Ledger, Start \/ End \/ \E r \in Stops : TearDown(r)
    PROVE  Ledger'
  <1> USE Typed
  <1>1. CASE Start
    <2>1. /\ Running' /\ ~Running /\ UNCHANGED <<ledger, recorded>>
          /\ task' = [w \in Workers |-> Idle] /\ offer' = {} /\ queue' = <<>>
          /\ parked' = [h \in Hosts |-> <<>>]
      BY <1>1 DEF Start, Over, Running
    <2>2. Open' = {} /\ Agrees'
      BY <2>1 DEF Open, Agrees, Ledger, Settled, ledger
    <2>3. \A w \in Workers : task'[w].item = {} /\ task'[w].at = "idle"
      BY <2>1 DEF Idle
    <2>4. InPlace'
      <3> SUFFICES ASSUME NEW w \in Workers
                   PROVE  Fits(queue', parked', task', w, {}, {}, (unread \cup offer)')
        BY <2>2, <2>3 DEF InPlace
      <3> SUFFICES ASSUME NEW i \in Items
                   PROVE  /\ Tally(queue', parked', task', w, {}, i) = 0
                          /\ i \notin Elements(queue') \cup Elements(parked'[HostOf[i]])
                          /\ \A v \in Workers : i \notin task'[v].item
        BY DEF Fits
      <3>1. parked'[HostOf[i]] = <<>> /\ queue' = <<>>
        BY <2>1, ItemsAssumption
      <3>2. Occ(<<>>, i) = 0 /\ Elements(<<>>) = {}
        BY OccEmpty DEF Elements
      <3>3. HandsBut(task', w, i) = 0
        <4>1. ~ \E v \in Workers \ {w} : i \in task'[v].item
          BY <2>3
        <4>2. HandsBut(task', w, i) \in Nat /\ ~(HandsBut(task', w, i) > 0)
          BY <4>1, HandsPositive
        <4>3. QED
          BY <4>2
      <3>4. QED
        BY <2>3, <3>1, <3>2, <3>3 DEF Tally
    <2>5. AtWork' /\ Offered' /\ Leaving' /\ Settled'
      BY <2>1, <2>3 DEF AtWork, Offered, Leaving, Leaves, Settled
    <2>6. QED
      BY <2>2, <2>4, <2>5 DEF Ledger
  <1>2. CASE End
    <2>1. /\ Running /\ ~Running' /\ UNCHANGED <<ledger, recorded>>
          /\ \A w \in Workers : task[w].at = "left"
      BY <1>2 DEF End, Running, At
    <2>2. PICK w \in Workers : TRUE
      BY SizesAssumption
    <2>3. queue = <<>> /\ \A v \in Workers : task[v].item = {}
      BY <2>1, <2>2 DEF Ledger, Leaving, Leaves
    <2>4. \A h \in Hosts : parked[h] = <<>>
      BY <2>1, <2>3 DEF Hold, Comers, Awaited, Comes
    <2>5. Open = {}
      <3> SUFFICES ASSUME NEW i \in Open PROVE FALSE
        OBVIOUS
      <3>1. i \in Items /\ Tally(queue, parked, task, w, task[w].item, i) = 1
        BY <2>1 DEF Ledger, InPlace, Fits, Open, LedgerOK
      <3>2. parked[HostOf[i]] = <<>> /\ Occ(<<>>, i) = 0
        BY <2>4, <3>1, ItemsAssumption, OccEmpty
      <3>3. HandsBut(task, w, i) \in Nat /\ ~(HandsBut(task, w, i) > 0)
        BY <2>3, HandsPositive
      <3>4. QED
        BY <2>3, <3>1, <3>2, <3>3 DEF Tally
    <2>6. Open' = {} /\ Agrees'
      BY <2>1, <2>5 DEF Open, Agrees, Ledger, ledger
    <2>7. QED
      BY <2>1, <2>6 DEF Ledger, InPlace, AtWork, Offered, Leaving, Settled
  <1>3. CASE \E r \in Stops : TearDown(r)
    <2>1. ~Running' /\ adrift' = admitted \ finished /\ UNCHANGED <<admitted, finished, recorded>>
      BY <1>3 DEF TearDown, Running
    <2>2. Open' = {} /\ Agrees'
      BY <2>1 DEF Open, Agrees, Ledger
    <2>3. QED
      BY <2>1, <2>2 DEF Ledger, InPlace, AtWork, Offered, Leaving, Settled
  <1>4. QED
    BY <1>1, <1>2, <1>3

LEMMA LedgerHolds == PSpec => []Ledger
  <1>1. PInit => Ledger
    BY DEF PInit, Ledger, Agrees, InPlace, AtWork, Offered, Leaving, Settled, Open, Running
  <1>2. PTypeOK /\ Hold /\ Ledger /\ [PNext]_vars => Ledger'
    <2> SUFFICES ASSUME PTypeOK, Hold, Ledger, [PNext]_vars PROVE Ledger'
      OBVIOUS
    <2>1. CASE UNCHANGED vars \/ (\E h \in Hosts : Elapse(h)) \/ (\E r \in Stops : Control(r)) \/ Rest
      BY <2>1, LedgerKept DEF vars, life, Elapse, Control, Rest
    <2>2. CASE Feeder
      BY <2>2, FeederLedger
    <2>3. CASE \E w \in Workers : Worker(w)
      BY <2>3, TakeLedger, LeaveLedger, ArriveLedger, AskLedger, MeasureLedger, FreeLedger DEF Worker
    <2>4. CASE Start \/ End \/ \E r \in Stops : TearDown(r)
      BY <2>4, RunLedger
    <2>5. QED
      BY <2>1, <2>2, <2>3, <2>4 DEF PNext
  <1>3. QED
    BY <1>1, <1>2, InvHolds, PTL DEF PSpec, PInv

\* "No item is measured twice", within a run and over the runs of a Pipeline:
\* an item that has a result is admitted, and is not admitted again.
THEOREM RecordsAreSingle == PSpec => []RecordedOnce
  <1>1. Ledger => RecordedOnce
    BY DEF Ledger, Agrees, RecordedOnce
  <1>2. QED
    BY <1>1, LedgerHolds, PTL

\* While a run goes on, an admitted item that is not decided is in one place: in
\* the queue, parked, or in the hand of one worker.  A run that was not torn down
\* keeps nothing back.
THEOREM LedgerIsKept == PSpec => []NothingLost
  <1>1. PInv /\ Ledger => NothingLost
    <2> SUFFICES ASSUME PTypeOK, Ledger PROVE NothingLost
      BY DEF PInv
    <2> USE Typed
    <2>1. ASSUME Running, NEW i \in admitted \ (finished \cup adrift), ~(recorded[i] > 0)
          PROVE  Cardinality({n \in DOMAIN queue : queue[n] = i})
                 + Cardinality({w \in Workers : InHand(w, i)})
                 + Cardinality({n \in DOMAIN parked[HostOf[i]] : parked[HostOf[i]][n] = i}) = 1
      <3>1. i \in Items /\ i \in Open
        BY <2>1 DEF Open, LedgerOK
      <3>2. PICK w \in Workers : TRUE
        BY SizesAssumption
      <3>3. Tally(queue, parked, task, w, task[w].item, i) = 1
        BY <2>1, <3>1 DEF Ledger, InPlace, Fits
      <3>4. Hands(task, i) = HandsBut(task, w, i) + IF i \in task[w].item THEN 1 ELSE 0
        BY HandsCounted
      <3>5. Occ(queue, i) \in Nat /\ Occ(parked[HostOf[i]], i) \in Nat /\ HandsBut(task, w, i) \in Nat
        BY <3>1, CountsOf
      <3>6. Occ(queue, i) + Hands(task, i) + Occ(parked[HostOf[i]], i) = 1
        BY <3>3, <3>4, <3>5 DEF Tally
      <3>7. QED
        BY <3>6 DEF Occ, Hands, InHand
    <2>2. ASSUME phase = "ended", NEW i \in admitted \ adrift
          PROVE  i \in finished \/ recorded[i] > 0
      <3>1. i \notin Open /\ recorded[i] \in {0, 1}
        BY <2>2 DEF Ledger, Settled, Running, Agrees, LedgerOK
      <3>2. QED
        BY <3>1 DEF Open
    <2>3. QED
      BY <2>1, <2>2 DEF NothingLost
  <1>2. QED
    BY <1>1, InvHolds, LedgerHolds, PTL

-----------------------------------------------------------------------------
(* A run that says its source is exhausted *)

\* While nothing stops the run, what the feeder has passed is admitted, and a
\* feed that is complete has been read to its end.
AllRead ==
    /\ \A i, k \in offer : i = k
    /\ Running => reason # "items_exhausted"
    /\ Running /\ ~Stopped => Items \subseteq unread \cup offer \cup admitted
    /\ Running /\ ~Stopped /\ feedComplete => unread = {} /\ feeder = "done"

Exhausted == AllRead /\ ExhaustedMeansAll

\* A reason to stop is never taken back, and no step of a run that goes on says
\* that its source is exhausted.
LEMMA StopsStay ==
    ASSUME reason \in DOMAIN Rank, NEW r \in DOMAIN Rank, r \notin {"none", "items_exhausted"}, Stop(r)
    PROVE  Stopped' /\ (reason # "items_exhausted" => reason' # "items_exhausted")
  BY DEF Stop, Higher, Stopped, Rank

\* The feeder does nothing, and nothing admitted is given back while the run goes on.
LEMMA ReadKept ==
    ASSUME Exhausted, Running, Running', UNCHANGED <<feedComplete, unread, feeder, offer>>,
           Stopped => Stopped', reason' # "items_exhausted",
           ~Stopped => admitted \subseteq admitted'
    PROVE  Exhausted'
  BY DEF Exhausted, AllRead, ExhaustedMeansAll, Running, Over

LEMMA WorkerExhausted ==
    ASSUME PTypeOK, Exhausted, NEW w \in Workers, Worker(w)
    PROVE  Exhausted'
  <1>1. /\ Running /\ Running' /\ reason \in DOMAIN Rank
        /\ UNCHANGED <<feedComplete, unread, feeder, offer>>
    BY TypeParts DEF Worker, TakeItem, LeaveWork, Arrive, AskHost, Measure, Emitted, FreeHost,
                     Running, life, feed, OutcomeOK
  <1>2. UNCHANGED reason \/ Stop("budget_exhausted") \/ Stop("want_reached")
    BY DEF Worker, TakeItem, LeaveWork, Arrive, AskHost, Measure, Emitted, FreeHost
  <1>3. (Stopped => Stopped') /\ reason' # "items_exhausted"
    <2>1. reason # "items_exhausted"
      BY <1>1 DEF Exhausted, AllRead
    <2>2. CASE UNCHANGED reason
      BY <2>1, <2>2 DEF Stopped
    <2>3. CASE Stop("budget_exhausted") \/ Stop("want_reached")
      BY <1>1, <2>1, <2>3, StopsStay, RankReasons
    <2>4. QED
      BY <1>2, <2>2, <2>3
  <1>4. ~Stopped => admitted' = admitted
    <2>1. CASE TakeItem(w) \/ LeaveWork(w) \/ Emitted(w)
      BY <2>1 DEF TakeItem, LeaveWork, Emitted, ledger
    <2>2. CASE Arrive(w)
      BY <2>2 DEF Arrive, Enter, ledger
    <2>3. CASE AskHost(w)
      BY <2>3 DEF AskHost, ledger
    <2>4. CASE Measure(w)
      BY <2>4 DEF Measure, Finish, ledger
    <2>5. CASE FreeHost(w)
      BY <2>5 DEF FreeHost, Enter, ledger
    <2>6. QED
      BY <2>1, <2>2, <2>3, <2>4, <2>5 DEF Worker
  <1>5. QED
    BY <1>1, <1>3, <1>4, ReadKept

LEMMA FeederExhausted ==
    ASSUME PTypeOK, Ledger, Exhausted, Feeder
    PROVE  Exhausted'
  <1>1. Running /\ Running' /\ reason \in DOMAIN Rank
    BY TypeParts DEF Feeder, ReadItem, PutOffered, GiveUpOffer, CloseFeed, Running, life, OutcomeOK
  <1>2. CASE CloseFeed
    <2>1. CASE Stopped /\ UNCHANGED reason
      BY <1>1, <1>2, <2>1 DEF CloseFeed, Exhausted, AllRead, ExhaustedMeansAll, Running, Over, Stopped
    <2>2. CASE ~Stopped /\ unread = {} /\ UNCHANGED reason
      BY <1>1, <1>2, <2>2
         DEF CloseFeed, Exhausted, AllRead, ExhaustedMeansAll, Running, Over, Stopped, ledger
    <2>3. CASE \E r \in {"stopped", "budget_exhausted"} : Stop(r)
      <3>1. Stopped' /\ reason' # "items_exhausted"
        BY <1>1, <2>3, StopsStay, RankReasons DEF Exhausted, AllRead
      <3>2. QED
        BY <1>1, <1>2, <3>1 DEF CloseFeed, Exhausted, AllRead, ExhaustedMeansAll, Running, Over
    <2>4. QED
      BY <1>2, <2>1, <2>2, <2>3 DEF CloseFeed
  <1>3. CASE (\E i \in Items : ReadItem(i)) \/ PutOffered \/ GiveUpOffer
    <2>1. /\ feeder # "done" /\ UNCHANGED <<reason, feedComplete>>
          /\ \A i, k \in offer' : i = k
          /\ ~Stopped => unread \cup offer \cup admitted \subseteq (unread \cup offer \cup admitted)'
      <3>1. CASE \E i \in Items : ReadItem(i)
        <4>1. PICK i \in Items : ReadItem(i)
          BY <3>1
        <4>2. offer = {} /\ feeder = "reading" /\ i \in unread /\ unread' = unread \ {i}
          BY <1>1, <4>1 DEF ReadItem, Ledger, Offered
        <4>3. /\ UNCHANGED <<reason, feedComplete>>
              /\ \/ i \in admitted /\ UNCHANGED <<offer, admitted>>
                 \/ admitted' = admitted \cup {i} /\ UNCHANGED offer
                 \/ offer' = {i} /\ UNCHANGED admitted
          BY <4>1 DEF ReadItem, Admit, Seen, ledger
        <4>4. QED
          BY <4>2, <4>3
      <3>2. CASE PutOffered
        BY <3>2 DEF PutOffered, Admit, Exhausted, AllRead
      <3>3. CASE GiveUpOffer
        BY <3>3 DEF GiveUpOffer
      <3>4. QED
        BY <1>3, <3>1, <3>2, <3>3
    <2>2. QED
      BY <1>1, <2>1 DEF Exhausted, AllRead, ExhaustedMeansAll, Running, Over, Stopped
  <1>4. QED
    BY <1>2, <1>3 DEF Feeder

LEMMA RunExhausted ==
    ASSUME PTypeOK, Ledger, Exhausted,
           Start \/ End \/ \E r \in Stops : Control(r) \/ TearDown(r)
    PROVE  Exhausted'
  <1>0. reason \in DOMAIN Rank
    BY TypeParts DEF OutcomeOK
  <1>1. CASE Start
    <2>1. /\ Running' /\ reason' # "items_exhausted" /\ feedComplete' = FALSE
          /\ unread' = Items /\ offer' = {}
      BY <1>1 DEF Start, Running
    <2>2. QED
      BY <2>1 DEF Exhausted, AllRead, ExhaustedMeansAll, Running, Over
  <1>2. CASE End
    <2>1. /\ Running /\ ~Running' /\ feeder = "done" /\ UNCHANGED <<offer, unread, feeder, finished>>
      BY <1>2 DEF End, Running, feed, ledger
    <2>2. CASE Stopped
      BY <1>2, <2>1, <2>2 DEF End, Exhausted, AllRead, ExhaustedMeansAll, Running
    <2>3. CASE ~Stopped /\ ~(feedComplete /\ Pending = {})
      <3>1. Stop("stopped")
        BY <1>2, <2>3 DEF End
      <3>2. reason' # "items_exhausted"
        BY <1>0, <2>3, <3>1, StopsStay, RankReasons DEF Stopped
      <3>3. QED
        BY <2>1, <3>2 DEF Exhausted, AllRead, ExhaustedMeansAll, Running
    <2>4. CASE ~Stopped /\ feedComplete /\ Pending = {}
      <3>1. unread = {} /\ offer = {} /\ Items \subseteq unread \cup offer \cup admitted
        BY <2>1, <2>4 DEF Exhausted, AllRead, Ledger, Offered
      <3>2. finished = Items
        BY <2>4, <3>1, TypeParts DEF Pending, LedgerOK
      <3>3. QED
        BY <2>1, <3>2 DEF Exhausted, AllRead, ExhaustedMeansAll, Running
    <2>5. QED
      BY <2>2, <2>3, <2>4
  <1>3. ASSUME NEW r \in Stops, Control(r) PROVE Exhausted'
    <2>1. /\ Running /\ r \in {"paused", "cancelled"} /\ Stop(r)
          /\ UNCHANGED <<phase, feed, ledger>>
      BY <1>3 DEF Control, life
    <2>2. Stopped' /\ reason' # "items_exhausted"
      BY <1>0, <2>1, StopsStay, RankReasons DEF Exhausted, AllRead
    <2>3. QED
      BY <2>1, <2>2 DEF Exhausted, AllRead, ExhaustedMeansAll, Running, Over, feed
  <1>4. ASSUME NEW r \in Stops, TearDown(r) PROVE Exhausted'
    <2>1. Running /\ r \in {"deadline_exceeded", "cancelled"} /\ Stop(r) /\ ~Running' /\ offer' = offer
      BY <1>4 DEF TearDown, Running
    <2>2. Stopped' /\ reason' # "items_exhausted"
      BY <1>0, <2>1, StopsStay, RankReasons DEF Exhausted, AllRead
    <2>3. QED
      BY <2>1, <2>2 DEF Exhausted, AllRead, ExhaustedMeansAll
  <1>5. QED
    BY <1>1, <1>2, <1>3, <1>4

\* "Every item was measured" and "the chain ended with items left" are different
\* outcomes (Pipeline._execute): a run that says its source is exhausted has
\* decided every item of it.
THEOREM ExhaustedIsComplete == PSpec => []ExhaustedMeansAll
  <1>1. PInit => Exhausted
    BY DEF PInit, Exhausted, AllRead, ExhaustedMeansAll, Running
  <1>2. PTypeOK /\ Ledger /\ Exhausted /\ [PNext]_vars => Exhausted'
    <2> SUFFICES ASSUME PTypeOK, Ledger, Exhausted, [PNext]_vars PROVE Exhausted'
      OBVIOUS
    <2>1. CASE UNCHANGED vars \/ (\E h \in Hosts : Elapse(h)) \/ Rest
      <3>1. UNCHANGED <<phase, feed, ledger, reason>>
        BY <2>1 DEF vars, life, Elapse, Rest
      <3>2. QED
        BY <3>1 DEF Exhausted, AllRead, ExhaustedMeansAll, Running, Over, Stopped, feed, ledger
    <2>2. CASE Feeder
      BY <2>2, FeederExhausted
    <2>3. CASE \E w \in Workers : Worker(w)
      BY <2>3, WorkerExhausted
    <2>4. CASE Start \/ End \/ \E r \in Stops : Control(r) \/ TearDown(r)
      BY <2>4, RunExhausted
    <2>5. QED
      BY <2>1, <2>2, <2>3, <2>4 DEF PNext
  <1>3. Exhausted => ExhaustedMeansAll
    BY DEF Exhausted
  <1>4. QED
    BY <1>1, <1>2, <1>3, InvHolds, LedgerHolds, PTL DEF PSpec, PInv

=============================================================================
