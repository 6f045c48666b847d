------------------------------ MODULE Pipeline ------------------------------
(***************************************************************************)
(* The workers of one scan, pipeline.py: a feeder reads the source into a  *)
(* bounded queue, workers take items from it, and at most MaxPerHost items *)
(* of one host are measured at a time.  An item whose host is busy is      *)
(* parked, and the worker that frees the host fetches it; when too many    *)
(* are parked the worker waits for the host instead.  A run ends when the  *)
(* feed is closed and every worker has left, or is torn down; a later run  *)
(* of the same Pipeline continues its ledger.                              *)
(*                                                                         *)
(* The tasks of asyncio change state only between two awaits, so an action *)
(* is what happens from one await to the next.  What a stage measures and  *)
(* what it costs is left out: a measurement succeeds, or its budget is     *)
(* refused, or it raises.  The put that asyncio.wait_for waits for runs in *)
(* the feeder's own task, as it does from CPython 3.12 on.                 *)
(***************************************************************************)
EXTENDS Integers, Sequences, FiniteSets

CONSTANTS
    Items,        \* canonical endpoints of the source
    Hosts,
    HostOf,       \* item.address
    Fresh,        \* items carried from a fresh prior instead of measured
    Workers,
    MaxQueue,     \* budgets.max_queue_items, also the bound of the parked items
    MaxPerHost,   \* limits.max_per_host
    Spacings,     \* the values of "limits.min_host_interval_s is positive"
    Stops,        \* the reasons to stop that can occur
    Rounds        \* bound: how often the same Pipeline is run

ASSUME ItemsAssumption == HostOf \in [Items -> Hosts] /\ Fresh \subseteq Items
ASSUME SizesAssumption ==
    /\ MaxQueue \in Nat \ {0} /\ MaxPerHost \in Nat \ {0} /\ Rounds \in Nat
    /\ Spacings \subseteq BOOLEAN
    /\ IsFiniteSet(Hosts) /\ IsFiniteSet(Workers) /\ Workers # {}

VARIABLES
    spaced,        \* the configuration: whether hosts have an interval; never changes
    run,           \* how often it was started
    phase,         \* ready, running, ended, torn (down before its tasks were over)
    feeder,        \* reading, offering (waits for room), done
    offer,         \* the item the feeder has in hand
    unread,        \* items of the source the feeder has not come to in this run
    feedComplete,
    queue,
    parked,        \* per host
    task,          \* what each worker does, with the item in hand
    busy,          \* HostLimiter._busy
    cooling,       \* hosts whose minimum interval has not elapsed
    admitted, finished, released,    \* the Ledger
    recorded,      \* how many results of the item were recorded
    adrift,        \* history: what runs that were torn down left admitted
    enough,        \* _find_satisfied
    reason

ledger == <<admitted, finished, released, adrift>>
feed == <<feeder, offer, unread, feedComplete>>
hosts == <<busy, cooling>>
life == <<spaced, run, phase>>
vars == <<life, feed, queue, parked, task, hosts, ledger, recorded, enough, reason>>

Holding == {"measuring", "emitting", "releasing"}
WorkerSteps == Holding \cup {"idle", "taken", "asking", "asleep", "left"}
Rank == [none |-> -1, items_exhausted |-> 0, stopped |-> 0, deadline_exceeded |-> 1,
         budget_exhausted |-> 1, paused |-> 2, want_reached |-> 3, cancelled |-> 4]

\* _parked_count: how many items of p are parked, up to one more than the bound.
ParkedCount(p) ==
    Cardinality({x \in Hosts \X (1..MaxQueue + 1) : x[2] <= Len(p[x[1]])})

PTypeOK ==
    /\ spaced \in BOOLEAN
    /\ run \in 0..Rounds /\ phase \in {"ready", "running", "ended", "torn"}
    /\ feeder \in {"reading", "offering", "done"}
    /\ offer \in SUBSET Items /\ unread \in SUBSET Items /\ feedComplete \in BOOLEAN
    /\ queue \in Seq(Items) /\ Len(queue) <= MaxQueue
    /\ parked \in [Hosts -> Seq(Items)] /\ ParkedCount(parked) <= MaxQueue
    /\ task \in [Workers -> [at : WorkerSteps, item : SUBSET Items]]
    /\ busy \in [Hosts -> Nat] /\ cooling \in [Hosts -> BOOLEAN]
    /\ admitted \in SUBSET Items /\ finished \in SUBSET Items /\ released \in SUBSET Items
    /\ adrift \in SUBSET Items
    /\ recorded \in [Items -> Nat] /\ enough \in BOOLEAN /\ reason \in DOMAIN Rank

-----------------------------------------------------------------------------
(* Helpers *)

Running == phase = "running"
Over == phase \in {"ended", "torn"}
Stopped == reason # "none"
At(w, step) == task[w].at = step
InHand(w, i) == i \in task[w].item
Idle == [at |-> "idle", item |-> {}]
OnHost(w, h) == \E i \in task[w].item : HostOf[i] = h
Holds(w, h) == task[w].at \in Holding /\ OnHost(w, h)
Elements(s) == {s[n] : n \in DOMAIN s}

\* The first reason of the highest priority wins.
Higher(r) == IF Rank[r] > Rank[reason] THEN r ELSE reason
Stop(r) == reason' = Higher(r)

\* Mutant: what is admitted counts as decided.
PendingGivenBack == released \ finished

\* Ledger.pending
Pending == (admitted \cup released) \ finished

\* Ledger.admit and Ledger.release.
Admit(i) ==
    /\ admitted' = admitted \cup {i}
    /\ released' = released \ {i}
    /\ UNCHANGED <<finished, adrift>>

\* Mutant: a skipped item stays admitted.
GiveBackNothing(some) == UNCHANGED ledger

GiveBack(some) ==
    /\ admitted' = admitted \ some
    /\ released' = released \cup (some \cap admitted)
    /\ UNCHANGED <<finished, adrift>>

\* Mutant: one slot too many.
FreeOneMore(h, b, c) == b[h] <= MaxPerHost /\ ~c[h]

\* HostLimiter.free_now, with the slots b and the intervals c.
Free(h, b, c) == b[h] < MaxPerHost /\ ~c[h]

\* Mutant: a release wakes nobody.
NotifiedNobody(w) == task[w]

\* Condition.notify_all: every waiting worker looks again.
Notified(w) == IF At(w, "asleep") THEN [task[w] EXCEPT !.at = "asking"] ELSE task[w]

-----------------------------------------------------------------------------
(* The feeder *)

\* Mutant: only decided items are skipped.
SeenDecided(i) == i \in finished

\* Admitted in this run or before it: _feed_tokens skips it.
Seen(i) == i \in admitted

ReadItem(i) ==
    /\ Running /\ feeder = "reading" /\ ~Stopped
    /\ i \in unread
    /\ unread' = unread \ {i}
    /\ \/ Seen(i) /\ UNCHANGED <<feeder, offer, queue, ledger>>
       \/ /\ ~Seen(i) /\ Len(queue) < MaxQueue
          /\ queue' = Append(queue, i) /\ Admit(i)
          /\ UNCHANGED <<feeder, offer>>
       \/ /\ ~Seen(i) /\ Len(queue) >= MaxQueue
          /\ feeder' = "offering" /\ offer' = {i}
          /\ UNCHANGED <<queue, ledger>>
    /\ UNCHANGED <<life, feedComplete, parked, task, hosts, recorded, enough, reason>>

\* The pending put finds room, whether or not the run has stopped.
PutOffered ==
    /\ Running /\ feeder = "offering"
    /\ Len(queue) < MaxQueue
    /\ \E i \in offer :
         /\ queue' = Append(queue, i)
         /\ Admit(i)
    /\ feeder' = "reading" /\ offer' = {}
    /\ UNCHANGED <<life, unread, feedComplete, parked, task, hosts, recorded, enough, reason>>

\* The wait times out and the run has stopped.
GiveUpOffer ==
    /\ Running /\ feeder = "offering" /\ Stopped
    /\ feeder' = "reading" /\ offer' = {}
    /\ UNCHANGED <<life, unread, feedComplete, queue, parked, task, hosts, ledger, recorded, enough, reason>>

\* The source is read to its end; or the run has stopped, before a chunk or
\* inside the last one; or the source fails or is over its budget.
CloseFeed ==
    /\ Running /\ feeder = "reading"
    /\ \/ ~Stopped /\ unread = {} /\ feedComplete' = TRUE /\ UNCHANGED reason
       \/ Stopped /\ feedComplete' \in BOOLEAN /\ UNCHANGED reason
       \/ feedComplete' = FALSE /\ \E r \in {"stopped", "budget_exhausted"} \cap Stops : Stop(r)
    /\ feeder' = "done"
    /\ UNCHANGED <<life, offer, unread, queue, parked, task, hosts, ledger, recorded, enough>>

Feeder == (\E i \in Items : ReadItem(i)) \/ PutOffered \/ GiveUpOffer \/ CloseFeed

-----------------------------------------------------------------------------
(* The workers *)

\* _next_item
TakeItem(w) ==
    /\ Running /\ At(w, "idle")
    /\ queue # <<>>
    /\ task' = [task EXCEPT ![w] = [at |-> "taken", item |-> {Head(queue)}]]
    /\ queue' = Tail(queue)
    /\ UNCHANGED <<life, feed, parked, hosts, ledger, recorded, enough, reason>>

LeaveWork(w) ==
    /\ Running /\ At(w, "idle")
    /\ queue = <<>> /\ feeder = "done"
    /\ task' = [task EXCEPT ![w].at = "left"]
    /\ UNCHANGED <<life, feed, queue, parked, hosts, ledger, recorded, enough, reason>>

\* Mutant: an item is parked although nobody holds its host.
ParkableUnheld(h, b, p) == ParkedCount(p) < MaxQueue

\* _park: only while somebody holds the host, and only so many.
Parkable(h, b, p) == b[h] > 0 /\ ParkedCount(p) < MaxQueue

\* _measure_item up to its first await, for an item i in the hand of w, with the
\* slots b, the intervals c, the parked items p and the tasks t.  A stopped run
\* gives the item back, and so it does with everything parked behind it.
Enter(w, i, b, c, p, t) ==
    LET h == HostOf[i] IN
    \/ /\ Stopped
       /\ GiveBack({i} \cup Elements(p[h]))
       /\ parked' = [p EXCEPT ![h] = <<>>] /\ busy' = b
       /\ task' = [t EXCEPT ![w] = Idle]
    \/ /\ ~Stopped /\ UNCHANGED ledger
       /\ \/ /\ Free(h, b, c)
             /\ busy' = [b EXCEPT ![h] = @ + 1] /\ parked' = p
             /\ task' = [t EXCEPT ![w] = [at |-> "measuring", item |-> {i}]]
          \/ /\ ~Free(h, b, c) /\ Parkable(h, b, p)
             /\ parked' = [p EXCEPT ![h] = Append(@, i)] /\ busy' = b
             /\ task' = [t EXCEPT ![w] = Idle]
          \/ /\ ~Free(h, b, c) /\ ~Parkable(h, b, p)
             /\ parked' = p /\ busy' = b
             /\ task' = [t EXCEPT ![w] = [at |-> "asleep", item |-> {i}]]

Arrive(w) ==
    /\ Running /\ At(w, "taken")
    /\ \E i \in task[w].item : Enter(w, i, busy, cooling, parked, task)
    /\ UNCHANGED <<life, feed, queue, cooling, recorded, enough, reason>>

\* HostLimiter.acquire; the run may have stopped while the worker waited.
AskHost(w) ==
    /\ Running /\ At(w, "asking")
    /\ \E i \in task[w].item :
         LET h == HostOf[i] IN
         \/ /\ Free(h, busy, cooling)
            /\ busy' = [busy EXCEPT ![h] = @ + 1]
            /\ IF Stopped
               THEN GiveBack({i}) /\ task' = [task EXCEPT ![w].at = "releasing"]
               ELSE UNCHANGED ledger /\ task' = [task EXCEPT ![w].at = "measuring"]
         \/ /\ ~Free(h, busy, cooling)
            /\ task' = [task EXCEPT ![w].at = "asleep"]
            /\ UNCHANGED <<busy, ledger>>
    /\ UNCHANGED <<life, feed, queue, parked, cooling, recorded, enough, reason>>

Record(i) == recorded' = [recorded EXCEPT ![i] = @ + 1]
Finish(i) == finished' = finished \cup {i} /\ UNCHANGED <<admitted, released, adrift>>

\* _check: carried or measured, which may reach the N that is wanted; refused
\* by a budget; or ended by an error.  A carried item is not finished.
Measure(w) ==
    /\ Running /\ At(w, "measuring")
    /\ \E i \in task[w].item :
         \/ /\ Record(i) /\ task' = [task EXCEPT ![w].at = "emitting"]
            /\ IF i \in Fresh THEN UNCHANGED ledger ELSE Finish(i)
            /\ enough' \in {enough, enough \/ "want_reached" \in Stops}
            /\ UNCHANGED reason
         \/ /\ i \notin Fresh /\ "budget_exhausted" \in Stops
            /\ Finish(i) /\ Record(i) /\ task' = [task EXCEPT ![w].at = "emitting"]
            /\ Stop("budget_exhausted")
            /\ UNCHANGED enough
         \/ /\ i \notin Fresh
            /\ Finish(i) /\ task' = [task EXCEPT ![w].at = "releasing"]
            /\ UNCHANGED <<recorded, enough, reason>>
    /\ UNCHANGED <<life, feed, queue, parked, hosts>>

\* The hand-off to the consumer is over; _stop_on_budget_or_want.
Emitted(w) ==
    /\ Running /\ At(w, "emitting")
    /\ task' = [task EXCEPT ![w].at = "releasing"]
    /\ \/ "budget_exhausted" \in Stops /\ Stop("budget_exhausted")
       \/ IF enough THEN Stop("want_reached") ELSE UNCHANGED reason
    /\ UNCHANGED <<life, feed, queue, parked, hosts, ledger, recorded, enough>>

\* _unpark
Unpark(h) == IF parked[h] = <<>> THEN {} ELSE {Head(parked[h])}

\* HostLimiter.release, then the next item parked on the host, in one go.
FreeHost(w) ==
    /\ Running /\ At(w, "releasing")
    /\ \E i \in task[w].item :
         LET h == HostOf[i]
             b == [busy EXCEPT ![h] = IF @ > 0 THEN @ - 1 ELSE 0]
             t == [v \in Workers |-> Notified(v)]
         IN
         /\ cooling' = [cooling EXCEPT ![h] = @ \/ (spaced /\ b[h] = 0)]
         /\ IF Unpark(h) = {}
            THEN /\ task' = [t EXCEPT ![w] = Idle] /\ busy' = b
                 /\ UNCHANGED <<parked, ledger>>
            ELSE \E k \in Unpark(h) :
                   Enter(w, k, b, cooling', [parked EXCEPT ![h] = Tail(@)], t)
    /\ UNCHANGED <<life, feed, queue, recorded, enough, reason>>

Worker(w) ==
    \/ TakeItem(w) \/ LeaveWork(w) \/ Arrive(w) \/ AskHost(w)
    \/ Measure(w) \/ Emitted(w) \/ FreeHost(w)

-----------------------------------------------------------------------------
(* The run *)

\* The minimum interval of a host elapses; nobody is told.
Elapse(h) ==
    /\ cooling[h]
    /\ cooling' = [cooling EXCEPT ![h] = FALSE]
    /\ UNCHANGED <<life, feed, queue, parked, task, busy, ledger, recorded, enough, reason>>

\* PipelineControl: seen by the next check of any task.
Control(r) ==
    /\ Running
    /\ r \in {"paused", "cancelled"} \cap Stops
    /\ Stop(r)
    /\ UNCHANGED <<life, feed, queue, parked, task, hosts, ledger, recorded, enough>>

\* The head of _execute: only the ledger, the hosts and the results stay.
Start ==
    /\ phase = "ready" \/ Over
    /\ run < Rounds
    /\ run' = run + 1 /\ phase' = "running" /\ UNCHANGED spaced
    /\ feeder' = "reading" /\ offer' = {} /\ unread' = Items /\ feedComplete' = FALSE
    /\ queue' = <<>> /\ parked' = [h \in Hosts |-> <<>>]
    /\ task' = [w \in Workers |-> Idle]
    /\ reason' = IF enough THEN "want_reached" ELSE "none"
    /\ UNCHANGED <<hosts, ledger, recorded, enough>>

\* Every task of the group is over.
End ==
    /\ Running /\ feeder = "done"
    /\ \A w \in Workers : At(w, "left")
    /\ phase' = "ended"
    /\ IF Stopped THEN UNCHANGED reason
       ELSE Stop(IF feedComplete /\ Pending = {} THEN "items_exhausted" ELSE "stopped")
    /\ UNCHANGED <<spaced, run, feed, queue, parked, task, hosts, ledger, recorded, enough>>

\* The deadline passes, or the consumer goes away: every task is cancelled
\* where it waits, and gives back the host it holds.
TearDown(r) ==
    /\ Running
    /\ r \in {"deadline_exceeded", "cancelled"} \cap Stops
    /\ Stop(r)
    /\ phase' = "torn" /\ feeder' = "done"
    /\ task' = [w \in Workers |-> [task[w] EXCEPT !.at = "left"]]
    /\ busy' = [h \in Hosts |-> 0]
    /\ cooling' = [h \in Hosts |-> cooling[h] \/ (spaced /\ busy[h] > 0)]
    /\ adrift' = admitted \ finished
    /\ UNCHANGED <<spaced, run, offer, unread, feedComplete, queue, parked, admitted, finished, released,
                   recorded, enough>>

\* No deadlock: the run is over.
Rest == Over /\ UNCHANGED vars

PInit ==
    /\ spaced \in Spacings
    /\ run = 0 /\ phase = "ready"
    /\ feeder = "done" /\ offer = {} /\ unread = {} /\ feedComplete = FALSE
    /\ queue = <<>> /\ parked = [h \in Hosts |-> <<>>]
    /\ task = [w \in Workers |-> [Idle EXCEPT !.at = "left"]]
    /\ busy = [h \in Hosts |-> 0] /\ cooling = [h \in Hosts |-> FALSE]
    /\ admitted = {} /\ finished = {} /\ released = {} /\ adrift = {}
    /\ recorded = [i \in Items |-> 0]
    /\ enough = FALSE /\ reason = "none"

PNext ==
    \/ Feeder
    \/ \E w \in Workers : Worker(w)
    \/ \E h \in Hosts : Elapse(h)
    \/ \E r \in Stops : Control(r) \/ TearDown(r)
    \/ Start \/ End \/ Rest

PSpec == PInit /\ [][PNext]_vars

\* The event loop runs every task that can go on, the source and the
\* measurements end, and time passes.  Nothing is assumed of users.
LivePSpec ==
    /\ PSpec
    /\ WF_vars(Feeder) /\ WF_vars(End)
    /\ \A w \in Workers : WF_vars(Worker(w))
    /\ \A h \in Hosts : WF_vars(Elapse(h))

-----------------------------------------------------------------------------
(* Properties *)

\* HostLimiter: the slots in use are the workers that hold the host, through
\* every way to get one, and there are at most max_per_host of them.
HostSlots ==
    \A h \in Hosts :
        LET holders == {w \in Workers : Holds(w, h)} IN
        Running => busy[h] = Cardinality(holders) /\ busy[h] <= MaxPerHost

\* "No item is measured twice", within a run and over the runs of a Pipeline,
\* and a carried prior is not measured either (the head of pipeline.py).
RecordedOnce == \A i \in Items : recorded[i] <= 1

\* "a parked item always has a worker that comes back for it" (Pipeline._worker):
\* somebody holds its host or waits for it.
ParkedComesBack ==
    \A h \in Hosts : Running /\ parked[h] # <<>> =>
        \E w \in Workers : OnHost(w, h) /\ (Holds(w, h) \/ At(w, "asking") \/ At(w, "asleep"))

\* While a run goes on, an admitted item that is not decided is in one place:
\* in the queue, parked, or in the hand of one worker (_enqueue, _park, _unpark
\* and Ledger.release).  A run that was not torn down keeps nothing back: what it
\* has not decided is offered again by the next one, "an item nobody got to is
\* still pending and is measured on the next run" (Pipeline._enqueue).
NothingLost ==
    /\ Running => \A i \in admitted \ (finished \cup adrift) :
         \/ recorded[i] > 0
         \/ Cardinality({n \in DOMAIN queue : queue[n] = i})
            + Cardinality({w \in Workers : InHand(w, i)})
            + Cardinality({n \in DOMAIN parked[HostOf[i]] : parked[HostOf[i]][n] = i}) = 1
    /\ phase = "ended" =>
         \A i \in admitted \ adrift : i \in finished \/ recorded[i] > 0

\* "Every item was measured" and "the chain ended with items left" are different
\* outcomes (Pipeline._execute): exhausted means that every item of the source
\* was decided.
ExhaustedMeansAll == Over /\ reason = "items_exhausted" => finished = Items

\* Once the feed is closed every worker leaves: "a worker that still has an item
\* in hand measures it first and then leaves" (Pipeline._drain_workers).
EveryWorkerLeaves == Running /\ feeder = "done" ~> Over

\* The same where no interval is kept between the measurements of a host.
WorkersLeave == Running /\ feeder = "done" /\ ~spaced ~> Over

\* "A satisfied N is not hidden by a budget that ran out in the same breath"
\* (_STOP_PRIORITY): a run that reached its N says so, or that it was cancelled.
SatisfiedIsSaid == phase = "ended" /\ enough => reason \in {"want_reached", "cancelled"}

=============================================================================
