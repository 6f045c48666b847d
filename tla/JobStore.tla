------------------------------ MODULE JobStore ------------------------------
(***************************************************************************)
(* The persistent job lifecycle, proxy_workbench/jobs.py: the tables job   *)
(* and job_item, and one action per write transaction of JobStore.  A      *)
(* transaction that raises rolls back, so a refused call is a disabled     *)
(* action; a call that is answered without a write is a stuttering step.   *)
(*                                                                         *)
(* Two things are left to the modules that extend this one.  JobControl    *)
(* adds the keys of pause, resume and cancel, under which a repeated call  *)
(* is answered and writes nothing.  JobRunner adds the clock: here Recover *)
(* takes the set of jobs whose heartbeat is stale, and Expire a job whose  *)
(* deadline passed, as free choices.                                       *)
(***************************************************************************)
EXTENDS Naturals, FiniteSets

CONSTANTS
    Jobs,      \* row identities new_job_id() can hand out
    Items,     \* item ids a queue can name; one item stands for one endpoint
    Keys,      \* idempotency keys of callers
    Clients,   \* threads and processes that call submit()
    NoJob, NoKey

ASSUME SentinelAssumption == NoJob \notin Jobs /\ NoKey \notin Keys
ASSUME ItemsAssumption == Items # {}

VARIABLES
    state,     \* job.state, "none" while there is no row
    key,       \* job.idempotency_key
    digest,    \* job.input_digest: the queue the request was made with
    origin,    \* retry_of in the first event of a retry
    item,      \* job_item.state, "none" while there is no row
    observed,  \* items with an observation_id
    held       \* the created job each caller of submit() still has to queue

vars == <<state, key, digest, origin, item, observed, held>>

-----------------------------------------------------------------------------
(* Types *)

TerminalJobStates == {"succeeded", "partial", "failed", "cancelled", "timed_out"}
JobStates == {"created", "queued", "running", "paused"} \cup TerminalJobStates
ActiveJobStates == {"queued", "running"}

TerminalItemStates == {"done", "unreachable", "blocked", "partial", "failed"}
UnfinishedItemStates == {"pending", "prefiltered", "probing"}
ItemStates == UnfinishedItemStates \cup TerminalItemStates

MaybeKey == Keys \cup {NoKey}

TypeOK ==
    /\ state \in [Jobs -> JobStates \cup {"none"}]
    /\ key \in [Jobs -> MaybeKey]
    /\ digest \in [Jobs -> SUBSET Items]
    /\ origin \in [Jobs -> Jobs \cup {NoJob}]
    /\ item \in [Jobs -> [Items -> ItemStates \cup {"none"}]]
    /\ observed \in [Jobs -> SUBSET Items]
    /\ held \in [Clients -> Jobs \cup {NoJob}]

-----------------------------------------------------------------------------
(* Helper state formulae *)

Exists(j) == state[j] # "none"
Terminal(j) == state[j] \in TerminalJobStates

\* The rows of a job's queue.
Queue(j) == {i \in Items : item[j][i] # "none"}
Unfinished(j) == {i \in Items : item[j][i] \in UnfinishedItemStates}

\* JOB_TRANSITIONS
NextJobStates(s) ==
    CASE s = "created" -> {"queued", "cancelled", "failed"}
      [] s = "queued"  -> {"running", "paused", "cancelled", "timed_out", "failed"}
      [] s = "running" -> {"paused"} \cup TerminalJobStates
      [] s = "paused"  -> {"queued", "cancelled", "failed", "timed_out"}
      [] OTHER         -> {}

\* ITEM_TRANSITIONS
NextItemStates(s) ==
    CASE s = "pending"     -> {"prefiltered", "probing", "blocked"}
      [] s = "prefiltered" -> {"probing", "blocked"}
      [] s = "probing"     -> TerminalItemStates
      [] OTHER             -> {}

\* _insert_items into a job that has none of them
NewQueue(queue) == [i \in Items |-> IF i \in queue THEN "pending" ELSE "none"]

\* Mutant: _requeue forgets the items a worker has in hand.
RequeueUnclaimed(rows) ==
    [i \in Items |-> IF rows[i] = "prefiltered" THEN "pending" ELSE rows[i]]

\* Mutant: _requeue measures partial verdicts again.
RequeuePartial(rows) ==
    [i \in Items |-> IF rows[i] \in UnfinishedItemStates \cup {"partial"}
                     THEN "pending" ELSE rows[i]]

\* _requeue: unfinished items go back to pending, observations stay attached
Requeue(rows) ==
    [i \in Items |-> IF rows[i] \in UnfinishedItemStates THEN "pending" ELSE rows[i]]

\* _drop_obsolete: unfinished items that left the collection are blocked
DropObsolete(rows, gone) ==
    [i \in Items |-> IF i \in gone /\ rows[i] \in UnfinishedItemStates
                     THEN "blocked" ELSE rows[i]]

-----------------------------------------------------------------------------
(* Creation *)

Init ==
    /\ state = [j \in Jobs |-> "none"]
    /\ key = [j \in Jobs |-> NoKey]
    /\ digest = [j \in Jobs |-> {}]
    /\ origin = [j \in Jobs |-> NoJob]
    /\ item = [j \in Jobs |-> [i \in Items |-> "none"]]
    /\ observed = [j \in Jobs |-> {}]
    /\ held = [c \in Clients |-> NoJob]

\* Mutant: the key is looked up among live jobs only.
BoundToLive(k) ==
    {j \in Jobs : Exists(j) /\ ~Terminal(j) /\ k # NoKey /\ key[j] = k}

\* The job an idempotency key is bound to, if any (the SELECT of create_job).
BoundTo(k) == {j \in Jobs : Exists(j) /\ k # NoKey /\ key[j] = k}

\* INSERT INTO job and its job_item rows, as create_job and retry do it.
InsertJob(j, s, queue, k, from) ==
    /\ ~Exists(j)
    /\ BoundTo(k) = {}
    /\ state' = [state EXCEPT ![j] = s]
    /\ key' = [key EXCEPT ![j] = k]
    /\ digest' = [digest EXCEPT ![j] = queue]
    /\ origin' = [origin EXCEPT ![j] = from]
    /\ item' = [item EXCEPT ![j] = NewQueue(queue)]
    /\ UNCHANGED observed

\* submit(), first transaction: create_job makes the row, ...
SubmitCreate(c, j, queue, k) ==
    /\ held[c] = NoJob
    /\ InsertJob(j, "created", queue, k, NoJob)
    /\ held' = [held EXCEPT ![c] = j]

\* ... or a repeat of the request finds the job of its key.  Only a job still
\* in "created" is queued by this caller as well.
SubmitReplay(c, k, queue) ==
    /\ held[c] = NoJob
    /\ \E j \in BoundTo(k) :
         /\ digest[j] = queue
         /\ state[j] = "created"
         /\ held' = [held EXCEPT ![c] = j]
    /\ UNCHANGED <<state, key, digest, origin, item, observed>>

\* submit(), second transaction: queue() looks at the state the job has now.
\* The table lets a paused job through; any other state raises.
SubmitQueue(c) ==
    /\ held[c] # NoJob
    /\ held' = [held EXCEPT ![c] = NoJob]
    /\ state' = IF "queued" \in NextJobStates(state[held[c]])
                THEN [state EXCEPT ![held[c]] = "queued"]
                ELSE state
    /\ UNCHANGED <<key, digest, origin, item, observed>>

\* The callers die between the two transactions: nobody queues the job any more.
SubmitLost(dead) ==
    /\ \E c \in dead : held[c] # NoJob
    /\ held' = [c \in Clients |-> IF c \in dead THEN NoJob ELSE held[c]]
    /\ UNCHANGED <<state, key, digest, origin, item, observed>>

\* Mutant: the queue stays open until the first claim could happen.
QueueOpenUntilRun(j) == state[j] \in {"created", "queued"}

QueueOpen(j) == state[j] = "created"

\* enqueue: the queue is fixed once the job leaves "created".
Enqueue(j, more) ==
    /\ QueueOpen(j)
    /\ more # {}
    /\ more \cap Queue(j) = {}
    /\ item' = [item EXCEPT ![j] = [i \in Items |->
                                      IF i \in more THEN "pending" ELSE @[i]]]
    /\ UNCHANGED <<state, key, digest, origin, observed, held>>

NotDone(o, wanted) == {i \in wanted : item[o][i] # "done"}

\* retry: a new queued job from the chosen items that are not done.
Retry(o, j, wanted, k) ==
    /\ Exists(o)
    /\ wanted \subseteq Queue(o)
    /\ NotDone(o, wanted) # {}
    /\ InsertJob(j, "queued", NotDone(o, wanted), k, o)
    /\ UNCHANGED held

-----------------------------------------------------------------------------
(* Lifecycle *)

\* Mutant: only the job itself is looked at.
SlotFreeUnchecked(j) == state[j] # "running"

SlotFree(j) == \A other \in Jobs \ {j} : state[other] # "running"

\* start: refused while another job is running.
Start(j) ==
    /\ state[j] = "queued"
    /\ SlotFree(j)
    /\ state' = [state EXCEPT ![j] = "running"]
    /\ UNCHANGED <<key, digest, origin, item, observed, held>>

\* pause: unfinished items go back to the queue; a created job passes through
\* "queued" in the same transaction.
Pause(j) ==
    /\ state[j] \in {"created", "queued", "running"}
    /\ state' = [state EXCEPT ![j] = "paused"]
    /\ item' = [item EXCEPT ![j] = Requeue(@)]
    /\ UNCHANGED <<key, digest, origin, observed, held>>

\* resume: the items that left the collection are blocked, also for a job that
\* is queued already; only a paused job is requeued.
Resume(j, gone) ==
    /\ \/ /\ state[j] = "queued"
          /\ item' = [item EXCEPT ![j] = DropObsolete(@, gone)]
          /\ UNCHANGED state
       \/ /\ state[j] = "paused"
          /\ state' = [state EXCEPT ![j] = "queued"]
          /\ item' = [item EXCEPT ![j] = Requeue(DropObsolete(@, gone))]
    /\ UNCHANGED <<key, digest, origin, observed, held>>

\* cancel: the items stay exactly as they are.
Cancel(j) ==
    /\ "cancelled" \in NextJobStates(state[j])
    /\ state' = [state EXCEPT ![j] = "cancelled"]
    /\ UNCHANGED <<key, digest, origin, item, observed, held>>

\* finish without an explicit state follows the items; with one it is taken.
ResultOf(j) == IF Unfinished(j) = {} THEN "succeeded" ELSE "partial"

Finish(j, chosen) ==
    /\ state[j] = "running"
    /\ chosen \in TerminalJobStates \cup {"auto"}
    /\ state' = [state EXCEPT ![j] = IF chosen = "auto" THEN ResultOf(j) ELSE chosen]
    /\ UNCHANGED <<key, digest, origin, item, observed, held>>

\* fail: the diagnosis of an execution error, from any live state.
Fail(j) ==
    /\ Exists(j) /\ ~Terminal(j)
    /\ state' = [state EXCEPT ![j] = "failed"]
    /\ UNCHANGED <<key, digest, origin, item, observed, held>>

\* enforce_deadline, for a job whose deadline is past.
Expire(j) ==
    /\ state[j] \in ActiveJobStates
    /\ state' = [state EXCEPT ![j] = "timed_out"]
    /\ UNCHANGED <<key, digest, origin, item, observed, held>>

\* recover: every job of the dead process is paused in one transaction.
Recover(stale) ==
    /\ stale # {}
    /\ \A j \in stale : state[j] \in ActiveJobStates
    /\ state' = [j \in Jobs |-> IF j \in stale THEN "paused" ELSE state[j]]
    /\ item' = [j \in Jobs |-> IF j \in stale THEN Requeue(item[j]) ELSE item[j]]
    /\ UNCHANGED <<key, digest, origin, observed, held>>

-----------------------------------------------------------------------------
(* Items *)

\* sync_membership: removals only, for a job that is not over.
SyncMembership(j, gone) ==
    /\ Exists(j) /\ ~Terminal(j)
    /\ gone \cap Unfinished(j) # {}
    /\ item' = [item EXCEPT ![j] = DropObsolete(@, gone)]
    /\ UNCHANGED <<state, key, digest, origin, observed, held>>

\* _item_state, the one place where a job_item row moves by the table.
SetItem(j, i, s) ==
    /\ s \in NextItemStates(item[j][i])
    /\ item' = [item EXCEPT ![j][i] = s]

\* claim: only of a running job.
Claim(j, i) ==
    /\ state[j] = "running"
    /\ item[j][i] \in {"pending", "prefiltered"}
    /\ SetItem(j, i, "probing")
    /\ UNCHANGED <<state, key, digest, origin, observed, held>>

\* mark_prefiltered does not look at the job.
MarkPrefiltered(j, i) ==
    /\ SetItem(j, i, "prefiltered")
    /\ UNCHANGED <<state, key, digest, origin, observed, held>>

\* record_observation: the measurement is attached before the verdict.  The
\* job is not looked at: it may have been paused or cancelled meanwhile.
RecordObservation(j, i) ==
    /\ item[j][i] \in UnfinishedItemStates
    /\ observed' = [observed EXCEPT ![j] = @ \cup {i}]
    /\ UNCHANGED <<state, key, digest, origin, item, held>>

VerdictBacked(s, measured) == s = "done" => measured

\* finish_item with a terminal verdict; "done" must bring its observation.
FinishItem(j, i, s, measured) ==
    /\ s \in TerminalItemStates
    /\ VerdictBacked(s, measured)
    /\ SetItem(j, i, s)
    /\ observed' = IF measured THEN [observed EXCEPT ![j] = @ \cup {i}] ELSE observed
    /\ UNCHANGED <<state, key, digest, origin, held>>

-----------------------------------------------------------------------------
(* Next-state relation *)

Submit ==
    \/ \E dead \in SUBSET Clients : SubmitLost(dead)
    \/ \E c \in Clients :
         \/ SubmitQueue(c)
         \/ \E queue \in SUBSET Items, k \in MaybeKey :
              \/ \E j \in Jobs : SubmitCreate(c, j, queue, k)
              \/ SubmitReplay(c, k, queue)

Control ==
    \E j \in Jobs :
       \/ Pause(j)
       \/ Cancel(j)
       \/ \E some \in SUBSET Items :
            \/ Resume(j, some)
            \/ Enqueue(j, some)
            \/ SyncMembership(j, some)
            \/ \E o \in Jobs, k \in MaybeKey : Retry(o, j, some, k)

Worker ==
    \/ \E j \in Jobs :
         \/ Start(j) \/ Fail(j) \/ Expire(j)
         \/ \E s \in TerminalJobStates \cup {"auto"} : Finish(j, s)
         \/ \E i \in Items :
              \/ Claim(j, i) \/ MarkPrefiltered(j, i) \/ RecordObservation(j, i)
              \/ \E s \in TerminalItemStates, m \in BOOLEAN : FinishItem(j, i, s, m)
    \/ \E stale \in SUBSET Jobs : Recover(stale)

Next == Submit \/ Control \/ Worker

Spec == Init /\ [][Next]_vars

-----------------------------------------------------------------------------
(* Refinement *)

PhaseOf(j) ==
    CASE state[j] = "none"    -> "absent"
      [] state[j] = "running" -> "running"
      [] Terminal(j)          -> "over"
      [] OTHER                -> "waiting"

\* "blocked" means refused before measuring, so it is not a verdict.
Judged(j) == {i \in Items : item[j][i] \in TerminalItemStates \ {"blocked"}}

Phase == [j \in Jobs |-> PhaseOf(j)]
Verdicts == [j \in Jobs |-> Judged(j)]

Contract == INSTANCE JobContract WITH phase <- Phase, verdicts <- Verdicts

\* The store implements the contract.  It rests on NothingInFlight: a verdict
\* can arrive only for an item in flight, so never while the job waits.
ImplementsContract == Contract!Spec

-----------------------------------------------------------------------------
(* Properties *)

\* At most one job writes measurements: two processes that both start a queued
\* job, or a start that races recovery, never leave two running jobs.
OneRunningJob ==
    \A j, o \in Jobs : state[j] = "running" /\ state[o] = "running" => j = o

\* An idempotency key names one job for ever, however often submit and retry
\* are repeated by any number of callers and whatever became of the job.
OneJobPerKey ==
    \A j, o \in Jobs : key[j] # NoKey /\ key[j] = key[o] => j = o

\* A job nobody is running has nothing in flight: its queue can be resumed by
\* another process without an item being measured twice at the same time.
NothingInFlight ==
    \A j \in Jobs : state[j] \in {"created", "queued", "paused"} =>
        \A i \in Items : item[j][i] # "probing"

\* A done item has the observation of its measurement.
DoneIsMeasured ==
    \A j \in Jobs, i \in Items : item[j][i] = "done" => i \in observed[j]

\* A retry holds only items of the job it repeats, and so does a retry of a
\* retry: no chain of retries widens the scope.
RetryWithinScope ==
    \A j \in Jobs : origin[j] # NoJob => Queue(j) \subseteq Queue(origin[j])

\* History is never rewritten: a finished job keeps its state, a finished item
\* its verdict and a measured item its observation, and a job that has left
\* "created" keeps the rows of its queue, its fixed input, through pause, resume,
\* membership changes, recovery, retry and late workers.
KeepsHistory(j) ==
    /\ Terminal(j) => state'[j] = state[j]
    /\ state[j] \notin {"none", "created"} => Queue(j)' = Queue(j)
    /\ observed[j] \subseteq observed'[j]
    /\ \A i \in Items : item[j][i] \in TerminalItemStates => item'[j][i] = item[j][i]

HistoryKept == [][\A j \in Jobs : KeepsHistory(j)]_vars

=============================================================================
