----------------------------- MODULE Jobs_proofs -----------------------------
(***************************************************************************)
(* Theorems about the job store and those who use it.                      *)
(*                                                                         *)
(* About JobStore, for any number of jobs, items, keys and callers: type   *)
(* correctness, the safety invariants of the lifecycle, what a step may    *)
(* never do, and that the store implements JobContract.  Then about        *)
(* JobControl: a keyed call changes the tables like a plain one, so all of *)
(* this holds of it, and a cancel that was answered holds for ever.        *)
(*                                                                         *)
(* About JobRunner, for every set of jobs, items and processes: everything *)
(* rests on how a step moves the processes (Shape): it leaves them alone,  *)
(* lets one of them go on, end or take the lock, or stops all.  From it    *)
(* follows that a runner or a check command that does anything holds       *)
(* workbench.lock, and from that the properties.                           *)
(***************************************************************************)
EXTENDS JobRunner, JobControl, TLAPS

-----------------------------------------------------------------------------
(* The store *)

Rows == [Items -> ItemStates \cup {"none"}]

\* The three ways a queue is rewritten yield a queue.
LEMMA RowFunctions ==
    ASSUME NEW rows \in Rows, NEW queue \in SUBSET Items, NEW gone \in SUBSET Items
    PROVE  /\ NewQueue(queue) \in Rows
           /\ Requeue(rows) \in Rows
           /\ DropObsolete(rows, gone) \in Rows
  BY DEF Rows, NewQueue, Requeue, DropObsolete, ItemStates, UnfinishedItemStates,
         TerminalItemStates

\* Only states of the two tables are ever entered.
LEMMA TransitionsStayInside ==
    /\ \A s : NextJobStates(s) \subseteq JobStates
    /\ \A s : NextItemStates(s) \subseteq ItemStates
  BY DEF NextJobStates, NextItemStates, JobStates, ItemStates, TerminalJobStates,
         TerminalItemStates, UnfinishedItemStates

\* Moving one item by the table keeps the rows typed.
LEMMA SetItemTyped ==
    ASSUME TypeOK, NEW j \in Jobs, NEW i \in Items, NEW s \in ItemStates, SetItem(j, i, s)
    PROVE  item' \in [Jobs -> [Items -> ItemStates \cup {"none"}]]
  BY DEF TypeOK, SetItem

\* Inserting a job keeps every column typed.
LEMMA InsertTyped ==
    ASSUME TypeOK, NEW j \in Jobs, NEW s \in JobStates, NEW queue \in SUBSET Items,
           NEW k \in MaybeKey, NEW from \in Jobs \cup {NoJob},
           InsertJob(j, s, queue, k, from), held' \in [Clients -> Jobs \cup {NoJob}]
    PROVE  TypeOK'
  <1>1. NewQueue(queue) \in Rows
    BY RowFunctions DEF Rows, NewQueue, ItemStates, UnfinishedItemStates
  <1>2. QED
    BY <1>1 DEF TypeOK, InsertJob, Rows, MaybeKey

\* A step enters only states of the tables of jobs.py.
LEMMA TypeKept == ASSUME TypeOK, [Next]_vars PROVE TypeOK'
  <1>t. /\ \A j \in Jobs : item[j] \in Rows
        /\ \A j \in Jobs : state[j] \in JobStates \cup {"none"}
    BY DEF TypeOK, Rows
  <1>0. ASSUME NEW dead \in SUBSET Clients, SubmitLost(dead) PROVE TypeOK'
    BY <1>0 DEF SubmitLost, TypeOK
  <1>1. ASSUME NEW c \in Clients, SubmitQueue(c) PROVE TypeOK'
    BY <1>1 DEF SubmitQueue, TypeOK, JobStates
  <1>2. ASSUME NEW c \in Clients, NEW j \in Jobs, NEW queue \in SUBSET Items,
               NEW k \in MaybeKey, SubmitCreate(c, j, queue, k)
        PROVE  TypeOK'
    <2>1. held' \in [Clients -> Jobs \cup {NoJob}]
      BY <1>2 DEF SubmitCreate, TypeOK
    <2>2. InsertJob(j, "created", queue, k, NoJob)
      BY <1>2 DEF SubmitCreate
    <2>3. "created" \in JobStates
      BY DEF JobStates
    <2>4. QED
      BY <2>1, <2>2, <2>3, InsertTyped
  <1>3. ASSUME NEW c \in Clients, NEW k \in MaybeKey, NEW queue \in SUBSET Items,
               SubmitReplay(c, k, queue)
        PROVE  TypeOK'
    BY <1>3 DEF SubmitReplay, BoundTo, TypeOK
  <1>4. ASSUME NEW j \in Jobs, Pause(j) PROVE TypeOK'
    BY <1>4, <1>t, RowFunctions DEF Pause, TypeOK, Rows, JobStates
  <1>5. ASSUME NEW j \in Jobs, Cancel(j) PROVE TypeOK'
    BY <1>5, TransitionsStayInside DEF Cancel, TypeOK, JobStates
  <1>6. ASSUME NEW j \in Jobs, NEW gone \in SUBSET Items, Resume(j, gone)
        PROVE  TypeOK'
    <2>1. DropObsolete(item[j], gone) \in Rows /\ Requeue(DropObsolete(item[j], gone)) \in Rows
      BY <1>t, RowFunctions
    <2>2. QED
      BY <1>6, <2>1 DEF Resume, TypeOK, Rows, JobStates
  <1>7. ASSUME NEW j \in Jobs, NEW more \in SUBSET Items, Enqueue(j, more)
        PROVE  TypeOK'
    BY <1>7 DEF Enqueue, TypeOK, ItemStates, UnfinishedItemStates
  <1>8. ASSUME NEW j \in Jobs, NEW gone \in SUBSET Items, SyncMembership(j, gone)
        PROVE  TypeOK'
    BY <1>8, <1>t, RowFunctions DEF SyncMembership, TypeOK, Rows
  <1>9. ASSUME NEW o \in Jobs, NEW j \in Jobs, NEW wanted \in SUBSET Items,
               NEW k \in MaybeKey, Retry(o, j, wanted, k)
        PROVE  TypeOK'
    <2>1. held' \in [Clients -> Jobs \cup {NoJob}]
      BY <1>9 DEF Retry, TypeOK
    <2>2. InsertJob(j, "queued", NotDone(o, wanted), k, o)
      BY <1>9 DEF Retry
    <2>3. NotDone(o, wanted) \in SUBSET Items /\ "queued" \in JobStates
      BY DEF NotDone, JobStates
    <2>4. QED
      BY <2>1, <2>2, <2>3, InsertTyped
  <1>10. ASSUME NEW j \in Jobs, Start(j) \/ Fail(j) \/ Expire(j) PROVE TypeOK'
    BY <1>10 DEF Start, Fail, Expire, TypeOK, JobStates, TerminalJobStates
  <1>11. ASSUME NEW j \in Jobs, NEW s \in TerminalJobStates \cup {"auto"}, Finish(j, s)
         PROVE  TypeOK'
    BY <1>11 DEF Finish, ResultOf, TypeOK, JobStates, TerminalJobStates
  <1>12. ASSUME NEW j \in Jobs, NEW i \in Items,
                Claim(j, i) \/ MarkPrefiltered(j, i) \/ RecordObservation(j, i)
         PROVE  TypeOK'
    <2>1. CASE Claim(j, i) \/ MarkPrefiltered(j, i)
      <3>1. item' \in [Jobs -> [Items -> ItemStates \cup {"none"}]]
        BY <2>1, SetItemTyped DEF Claim, MarkPrefiltered, ItemStates, UnfinishedItemStates
      <3>2. QED
        BY <2>1, <3>1 DEF Claim, MarkPrefiltered, TypeOK
    <2>2. CASE RecordObservation(j, i)
      BY <2>2 DEF RecordObservation, TypeOK
    <2>3. QED
      BY <1>12, <2>1, <2>2
  <1>13. ASSUME NEW j \in Jobs, NEW i \in Items, NEW s \in TerminalItemStates,
                NEW m \in BOOLEAN, FinishItem(j, i, s, m)
         PROVE  TypeOK'
    BY <1>13 DEF FinishItem, SetItem, TypeOK, ItemStates
  <1>14. ASSUME NEW stale \in SUBSET Jobs, Recover(stale) PROVE TypeOK'
    <2>1. \A j \in Jobs : Requeue(item[j]) \in Rows
      BY <1>t, RowFunctions
    <2>2. QED
      BY <1>14, <2>1 DEF Recover, TypeOK, Rows, JobStates
  <1>15. CASE UNCHANGED vars
    BY <1>15 DEF vars, TypeOK
  <1>16. QED
    BY <1>0, <1>1, <1>2, <1>3, <1>4, <1>5, <1>6, <1>7, <1>8, <1>9, <1>10, <1>11, <1>12,
       <1>13, <1>14, <1>15 DEF Next, Submit, Control, Worker

\* Every variable keeps its type.
THEOREM TypeCorrect == Spec => []TypeOK
  <1>1. Init => TypeOK
    BY DEF Init, TypeOK, MaybeKey
  <1>2. TypeOK /\ [Next]_vars => TypeOK'
    BY TypeKept
  <1>3. QED
    BY <1>1, <1>2, PTL DEF Spec

-----------------------------------------------------------------------------
(* The safety invariants.  NothingInFlight and DoneIsMeasured need only the *)
(* types, OneRunningJob the guard of Start; that a key names one job rests   *)
(* on no key being held by a job that has no row (KeysHaveRows).             *)

KeysHaveRows == \A j \in Jobs : key[j] # NoKey => Exists(j)

\* A job is running after a step only if it was before, or the step started it
\* while no other job was running.
LEMMA RunningComesFromStart ==
    ASSUME TypeOK, [Next]_vars, NEW j \in Jobs, state'[j] = "running", state[j] # "running"
    PROVE  /\ \A o \in Jobs \ {j} : state[o] # "running"
           /\ \A o \in Jobs \ {j} : state'[o] = state[o]
  <1>0. ASSUME NEW dead \in SUBSET Clients, SubmitLost(dead) PROVE FALSE
    BY <1>0 DEF SubmitLost
  <1>1. ASSUME NEW c \in Clients, SubmitQueue(c) PROVE FALSE
    BY <1>1 DEF SubmitQueue, TypeOK
  <1>2. ASSUME NEW c \in Clients, NEW n \in Jobs, NEW queue \in SUBSET Items,
               NEW k \in MaybeKey, SubmitCreate(c, n, queue, k)
        PROVE  FALSE
    BY <1>2 DEF SubmitCreate, InsertJob, TypeOK
  <1>3. ASSUME NEW c \in Clients, NEW k \in MaybeKey, NEW queue \in SUBSET Items,
               SubmitReplay(c, k, queue)
        PROVE  FALSE
    BY <1>3 DEF SubmitReplay
  <1>4. ASSUME NEW n \in Jobs, Pause(n) \/ Cancel(n) PROVE FALSE
    BY <1>4 DEF Pause, Cancel, TypeOK
  <1>5. ASSUME NEW n \in Jobs, NEW some \in SUBSET Items,
               Resume(n, some) \/ Enqueue(n, some) \/ SyncMembership(n, some)
        PROVE  FALSE
    BY <1>5 DEF Resume, Enqueue, SyncMembership, TypeOK
  <1>6. ASSUME NEW o \in Jobs, NEW n \in Jobs, NEW wanted \in SUBSET Items,
               NEW k \in MaybeKey, Retry(o, n, wanted, k)
        PROVE  FALSE
    BY <1>6 DEF Retry, InsertJob, TypeOK
  <1>7. ASSUME NEW n \in Jobs, Start(n)
        PROVE  /\ \A o \in Jobs \ {j} : state[o] # "running"
               /\ \A o \in Jobs \ {j} : state'[o] = state[o]
    BY <1>7 DEF Start, SlotFree, TypeOK
  <1>8. ASSUME NEW n \in Jobs, Fail(n) \/ Expire(n) PROVE FALSE
    BY <1>8 DEF Fail, Expire, TypeOK
  <1>9. ASSUME NEW n \in Jobs, NEW s \in TerminalJobStates \cup {"auto"}, Finish(n, s)
        PROVE  FALSE
    BY <1>9 DEF Finish, ResultOf, TypeOK, TerminalJobStates
  <1>10. ASSUME NEW n \in Jobs, NEW i \in Items,
                Claim(n, i) \/ MarkPrefiltered(n, i) \/ RecordObservation(n, i)
         PROVE  FALSE
    BY <1>10 DEF Claim, MarkPrefiltered, RecordObservation
  <1>11. ASSUME NEW n \in Jobs, NEW i \in Items, NEW s \in TerminalItemStates,
                NEW m \in BOOLEAN, FinishItem(n, i, s, m)
         PROVE  FALSE
    BY <1>11 DEF FinishItem
  <1>12. ASSUME NEW stale \in SUBSET Jobs, Recover(stale) PROVE FALSE
    BY <1>12 DEF Recover, TypeOK
  <1>13. CASE UNCHANGED vars
    BY <1>13 DEF vars
  <1>14. QED
    BY <1>0, <1>1, <1>2, <1>3, <1>4, <1>5, <1>6, <1>7, <1>8, <1>9, <1>10, <1>11, <1>12, <1>13
       DEF Next, Submit, Control, Worker

LEMMA OneRunningKept ==
    TypeOK /\ OneRunningJob /\ [Next]_vars => OneRunningJob'
  BY RunningComesFromStart DEF OneRunningJob

\* Only an insertion changes the key column, and a row never disappears.
LEMMA KeysKept ==
    TypeOK /\ OneJobPerKey /\ KeysHaveRows /\ [Next]_vars => (OneJobPerKey /\ KeysHaveRows)'
  <1> SUFFICES ASSUME TypeOK, OneJobPerKey, KeysHaveRows, [Next]_vars
               PROVE  OneJobPerKey' /\ KeysHaveRows'
    OBVIOUS
  <1>i. ASSUME NEW n \in Jobs, NEW s \in JobStates, NEW queue \in SUBSET Items,
               NEW k \in MaybeKey, NEW from \in Jobs \cup {NoJob},
               InsertJob(n, s, queue, k, from)
        PROVE  OneJobPerKey' /\ KeysHaveRows'
    <2>1. \A j \in Jobs : j # n => key'[j] = key[j] /\ state'[j] = state[j]
      BY <1>i DEF InsertJob, TypeOK
    <2>2. key'[n] = k /\ state'[n] # "none"
      BY <1>i DEF InsertJob, TypeOK, JobStates, TerminalJobStates
    <2>3. k # NoKey => \A j \in Jobs : Exists(j) => key[j] # k
      BY <1>i DEF InsertJob, BoundTo
    <2>4. QED
      BY <2>1, <2>2, <2>3 DEF OneJobPerKey, KeysHaveRows, Exists
  <1>u. ASSUME key' = key, \A j \in Jobs : Exists(j) => Exists(j)'
        PROVE  OneJobPerKey' /\ KeysHaveRows'
    BY <1>u DEF OneJobPerKey, KeysHaveRows
  <1>0. ASSUME NEW dead \in SUBSET Clients, SubmitLost(dead)
        PROVE  OneJobPerKey' /\ KeysHaveRows'
    BY <1>0, <1>u DEF SubmitLost, Exists
  <1>1. ASSUME NEW c \in Clients, SubmitQueue(c) PROVE OneJobPerKey' /\ KeysHaveRows'
    BY <1>1, <1>u DEF SubmitQueue, TypeOK, Exists
  <1>2. ASSUME NEW c \in Clients, NEW n \in Jobs, NEW queue \in SUBSET Items,
               NEW k \in MaybeKey, SubmitCreate(c, n, queue, k)
        PROVE  OneJobPerKey' /\ KeysHaveRows'
    BY <1>2, <1>i DEF SubmitCreate, JobStates
  <1>3. ASSUME NEW c \in Clients, NEW k \in MaybeKey, NEW queue \in SUBSET Items,
               SubmitReplay(c, k, queue)
        PROVE  OneJobPerKey' /\ KeysHaveRows'
    BY <1>3, <1>u DEF SubmitReplay, Exists
  <1>4. ASSUME NEW n \in Jobs, Pause(n) \/ Cancel(n) PROVE OneJobPerKey' /\ KeysHaveRows'
    BY <1>4, <1>u DEF Pause, Cancel, TypeOK, Exists
  <1>5. ASSUME NEW n \in Jobs, NEW some \in SUBSET Items,
               Resume(n, some) \/ Enqueue(n, some) \/ SyncMembership(n, some)
        PROVE  OneJobPerKey' /\ KeysHaveRows'
    BY <1>5, <1>u DEF Resume, Enqueue, SyncMembership, TypeOK, Exists
  <1>6. ASSUME NEW o \in Jobs, NEW n \in Jobs, NEW wanted \in SUBSET Items,
               NEW k \in MaybeKey, Retry(o, n, wanted, k)
        PROVE  OneJobPerKey' /\ KeysHaveRows'
    <2>1. NotDone(o, wanted) \in SUBSET Items /\ "queued" \in JobStates
      BY DEF NotDone, JobStates
    <2>2. QED
      BY <1>6, <1>i, <2>1 DEF Retry
  <1>7. ASSUME NEW n \in Jobs, Start(n) \/ Fail(n) \/ Expire(n)
        PROVE  OneJobPerKey' /\ KeysHaveRows'
    BY <1>7, <1>u DEF Start, Fail, Expire, TypeOK, Exists
  <1>8. ASSUME NEW n \in Jobs, NEW s \in TerminalJobStates \cup {"auto"}, Finish(n, s)
        PROVE  OneJobPerKey' /\ KeysHaveRows'
    BY <1>8, <1>u DEF Finish, ResultOf, TypeOK, TerminalJobStates, Exists
  <1>9. ASSUME NEW n \in Jobs, NEW i \in Items,
               Claim(n, i) \/ MarkPrefiltered(n, i) \/ RecordObservation(n, i)
        PROVE  OneJobPerKey' /\ KeysHaveRows'
    BY <1>9, <1>u DEF Claim, MarkPrefiltered, RecordObservation, Exists
  <1>10. ASSUME NEW n \in Jobs, NEW i \in Items, NEW s \in TerminalItemStates,
                NEW m \in BOOLEAN, FinishItem(n, i, s, m)
         PROVE  OneJobPerKey' /\ KeysHaveRows'
    BY <1>10, <1>u DEF FinishItem, Exists
  <1>11. ASSUME NEW stale \in SUBSET Jobs, Recover(stale)
         PROVE  OneJobPerKey' /\ KeysHaveRows'
    BY <1>11, <1>u DEF Recover, TypeOK, Exists
  <1>12. CASE UNCHANGED vars
    BY <1>12, <1>u DEF vars, Exists
  <1>13. QED
    BY <1>0, <1>1, <1>2, <1>3, <1>4, <1>5, <1>6, <1>7, <1>8, <1>9, <1>10, <1>11, <1>12
       DEF Next, Submit, Control, Worker

-----------------------------------------------------------------------------
(* What one step can do to one item.  Every invariant and action property    *)
(* about items follows from this lemma.                                      *)

Waiting == {"created", "queued", "paused"}

RowsHaveJobs == \A j \in Jobs, i \in Items : item[j][i] # "none" => Exists(j)

ItemStep(j, i) ==
    /\ Exists(j) => Exists(j)'
    /\ Terminal(j) => state'[j] = state[j]
    /\ i \in observed[j] => i \in observed'[j]
    /\ item'[j][i] # "none" => item[j][i] # "none" \/ Exists(j)'
    /\ item[j][i] \in TerminalItemStates => item'[j][i] = item[j][i]
    /\ item'[j][i] = "done" => item[j][i] = "done" \/ i \in observed'[j]
    /\ item'[j][i] = "probing" =>
          \/ state[j] = "running" /\ state'[j] \notin Waiting
          \/ state[j] # "running" /\ item[j][i] = "probing"
    /\ item'[j][i] \in TerminalItemStates \ {"blocked"} =>
          \/ item[j][i] = item'[j][i]
          \/ item[j][i] = "probing" /\ state' = state

\* Steps that leave every row alone.
LEMMA UntouchedRows ==
    ASSUME TypeOK, item' = item, NEW j \in Jobs, NEW i \in Items,
           i \in observed[j] => i \in observed'[j],
           Exists(j) => Exists(j)', Terminal(j) => state'[j] = state[j],
           state[j] = "running" => state'[j] \notin Waiting
    PROVE  ItemStep(j, i)
  BY DEF ItemStep, Exists

\* Rows of a new job: it had none before.
LEMMA InsertedRows ==
    ASSUME TypeOK, RowsHaveJobs, NEW n \in Jobs, NEW s \in Waiting,
           NEW queue \in SUBSET Items, NEW k \in MaybeKey, NEW from \in Jobs \cup {NoJob},
           InsertJob(n, s, queue, k, from), NEW j \in Jobs, NEW i \in Items
    PROVE  ItemStep(j, i)
  <1>1. CASE j = n
    BY <1>1 DEF InsertJob, ItemStep, RowsHaveJobs, Exists, Terminal, Waiting, TypeOK, NewQueue,
                TerminalItemStates, TerminalJobStates
  <1>2. CASE j # n
    BY <1>2 DEF InsertJob, ItemStep, Exists, TypeOK, Waiting
  <1>3. QED
    BY <1>1, <1>2

LEMMA ItemSteps ==
    ASSUME TypeOK, RowsHaveJobs, [Next]_vars, NEW j \in Jobs, NEW i \in Items
    PROVE  ItemStep(j, i)
  <1> USE DEF TypeOK, Exists, Terminal, Waiting, TerminalJobStates
  <1>0. ASSUME NEW dead \in SUBSET Clients, SubmitLost(dead) PROVE ItemStep(j, i)
    BY <1>0, UntouchedRows DEF SubmitLost
  <1>1. ASSUME NEW c \in Clients, SubmitQueue(c) PROVE ItemStep(j, i)
    <2>1. /\ item' = item /\ observed' = observed
          /\ state[j] # "none" => state'[j] # "none"
          /\ Terminal(j) \/ state[j] = "running" => state'[j] = state[j]
      BY <1>1 DEF SubmitQueue, NextJobStates
    <2>2. QED
      BY <2>1, UntouchedRows
  <1>2. ASSUME NEW c \in Clients, NEW n \in Jobs, NEW queue \in SUBSET Items,
               NEW k \in MaybeKey, SubmitCreate(c, n, queue, k)
        PROVE  ItemStep(j, i)
    BY <1>2, InsertedRows DEF SubmitCreate
  <1>3. ASSUME NEW c \in Clients, NEW k \in MaybeKey, NEW queue \in SUBSET Items,
               SubmitReplay(c, k, queue)
        PROVE  ItemStep(j, i)
    BY <1>3, UntouchedRows DEF SubmitReplay
  <1>4. ASSUME NEW n \in Jobs, Pause(n) PROVE ItemStep(j, i)
    BY <1>4 DEF Pause, ItemStep, Requeue, UnfinishedItemStates, TerminalItemStates
  <1>5. ASSUME NEW n \in Jobs, Cancel(n) PROVE ItemStep(j, i)
    BY <1>5, UntouchedRows DEF Cancel, NextJobStates
  <1>6. ASSUME NEW n \in Jobs, NEW gone \in SUBSET Items, Resume(n, gone)
        PROVE  ItemStep(j, i)
    <2>1. CASE state[n] = "queued"
      <3>1. /\ state' = state /\ observed' = observed
            /\ item' = [item EXCEPT ![n] = DropObsolete(@, gone)]
        BY <1>6, <2>1 DEF Resume
      <3>2. \/ item'[j][i] = item[j][i]
            \/ item'[j][i] = "blocked" /\ item[j][i] \in UnfinishedItemStates
        BY <3>1 DEF DropObsolete
      <3>3. QED
        BY <2>1, <3>1, <3>2 DEF ItemStep, UnfinishedItemStates, TerminalItemStates
    <2>2. CASE state[n] = "paused"
      <3>1. item'[n] = Requeue(DropObsolete(item[n], gone))
        BY <1>6, <2>2 DEF Resume
      <3>2. CASE j = n
        BY <1>6, <2>2, <3>1, <3>2 DEF Resume, ItemStep, Requeue, DropObsolete,
                                      UnfinishedItemStates, TerminalItemStates
      <3>3. CASE j # n
        BY <1>6, <2>2, <3>3 DEF Resume, ItemStep
      <3>4. QED
        BY <3>2, <3>3
    <2>3. QED
      BY <1>6, <2>1, <2>2 DEF Resume
  <1>7. ASSUME NEW n \in Jobs, NEW more \in SUBSET Items, Enqueue(n, more)
        PROVE  ItemStep(j, i)
    BY <1>7 DEF Enqueue, QueueOpen, Queue, ItemStep, TerminalItemStates
  <1>8. ASSUME NEW n \in Jobs, NEW gone \in SUBSET Items, SyncMembership(n, gone)
        PROVE  ItemStep(j, i)
    BY <1>8 DEF SyncMembership, ItemStep, DropObsolete, UnfinishedItemStates,
                TerminalItemStates
  <1>9. ASSUME NEW o \in Jobs, NEW n \in Jobs, NEW wanted \in SUBSET Items,
               NEW k \in MaybeKey, Retry(o, n, wanted, k)
        PROVE  ItemStep(j, i)
    <2>1. NotDone(o, wanted) \in SUBSET Items
      BY DEF NotDone
    <2>2. QED
      BY <1>9, <2>1, InsertedRows DEF Retry
  <1>10. ASSUME NEW n \in Jobs, Start(n) \/ Fail(n) \/ Expire(n) PROVE ItemStep(j, i)
    BY <1>10, UntouchedRows DEF Start, Fail, Expire, ActiveJobStates
  <1>11. ASSUME NEW n \in Jobs, NEW s \in TerminalJobStates \cup {"auto"}, Finish(n, s)
         PROVE  ItemStep(j, i)
    BY <1>11, UntouchedRows DEF Finish, ResultOf
  <1>12. ASSUME NEW n \in Jobs, NEW r \in Items, Claim(n, r) \/ MarkPrefiltered(n, r)
         PROVE  ItemStep(j, i)
    BY <1>12 DEF Claim, MarkPrefiltered, SetItem, NextItemStates, ItemStep,
                 TerminalItemStates
  <1>13. ASSUME NEW n \in Jobs, NEW r \in Items, RecordObservation(n, r)
         PROVE  ItemStep(j, i)
    BY <1>13, UntouchedRows DEF RecordObservation
  <1>14. ASSUME NEW n \in Jobs, NEW r \in Items, NEW s \in TerminalItemStates,
                NEW m \in BOOLEAN, FinishItem(n, r, s, m)
         PROVE  ItemStep(j, i)
    BY <1>14 DEF FinishItem, SetItem, NextItemStates, VerdictBacked, ItemStep,
                 TerminalItemStates
  <1>15. ASSUME NEW stale \in SUBSET Jobs, Recover(stale) PROVE ItemStep(j, i)
    BY <1>15 DEF Recover, ActiveJobStates, ItemStep, Requeue, UnfinishedItemStates,
                 TerminalItemStates
  <1>16. CASE UNCHANGED vars
    BY <1>16, UntouchedRows DEF vars
  <1>17. QED
    BY <1>0, <1>1, <1>2, <1>3, <1>4, <1>5, <1>6, <1>7, <1>8, <1>9, <1>10, <1>11, <1>12, <1>13,
       <1>14, <1>15, <1>16 DEF Next, Submit, Control, Worker

\* The rows of a queue are made with the job or while it is "created".
LEMMA QueueKept ==
    ASSUME TypeOK, [Next]_vars, NEW j \in Jobs, state[j] \notin {"none", "created"}
    PROVE  Queue(j)' = Queue(j)
  <1> SUFFICES ASSUME NEW i \in Items
               PROVE  (item'[j][i] = "none") <=> (item[j][i] = "none")
    BY DEF Queue
  <1>t. /\ item \in [Jobs -> [Items -> ItemStates \cup {"none"}]]
        /\ "none" \notin ItemStates
    BY DEF TypeOK, ItemStates, UnfinishedItemStates, TerminalItemStates
  <1>u. ASSUME item' = item PROVE (item'[j][i] = "none") <=> (item[j][i] = "none")
    BY <1>u
  <1>i. ASSUME NEW n \in Jobs, NEW s, NEW queue, NEW k, NEW from,
               InsertJob(n, s, queue, k, from)
        PROVE  (item'[j][i] = "none") <=> (item[j][i] = "none")
    <2>1. n # j
      BY <1>i DEF InsertJob, Exists
    <2>2. QED
      BY <1>i, <1>t, <2>1 DEF InsertJob
  <1>s. ASSUME NEW n \in Jobs, NEW r \in Items, NEW s, SetItem(n, r, s)
        PROVE  (item'[j][i] = "none") <=> (item[j][i] = "none")
    <2>1. s \in ItemStates /\ item[n][r] # "none"
      BY <1>s DEF SetItem, NextItemStates, ItemStates, TerminalItemStates,
                  UnfinishedItemStates
    <2>2. QED
      BY <1>s, <1>t, <2>1 DEF SetItem
  <1>1. CASE Submit
    BY <1>1, <1>u, <1>i DEF Submit, SubmitLost, SubmitQueue, SubmitCreate, SubmitReplay
  <1>2. ASSUME NEW n \in Jobs, Pause(n) \/ Cancel(n)
        PROVE  (item'[j][i] = "none") <=> (item[j][i] = "none")
    BY <1>2, <1>t DEF Pause, Cancel, Requeue, UnfinishedItemStates
  <1>3. ASSUME NEW n \in Jobs, NEW some \in SUBSET Items,
               Resume(n, some) \/ SyncMembership(n, some)
        PROVE  (item'[j][i] = "none") <=> (item[j][i] = "none")
    BY <1>3, <1>t DEF Resume, SyncMembership, Requeue, DropObsolete, UnfinishedItemStates
  <1>4. ASSUME NEW n \in Jobs, NEW some \in SUBSET Items, Enqueue(n, some)
        PROVE  (item'[j][i] = "none") <=> (item[j][i] = "none")
    BY <1>4, <1>t DEF Enqueue, QueueOpen
  <1>5. ASSUME NEW o \in Jobs, NEW n \in Jobs, NEW some \in SUBSET Items,
               NEW k \in MaybeKey, Retry(o, n, some, k)
        PROVE  (item'[j][i] = "none") <=> (item[j][i] = "none")
    BY <1>5, <1>i DEF Retry
  <1>6. ASSUME NEW n \in Jobs, Start(n) \/ Fail(n) \/ Expire(n)
        PROVE  (item'[j][i] = "none") <=> (item[j][i] = "none")
    BY <1>6, <1>u DEF Start, Fail, Expire
  <1>7. ASSUME NEW n \in Jobs, NEW s, Finish(n, s)
        PROVE  (item'[j][i] = "none") <=> (item[j][i] = "none")
    BY <1>7, <1>u DEF Finish
  <1>8. ASSUME NEW n \in Jobs, NEW r \in Items,
               Claim(n, r) \/ MarkPrefiltered(n, r) \/ RecordObservation(n, r)
        PROVE  (item'[j][i] = "none") <=> (item[j][i] = "none")
    BY <1>8, <1>s, <1>u DEF Claim, MarkPrefiltered, RecordObservation
  <1>9. ASSUME NEW n \in Jobs, NEW r \in Items, NEW s, NEW m, FinishItem(n, r, s, m)
        PROVE  (item'[j][i] = "none") <=> (item[j][i] = "none")
    BY <1>9, <1>s DEF FinishItem
  <1>10. ASSUME NEW stale \in SUBSET Jobs, Recover(stale)
         PROVE  (item'[j][i] = "none") <=> (item[j][i] = "none")
    BY <1>10, <1>t DEF Recover, Requeue, UnfinishedItemStates
  <1>11. CASE UNCHANGED vars
    BY <1>11, <1>u DEF vars
  <1>12. CASE Control
    BY <1>12, <1>2, <1>3, <1>4, <1>5 DEF Control
  <1>13. CASE Worker
    BY <1>13, <1>6, <1>7, <1>8, <1>9, <1>10 DEF Worker
  <1>14. QED
    BY <1>1, <1>11, <1>12, <1>13 DEF Next

-----------------------------------------------------------------------------
(* Theorems *)

IInv ==
    /\ OneRunningJob
    /\ OneJobPerKey /\ KeysHaveRows
    /\ RowsHaveJobs
    /\ NothingInFlight
    /\ DoneIsMeasured

LEMMA IInvInitially == Init => IInv
  BY DEF Init, IInv, OneRunningJob, OneJobPerKey, KeysHaveRows, RowsHaveJobs, Exists,
         NothingInFlight, DoneIsMeasured

LEMMA IInvKept == TypeOK /\ IInv /\ [Next]_vars => IInv'
  <1> SUFFICES ASSUME TypeOK, IInv, [Next]_vars PROVE IInv'
    OBVIOUS
  <1>1. \A j \in Jobs, i \in Items : ItemStep(j, i)
    BY ItemSteps DEF IInv
  <1>2. OneRunningJob'
    BY OneRunningKept DEF IInv
  <1>3. OneJobPerKey' /\ KeysHaveRows'
    BY KeysKept DEF IInv
  <1>4. RowsHaveJobs'
    BY <1>1 DEF IInv, ItemStep, RowsHaveJobs
  <1>5. NothingInFlight'
    <2> SUFFICES ASSUME NEW j \in Jobs, NEW i \in Items, state'[j] \in Waiting,
                        item'[j][i] = "probing"
                 PROVE  FALSE
      BY DEF NothingInFlight, Waiting
    <2>1. state[j] # "running" /\ item[j][i] = "probing"
      BY <1>1 DEF ItemStep
    <2>2. state[j] \notin Waiting /\ state[j] # "none"
      BY <2>1 DEF IInv, NothingInFlight, Waiting, RowsHaveJobs, Exists
    <2>3. Terminal(j)
      BY <2>1, <2>2 DEF TypeOK, JobStates, Waiting, Terminal
    <2>4. state'[j] = state[j]
      BY <1>1, <2>3 DEF ItemStep
    <2>5. QED
      BY <2>2, <2>4
  <1>6. DoneIsMeasured'
    BY <1>1 DEF IInv, ItemStep, DoneIsMeasured
  <1>7. QED
    BY <1>2, <1>3, <1>4, <1>5, <1>6 DEF IInv

LEMMA Invariance == Spec => []IInv
  BY IInvInitially, IInvKept, TypeCorrect, PTL DEF Spec

\* At most one job writes measurements.
THEOREM SingleWriter == Spec => []OneRunningJob
  BY Invariance, PTL DEF IInv

\* An idempotency key names one job for ever.
THEOREM KeyNamesOneJob == Spec => []OneJobPerKey
  BY Invariance, PTL DEF IInv

\* A job nobody is running has nothing in flight.
THEOREM IdleQueues == Spec => []NothingInFlight
  BY Invariance, PTL DEF IInv

\* A done item has the observation of its measurement.
THEOREM DoneWasMeasured == Spec => []DoneIsMeasured
  BY Invariance, PTL DEF IInv

LEMMA HistoryStep ==
    ASSUME TypeOK, IInv, [Next]_vars, NEW j \in Jobs
    PROVE  KeepsHistory(j)
  <1>1. \A i \in Items : ItemStep(j, i)
    BY ItemSteps DEF IInv
  <1>2. Terminal(j) => state'[j] = state[j]
    BY <1>1, ItemsAssumption DEF ItemStep
  <1>3. observed[j] \subseteq observed'[j]
    BY <1>1 DEF ItemStep, TypeOK
  <1>4. state[j] \notin {"none", "created"} => Queue(j)' = Queue(j)
    BY QueueKept
  <1>5. QED
    BY <1>1, <1>2, <1>3, <1>4 DEF ItemStep, KeepsHistory

\* No step rewrites the state of a finished job, the queue of one that left
\* "created", the verdict of a finished item or the observation of a measured one.
THEOREM HistoryIsKept == Spec => HistoryKept
  <1>1. TypeOK /\ IInv /\ [Next]_vars => [\A j \in Jobs : KeepsHistory(j)]_vars
    BY HistoryStep
  <1>2. QED
    BY <1>1, TypeCorrect, Invariance, PTL DEF Spec, HistoryKept

-----------------------------------------------------------------------------
(* Refinement.  A step that changes the state of a job moves its phase and   *)
(* leaves every verdict; a verdict arrives only with FinishItem.             *)

LEMMA VerdictsChangeAlone ==
    ASSUME TypeOK, IInv, [Next]_vars, state' # state
    PROVE  Verdicts' = Verdicts
  <1>1. \A j \in Jobs, i \in Items : ItemStep(j, i)
    BY ItemSteps DEF IInv
  <1>2. \A j \in Jobs : Judged(j)' = Judged(j)
    BY <1>1 DEF ItemStep, Judged
  <1>3. QED
    BY <1>2 DEF Verdicts

\* The ways one job can move, and the phase that follows.
Moves(n, s) ==
    \/ s \in Waiting /\ ~Terminal(n)
    \/ s = "running" /\ state[n] = "queued" /\ SlotFree(n)
    \/ s \in TerminalJobStates /\ Exists(n) /\ ~Terminal(n)

LEMMA MovesSimulate ==
    ASSUME TypeOK, IInv, [Next]_vars, NEW n \in Jobs, NEW s \in JobStates, s # state[n],
           Moves(n, s), state' = [state EXCEPT ![n] = s]
    PROVE  [Contract!Next]_(Contract!vars)
  <1>1. Verdicts' = Verdicts
    BY VerdictsChangeAlone DEF TypeOK
  <1>2. /\ Phase \in [Jobs -> {"absent", "waiting", "running", "over"}]
        /\ \A j \in Jobs : Phase[j] = PhaseOf(j)
    BY DEF Phase, PhaseOf
  <1>3. Phase' = [Phase EXCEPT ![n] = PhaseOf(n)']
    <2>1. \A j \in Jobs : j # n => PhaseOf(j)' = PhaseOf(j)
      BY DEF PhaseOf, Terminal, TypeOK
    <2>2. QED
      BY <1>2, <2>1 DEF Phase
  <1>4. state'[n] = s
    BY DEF TypeOK
  <1>5. CASE s \in Waiting /\ ~Terminal(n)
    <2>1. PhaseOf(n)' = "waiting"
      BY <1>4, <1>5 DEF PhaseOf, Terminal, TerminalJobStates, Waiting
    <2>2. CASE state[n] = "none"
      <3>1. PhaseOf(n) = "absent"
        BY <2>2 DEF PhaseOf, Terminal, TerminalJobStates
      <3>2. QED
        BY <1>1, <1>2, <1>3, <2>1, <3>1 DEF Contract!Next, Contract!Ask
    <2>3. CASE state[n] = "running"
      <3>1. PhaseOf(n) = "running"
        BY <2>3 DEF PhaseOf, Terminal, TerminalJobStates
      <3>2. QED
        BY <1>1, <1>2, <1>3, <2>1, <3>1 DEF Contract!Next, Contract!Interrupt
    <2>4. CASE state[n] \notin {"none", "running"}
      <3>1. PhaseOf(n) = "waiting"
        BY <1>5, <2>4 DEF PhaseOf
      <3>2. QED
        BY <1>1, <1>2, <1>3, <2>1, <3>1 DEF Contract!vars
    <2>5. QED
      BY <2>2, <2>3, <2>4
  <1>6. CASE s = "running" /\ state[n] = "queued" /\ SlotFree(n)
    <2>1. PhaseOf(n) = "waiting" /\ PhaseOf(n)' = "running"
      BY <1>4, <1>6 DEF PhaseOf, Terminal, TerminalJobStates
    <2>2. \A o \in Jobs : Phase[o] # "running"
      BY <1>2, <1>6 DEF SlotFree, PhaseOf, Terminal, TerminalJobStates
    <2>3. QED
      BY <1>1, <1>2, <1>3, <2>1, <2>2 DEF Contract!Next, Contract!Begin
  <1>7. CASE s \in TerminalJobStates /\ Exists(n) /\ ~Terminal(n)
    <2>1. PhaseOf(n) \in {"waiting", "running"} /\ PhaseOf(n)' = "over"
      BY <1>4, <1>7 DEF PhaseOf, Terminal, TerminalJobStates, Exists
    <2>2. QED
      BY <1>1, <1>2, <1>3, <2>1 DEF Contract!Next, Contract!Close
  <1>8. QED
    BY <1>5, <1>6, <1>7 DEF Moves

\* Steps that move no job and settle no item are invisible to the contract.
LEMMA QuietSteps ==
    ASSUME state' = state, \A j \in Jobs : Judged(j)' = Judged(j)
    PROVE  UNCHANGED Contract!vars
  BY DEF Contract!vars, Phase, Verdicts, PhaseOf, Terminal

\* The verdict of an item in flight: its job is running, or already over.
LEMMA VerdictSimulates ==
    ASSUME TypeOK, IInv, NEW n \in Jobs, NEW r \in Items, NEW s \in TerminalItemStates,
           NEW m \in BOOLEAN, FinishItem(n, r, s, m)
    PROVE  [Contract!Next]_(Contract!vars)
  <1>1. /\ item[n][r] \notin TerminalItemStates /\ state' = state
        /\ item' = [item EXCEPT ![n][r] = s]
    BY DEF FinishItem, SetItem, NextItemStates, TerminalItemStates
  <1>2. \A j \in Jobs : j # n => Judged(j)' = Judged(j)
    BY <1>1 DEF Judged, TypeOK
  <1>3. CASE s = "blocked"
    <2>1. Judged(n)' = Judged(n)
      BY <1>1, <1>3 DEF Judged, TypeOK, TerminalItemStates
    <2>2. QED
      BY <1>1, <1>2, <2>1, QuietSteps
  <1>4. CASE s # "blocked"
    <2>p. item[n][r] = "probing"
      BY <1>4 DEF FinishItem, SetItem, NextItemStates, TerminalItemStates
    <2>1. Judged(n)' = Judged(n) \cup {r} /\ r \notin Judged(n)
      BY <1>1, <1>4 DEF Judged, TypeOK, TerminalItemStates
    <2>2. Verdicts' = [Verdicts EXCEPT ![n] = @ \cup {r}]
      BY <1>2, <2>1 DEF Verdicts
    <2>3. Phase' = Phase
      BY <1>1 DEF Phase, PhaseOf, Terminal
    <2>4. PhaseOf(n) \in {"running", "over"}
      <3>1. state[n] \notin Waiting /\ state[n] # "none"
        BY <2>p DEF IInv, NothingInFlight, RowsHaveJobs, Exists, Waiting
      <3>2. state[n] = "running" \/ Terminal(n)
        BY <3>1 DEF TypeOK, JobStates, Waiting, Terminal
      <3>3. QED
        BY <3>1, <3>2 DEF PhaseOf
    <2>5. QED
      BY <2>1, <2>2, <2>3, <2>4 DEF Contract!Next, Contract!Judge, Phase, Verdicts
  <1>5. QED
    BY <1>3, <1>4

\* Recovery interrupts the running job, if it is among the stale ones.
LEMMA RecoverySimulates ==
    ASSUME TypeOK, IInv, [Next]_vars, NEW stale \in SUBSET Jobs, Recover(stale)
    PROVE  [Contract!Next]_(Contract!vars)
  <1>1. \A j \in Jobs : state'[j] = IF j \in stale THEN "paused" ELSE state[j]
    BY DEF Recover
  <1>2. \A j \in stale : state[j] \in {"queued", "running"}
    BY DEF Recover, ActiveJobStates
  <1>3. Verdicts' = Verdicts
    <2>1. PICK j \in stale : TRUE
      BY DEF Recover
    <2>2. state'[j] # state[j]
      BY <1>1, <1>2, <2>1
    <2>3. QED
      BY <2>2, VerdictsChangeAlone
  <1>4. \A j \in Jobs : (~(j \in stale /\ state[j] = "running")) => PhaseOf(j)' = PhaseOf(j)
    BY <1>1, <1>2 DEF PhaseOf, Terminal, TerminalJobStates
  <1>5. CASE \E n \in stale : state[n] = "running"
    <2>1. PICK n \in stale : state[n] = "running"
      BY <1>5
    <2>2. \A j \in Jobs : j # n => PhaseOf(j)' = PhaseOf(j)
      BY <1>4, <2>1 DEF IInv, OneRunningJob
    <2>3. PhaseOf(n) = "running" /\ PhaseOf(n)' = "waiting"
      BY <1>1, <2>1 DEF PhaseOf, Terminal, TerminalJobStates
    <2>4. Phase' = [Phase EXCEPT ![n] = "waiting"]
      BY <2>2, <2>3 DEF Phase
    <2>5. QED
      BY <1>3, <2>3, <2>4 DEF Contract!Next, Contract!Interrupt, Phase
  <1>6. CASE ~ \E n \in stale : state[n] = "running"
    BY <1>3, <1>4, <1>6 DEF Phase, Contract!vars
  <1>7. QED
    BY <1>5, <1>6

LEMMA StepsSimulate ==
    ASSUME TypeOK, IInv, [Next]_vars
    PROVE  [Contract!Next]_(Contract!vars)
  <1> USE DEF Waiting, Terminal, TerminalJobStates, JobStates, Moves
  <1>0. ASSUME NEW dead \in SUBSET Clients, SubmitLost(dead)
        PROVE  [Contract!Next]_(Contract!vars)
    BY <1>0, QuietSteps DEF SubmitLost, Judged
  <1>1. ASSUME NEW c \in Clients, SubmitQueue(c) PROVE [Contract!Next]_(Contract!vars)
    <2>1. CASE "queued" \in NextJobStates(state[held[c]])
      <3>1. held[c] \in Jobs /\ state[held[c]] \in {"created", "paused"}
        BY <1>1, <2>1 DEF SubmitQueue, TypeOK, NextJobStates
      <3>2. state' = [state EXCEPT ![held[c]] = "queued"]
        BY <1>1, <2>1 DEF SubmitQueue
      <3>3. QED
        BY <3>1, <3>2, MovesSimulate
    <2>2. CASE "queued" \notin NextJobStates(state[held[c]])
      BY <1>1, <2>2, QuietSteps DEF SubmitQueue, Judged
    <2>3. QED
      BY <2>1, <2>2
  <1>2. ASSUME NEW c \in Clients, NEW n \in Jobs, NEW queue \in SUBSET Items,
               NEW k \in MaybeKey, SubmitCreate(c, n, queue, k)
        PROVE  [Contract!Next]_(Contract!vars)
    BY <1>2, MovesSimulate DEF SubmitCreate, InsertJob, Exists
  <1>3. ASSUME NEW c \in Clients, NEW k \in MaybeKey, NEW queue \in SUBSET Items,
               SubmitReplay(c, k, queue)
        PROVE  [Contract!Next]_(Contract!vars)
    BY <1>3, QuietSteps DEF SubmitReplay, Judged
  <1>4. ASSUME NEW n \in Jobs, Pause(n) PROVE [Contract!Next]_(Contract!vars)
    BY <1>4, MovesSimulate DEF Pause
  <1>5. ASSUME NEW n \in Jobs, Cancel(n) PROVE [Contract!Next]_(Contract!vars)
    BY <1>5, MovesSimulate DEF Cancel, NextJobStates, Exists
  <1>6. ASSUME NEW n \in Jobs, NEW gone \in SUBSET Items, Resume(n, gone)
        PROVE  [Contract!Next]_(Contract!vars)
    <2>1. CASE state[n] = "queued"
      <3>1. state' = state /\ item' = [item EXCEPT ![n] = DropObsolete(@, gone)]
        BY <1>6, <2>1 DEF Resume
      <3>2. \A j \in Jobs : Judged(j)' = Judged(j)
        BY <3>1 DEF Judged, DropObsolete, TypeOK, UnfinishedItemStates, TerminalItemStates
      <3>3. QED
        BY <3>1, <3>2, QuietSteps
    <2>2. CASE state[n] = "paused"
      BY <1>6, <2>2, MovesSimulate DEF Resume
    <2>3. QED
      BY <1>6, <2>1, <2>2 DEF Resume
  <1>7. ASSUME NEW n \in Jobs, NEW more \in SUBSET Items, Enqueue(n, more)
        PROVE  [Contract!Next]_(Contract!vars)
    <2>1. \A j \in Jobs : Judged(j)' = Judged(j)
      BY <1>7 DEF Enqueue, Queue, Judged, TypeOK, TerminalItemStates
    <2>2. QED
      BY <1>7, <2>1, QuietSteps DEF Enqueue
  <1>8. ASSUME NEW n \in Jobs, NEW gone \in SUBSET Items, SyncMembership(n, gone)
        PROVE  [Contract!Next]_(Contract!vars)
    <2>1. \A j \in Jobs : Judged(j)' = Judged(j)
      BY <1>8 DEF SyncMembership, Judged, DropObsolete, TypeOK, UnfinishedItemStates,
                  TerminalItemStates
    <2>2. QED
      BY <1>8, <2>1, QuietSteps DEF SyncMembership
  <1>9. ASSUME NEW o \in Jobs, NEW n \in Jobs, NEW wanted \in SUBSET Items,
               NEW k \in MaybeKey, Retry(o, n, wanted, k)
        PROVE  [Contract!Next]_(Contract!vars)
    BY <1>9, MovesSimulate DEF Retry, InsertJob, Exists
  <1>10. ASSUME NEW n \in Jobs, Start(n) PROVE [Contract!Next]_(Contract!vars)
    BY <1>10, MovesSimulate DEF Start
  <1>11. ASSUME NEW n \in Jobs, Fail(n) \/ Expire(n) PROVE [Contract!Next]_(Contract!vars)
    BY <1>11, MovesSimulate DEF Fail, Expire, ActiveJobStates, Exists
  <1>12. ASSUME NEW n \in Jobs, NEW s \in TerminalJobStates \cup {"auto"}, Finish(n, s)
         PROVE  [Contract!Next]_(Contract!vars)
    <2>1. PICK t \in TerminalJobStates : state' = [state EXCEPT ![n] = t]
      BY <1>12 DEF Finish, ResultOf
    <2>2. state[n] = "running"
      BY <1>12 DEF Finish
    <2>3. QED
      BY <2>1, <2>2, MovesSimulate DEF Exists
  <1>13. ASSUME NEW n \in Jobs, NEW r \in Items, Claim(n, r) \/ MarkPrefiltered(n, r)
         PROVE  [Contract!Next]_(Contract!vars)
    <2>1. \A j \in Jobs : Judged(j)' = Judged(j)
      BY <1>13 DEF Claim, MarkPrefiltered, SetItem, NextItemStates, Judged, TypeOK,
                   TerminalItemStates
    <2>2. QED
      BY <1>13, <2>1, QuietSteps DEF Claim, MarkPrefiltered
  <1>14. ASSUME NEW n \in Jobs, NEW r \in Items, RecordObservation(n, r)
         PROVE  [Contract!Next]_(Contract!vars)
    BY <1>14, QuietSteps DEF RecordObservation, Judged
  <1>15. ASSUME NEW n \in Jobs, NEW r \in Items, NEW s \in TerminalItemStates,
                NEW m \in BOOLEAN, FinishItem(n, r, s, m)
         PROVE  [Contract!Next]_(Contract!vars)
    BY <1>15, VerdictSimulates
  <1>16. ASSUME NEW stale \in SUBSET Jobs, Recover(stale)
         PROVE  [Contract!Next]_(Contract!vars)
    BY <1>16, RecoverySimulates
  <1>17. CASE UNCHANGED vars
    BY <1>17, QuietSteps DEF vars, Judged
  <1>18. QED
    BY <1>0, <1>1, <1>2, <1>3, <1>4, <1>5, <1>6, <1>7, <1>8, <1>9, <1>10, <1>11, <1>12, <1>13,
       <1>14, <1>15, <1>16, <1>17 DEF Next, Submit, Control, Worker

\* The store implements the contract: one job runs at a time, verdicts arrive
\* only once a job was started and are never taken back, over is for ever.
THEOREM StoreImplementsContract == Spec => ImplementsContract
  <1>1. Init => Contract!Init
    <2> SUFFICES ASSUME Init PROVE Contract!Init
      OBVIOUS
    <2>1. \A j \in Jobs : PhaseOf(j) = "absent" /\ Judged(j) = {}
      BY DEF Init, PhaseOf, Judged, Terminal, TerminalJobStates, TerminalItemStates
    <2>2. QED
      BY <2>1 DEF Contract!Init, Phase, Verdicts
  <1>2. TypeOK /\ IInv /\ [Next]_vars => [Contract!Next]_(Contract!vars)
    BY StepsSimulate
  <1>3. QED
    BY <1>1, <1>2, TypeCorrect, Invariance, PTL DEF Spec, ImplementsContract, Contract!Spec

-----------------------------------------------------------------------------
(* The keyed control calls of JobControl *)

\* A keyed call is a call of the store, or writes nothing.
LEMMA KeyedCallsAreCalls ==
    ASSUME [CNext]_cvars
    PROVE  [Next]_vars
  <1>1. ASSUME NEW j \in Jobs, NEW k \in Keys, PauseWithKey(j, k) PROVE [Next]_vars
    <2>1. Pause(j) \/ UNCHANGED vars
      BY <1>1 DEF PauseWithKey, AnswerReplay
    <2>2. QED
      BY <2>1 DEF Next, Control
  <1>2. ASSUME NEW j \in Jobs, NEW k \in Keys, CancelWithKey(j, k) PROVE [Next]_vars
    <2>1. Cancel(j) \/ UNCHANGED vars
      BY <1>2 DEF CancelWithKey, AnswerReplay
    <2>2. QED
      BY <2>1 DEF Next, Control
  <1>3. ASSUME NEW j \in Jobs, NEW k \in Keys, NEW gone \in SUBSET Items, ResumeWithKey(j, k, gone)
        PROVE  [Next]_vars
    <2>1. Resume(j, gone) \/ UNCHANGED vars
      BY <1>3 DEF ResumeWithKey, AnswerReplay
    <2>2. QED
      BY <2>1 DEF Next, Control
  <1>4. CASE UNCHANGED cvars
    BY <1>4 DEF cvars
  <1>5. QED
    BY <1>1, <1>2, <1>3, <1>4 DEF CNext

\* The keyed calls change the tables through transactions of the store only, so
\* every theorem about JobStore holds of them as well.
THEOREM KeyedCallsKeepTheStore == CSpec => Spec
  <1>1. CInit => Init
    BY DEF CInit
  <1>2. QED
    BY <1>1, KeyedCallsAreCalls, PTL DEF CSpec, Spec

\* A cancel that is recorded, or was answered, found the job cancelled or made it so.
CancelKept ==
    /\ effects \in [Requests -> Nat]
    /\ \A j \in Jobs, k \in Keys :
         <<j, "cancel", k>> \in answered \/ Replayed(<<j, "cancel", k>>) => state[j] = "cancelled"

\* A cancelled job stays so.
LEMMA CancelledStays ==
    ASSUME TypeOK, IInv, [Next]_vars, NEW j \in Jobs, state[j] = "cancelled"
    PROVE  state'[j] = "cancelled"
  BY HistoryStep DEF KeepsHistory, Terminal, TerminalJobStates

\* What one keyed call r answers and records: itself, if that, and nothing else.
LEMMA OneAnswer ==
    ASSUME effects \in [Requests -> Nat], NEW r \in Requests,
           AnswerReplay(r) \/ Record(r) \/ AnswerUnrecorded(r)
    PROVE  /\ effects' \in [Requests -> Nat] /\ answered' = answered \cup {r}
           /\ \A q \in Requests \ {r} : effects'[q] = effects[q]
  BY DEF AnswerReplay, Record, AnswerUnrecorded, Answer

LEMMA CancelKeptStep ==
    ASSUME TypeOK, IInv, CancelKept, [CNext]_cvars
    PROVE  CancelKept'
  <1>1. \A j \in Jobs : state[j] = "cancelled" => state'[j] = "cancelled"
    BY KeyedCallsAreCalls, CancelledStays
  <1>2. ASSUME NEW j \in Jobs, NEW k \in Keys, NEW a \in {"pause", "resume", "cancel"},
               AnswerReplay(<<j, a, k>>) \/ Record(<<j, a, k>>) \/ AnswerUnrecorded(<<j, a, k>>),
               a = "cancel" => state'[j] = "cancelled"
        PROVE  CancelKept'
    <2>1. <<j, a, k>> \in Requests
      BY DEF Requests
    <2>2. /\ effects' \in [Requests -> Nat] /\ answered' = answered \cup {<<j, a, k>>}
          /\ \A q \in Requests \ {<<j, a, k>>} : effects'[q] = effects[q]
      BY <1>2, <2>1, OneAnswer DEF CancelKept
    <2>3. ASSUME NEW n \in Jobs, NEW l \in Keys,
                 <<n, "cancel", l>> \in answered' \/ Replayed(<<n, "cancel", l>>)'
          PROVE  state'[n] = "cancelled"
      <3>1. <<n, "cancel", l>> \in Requests
        BY DEF Requests
      <3>2. CASE <<n, "cancel", l>> = <<j, a, k>>
        BY <1>2, <3>2
      <3>3. CASE <<n, "cancel", l>> # <<j, a, k>>
        BY <1>1, <2>2, <2>3, <3>1, <3>3 DEF CancelKept, Replayed
      <3>4. QED
        BY <3>2, <3>3
    <2>4. QED
      BY <2>2, <2>3 DEF CancelKept
  <1>3. ASSUME NEW j \in Jobs, NEW k \in Keys, PauseWithKey(j, k) PROVE CancelKept'
    BY <1>2, <1>3 DEF PauseWithKey
  <1>4. ASSUME NEW j \in Jobs, NEW k \in Keys, NEW gone \in SUBSET Items, ResumeWithKey(j, k, gone)
        PROVE  CancelKept'
    BY <1>2, <1>4 DEF ResumeWithKey
  <1>5. ASSUME NEW j \in Jobs, NEW k \in Keys, CancelWithKey(j, k) PROVE CancelKept'
    <2>1. state'[j] = "cancelled"
      <3>1. CASE AnswerReplay(<<j, "cancel", k>>)
        BY <3>1 DEF AnswerReplay, CancelKept, vars
      <3>2. CASE Cancel(j)
        BY <3>2 DEF Cancel, TypeOK
      <3>3. CASE CancelSatisfied(j) /\ UNCHANGED vars
        BY <3>3 DEF CancelSatisfied, vars
      <3>4. QED
        BY <1>5, <3>1, <3>2, <3>3 DEF CancelWithKey
    <2>2. QED
      BY <1>2, <1>5, <2>1 DEF CancelWithKey
  <1>6. CASE UNCHANGED <<effects, answered>>
    BY <1>1, <1>6 DEF CancelKept, Replayed
  <1>7. QED
    BY <1>3, <1>4, <1>5, <1>6 DEF CNext, cvars

\* A cancel that was answered holds for ever: no finish, recovery or resume that
\* raced it leaves the job in another state.
THEOREM AnsweredCancelsHold == CSpec => []AnsweredCancelHolds
  <1>1. CInit => CancelKept
    BY DEF CInit, CancelKept, Replayed, Requests
  <1>2. CancelKept => AnsweredCancelHolds
    BY DEF CancelKept, AnsweredCancelHolds
  <1>3. QED
    BY <1>1, <1>2, CancelKeptStep, KeyedCallsKeepTheStore, TypeCorrect, Invariance, PTL DEF CSpec

-----------------------------------------------------------------------------
(* The processes *)

\* Steps of a process that has no job yet.
Jobless == {"idle", "opened", "recovering"}

Fits(p, t) ==
    /\ t \in Tasks
    /\ t.at \notin Jobless => t.job \in Jobs
    /\ p \in Checkers /\ t.job \in Jobs => Kind[t.job] = "pool_recheck"

TaskInv ==
    /\ task \in [Procs -> Tasks]
    /\ \A p \in Procs : Fits(p, task[p])

LockInv == \A p \in Runners \cup Scanners : task[p].at # "idle" => lock = p

GoesOn(p) ==
    /\ p \in Checkers \/ task[p].at # "idle"
    /\ lock' = lock
    /\ \E t \in Tasks :
         /\ t.at # "idle" /\ Fits(p, t)
         /\ t.at \in Measuring => Works(p, t.job) \/ state'[t.job] = "running"
         /\ task' = [task EXCEPT ![p] = t]

\* What a step can do to the processes.
Shape ==
    \/ UNCHANGED <<lock, task>>
    \/ \E p \in Procs : GoesOn(p)
    \/ \E p \in Procs : Leave(p)
    \/ \E p \in Runners \cup Scanners :
         LockFree /\ lock' = p /\ Take(p, "opened", NoJob)
    \/ task' = [p \in Procs |-> Idle] /\ lock' = NoProc

LEMMA IdleFits == ASSUME NEW p \in Procs PROVE Idle \in Tasks /\ Fits(p, Idle)
  BY SentinelAssumption DEF Idle, Tasks, Steps, Fits, Jobless

\* The process keeps its job.
LEMMA GoFits ==
    ASSUME TaskInv, NEW p \in Procs, NEW step \in Steps, step # "idle",
           task[p].at \notin Jobless, Go(p, step), lock' = lock,
           step \in Measuring => Works(p, task[p].job) \/ state'[task[p].job] = "running"
    PROVE  GoesOn(p)
  <1> DEFINE t == [task[p] EXCEPT !.at = step]
  <1>1. /\ t \in Tasks /\ t.at = step /\ t.job = task[p].job
        /\ task[p] \in Tasks /\ Fits(p, task[p]) /\ task[p].at # "idle"
    BY DEF TaskInv, Tasks, Jobless
  <1>2. Fits(p, t)
    BY <1>1 DEF Fits
  <1>3. task' = [task EXCEPT ![p] = t]
    BY DEF Go, TaskInv
  <1>4. QED
    BY <1>1, <1>2, <1>3 DEF GoesOn

\* The process picks its item up or puts it down.
LEMMA ItemFits ==
    ASSUME TaskInv, NEW p \in Procs, NEW step \in Measuring, NEW hand \in SUBSET Items,
           task[p].at \in Measuring, lock' = lock,
           task' = [task EXCEPT ![p].at = step, ![p].item = hand]
    PROVE  GoesOn(p)
  <1> DEFINE t == [task[p] EXCEPT !.at = step, !.item = hand]
  <1>1. /\ t \in Tasks /\ t.at = step /\ t.job = task[p].job
        /\ task[p] \in Tasks /\ Fits(p, task[p])
    BY DEF TaskInv, Tasks, Measuring, Steps
  <1>2. Fits(p, t)
    BY <1>1 DEF Fits, Measuring, Jobless
  <1>3. task' = [task EXCEPT ![p] = t]
    BY DEF TaskInv
  <1>4. QED
    BY <1>1, <1>2, <1>3 DEF GoesOn, Works, Measuring

\* The process takes a job up before it measures it.
LEMMA TakeFits ==
    ASSUME TaskInv, NEW p \in Procs, NEW j \in Jobs,
           NEW step \in {"chosen", "submitting", "reusing"},
           p \in Checkers => Kind[j] = "pool_recheck",
           p \in Checkers \/ task[p].at # "idle",
           Take(p, step, j), lock' = lock
    PROVE  GoesOn(p)
  <1> DEFINE t == [Idle EXCEPT !.at = step, !.job = j]
  <1>1. t \in Tasks /\ t.at = step /\ t.job = j
    BY DEF Tasks, Idle, Steps
  <1>2. Fits(p, t) /\ t.at \notin Measuring /\ t.at # "idle"
    BY <1>1 DEF Fits, Measuring
  <1>3. QED
    BY <1>1, <1>2 DEF GoesOn, Take

-----------------------------------------------------------------------------
(* Every step is a transaction of the store, or leaves the store alone.      *)

LEMMA StoreCalls ==
    /\ \A j \in Jobs :
         /\ Pause(j) \/ Cancel(j) \/ Start(j) \/ Fail(j) \/ Resume(j, {}) => Next
         /\ \A s \in TerminalJobStates \cup {"auto"} : Finish(j, s) => Next
         /\ \A i \in Items : Claim(j, i) \/ RecordObservation(j, i) => Next
         /\ \A i \in Items, s \in {"done", "unreachable"} : FinishItem(j, i, s, TRUE) => Next
         /\ \A o \in Jobs : Retry(o, j, Queue(o), NoKey) => Next
         /\ \A c \in Clients : SubmitCreate(c, j, Items, NoKey) => Next
    /\ \A c \in Clients : SubmitQueue(c) => Next
    /\ \A stale \in SUBSET Jobs : Recover(stale) => Next
    /\ \A dead \in SUBSET Clients : SubmitLost(dead) => Next
  <1>1. ASSUME NEW j \in Jobs
        PROVE  /\ Pause(j) \/ Cancel(j) \/ Start(j) \/ Fail(j) => Next
               /\ \A s \in TerminalJobStates \cup {"auto"} : Finish(j, s) => Next
               /\ \A i \in Items : Claim(j, i) \/ RecordObservation(j, i) => Next
    BY DEF Next, Control, Worker
  <1>2. ASSUME NEW j \in Jobs PROVE Resume(j, {}) => Next
    BY DEF Next, Control
  <1>3. ASSUME NEW j \in Jobs, NEW i \in Items, NEW s \in {"done", "unreachable"}
        PROVE  FinishItem(j, i, s, TRUE) => Next
    <2>1. s \in TerminalItemStates /\ TRUE \in BOOLEAN
      BY DEF TerminalItemStates
    <2>2. QED
      BY <2>1 DEF Next, Worker
  <1>4. ASSUME NEW j \in Jobs, NEW o \in Jobs PROVE Retry(o, j, Queue(o), NoKey) => Next
    <2>1. Queue(o) \in SUBSET Items /\ NoKey \in MaybeKey
      BY DEF Queue, MaybeKey
    <2>2. QED
      BY <2>1 DEF Next, Control
  <1>5. ASSUME NEW j \in Jobs, NEW c \in Clients
        PROVE  SubmitCreate(c, j, Items, NoKey) => Next
    <2>1. Items \in SUBSET Items /\ NoKey \in MaybeKey
      BY DEF MaybeKey
    <2>2. QED
      BY <2>1 DEF Next, Submit
  <1>6. QED
    BY <1>1, <1>2, <1>3, <1>4, <1>5 DEF Next, Submit, Worker

LEMMA RunnerSteps ==
    ASSUME TypeOK, TaskInv, NEW r \in Runners, Runner(r) \/ SeeStop(r) \/ Break(r)
    PROVE  [Next]_vars /\ Shape
  <1> DEFINE j == task[r].job
  <1>p. r \in Procs /\ r \in Runners \cup Scanners
    BY DEF Procs
  <1>j. task[r].at \notin Jobless => j \in Jobs
    BY <1>p DEF TaskInv, Fits
  <1>go. ASSUME NEW step \in Steps \ (Measuring \cup {"idle"}), task[r].at \notin Jobless,
                Go(r, step), UNCHANGED lock
         PROVE  Shape
    BY <1>go, <1>p, GoFits DEF Shape
  <1>m. ASSUME task[r].at \notin Jobless, Go(r, "measuring"), UNCHANGED lock,
               state'[j] = "running"
        PROVE  Shape
    BY <1>m, <1>p, GoFits DEF Shape, Steps, Measuring
  <1>leave. ASSUME Leave(r) PROVE Shape
    BY <1>leave, <1>p DEF Shape
  <1> USE DEF At, Jobless, Steps, Measuring
  <1>1. CASE Open(r)
    BY <1>1, <1>p DEF Open, Shape
  <1>2. CASE FindRunning(r)
    <2>1. GoesOn(r)
      <3> DEFINE t == [task[r] EXCEPT !.at = "recovering"]
      <3>1. task[r] \in Tasks /\ Fits(r, task[r]) /\ t \in Tasks
            /\ t.at = "recovering" /\ t.job = task[r].job
        BY <1>p DEF TaskInv, Tasks
      <3>2. Fits(r, t)
        BY <3>1 DEF Fits
      <3>3. task' = [task EXCEPT ![r] = t]
        BY <1>2 DEF FindRunning, Go, TaskInv
      <3>4. QED
        BY <1>2, <3>1, <3>2, <3>3 DEF GoesOn, FindRunning
    <2>2. QED
      BY <1>2, <2>1, <1>p DEF FindRunning, Shape
  <1>3. CASE RecoverAndLeave(r)
    BY <1>3, <1>leave, StoreCalls DEF RecoverAndLeave, RecoverStale, Stale
  <1>4. CASE Choose(r)
    BY <1>4, <1>p, <1>leave, TakeFits, ProcsAssumption DEF Choose, Shape
  <1>5. CASE LookAgain(r)
    BY <1>5, <1>go, <1>leave DEF LookAgain
  <1>6a. CASE TurnAway(r)
    BY <1>6a, <1>go, <1>leave, <1>j, StoreCalls DEF TurnAway
  <1>6. CASE RunChosen(r)
    <2>1. CASE StartJob(j) /\ Go(r, "measuring") /\ UNCHANGED lock
      <3>1. state'[j] = "running"
        BY <1>6, <2>1, <1>j DEF RunChosen, StartJob, Start, TypeOK
      <3>2. QED
        BY <1>6, <2>1, <3>1, <1>m, <1>j, StoreCalls DEF RunChosen, StartJob
    <2>2. CASE Joins(j) /\ Go(r, "measuring") /\ UNCHANGED lock
      BY <1>6, <2>2, <1>m DEF RunChosen, Joins, vars
    <2>3. CASE StartRefused(j) /\ Leave(r)
      BY <2>3, <1>leave DEF StartRefused
    <2>4. CASE StartRefused(j) /\ Go(r, "failing") /\ UNCHANGED lock
      BY <1>6, <2>4, <1>go DEF StartRefused, RunChosen
    <2>5. QED
      BY <1>6, <2>1, <2>2, <2>3, <2>4 DEF RunChosen
  <1>7. CASE Beat(r)
    BY <1>7 DEF Beat, Shape
  <1>8. CASE Poll(r)
    BY <1>8, <1>go DEF Poll
  <1>9. CASE SeeStop(r)
    BY <1>9, <1>go DEF SeeStop
  <1>10. CASE PauseOnStop(r)
    BY <1>10, <1>go, <1>j, StoreCalls DEF PauseOnStop, PauseJob
  <1>11. CASE LookBeforeFinish(r)
    BY <1>11, <1>go, <1>leave DEF LookBeforeFinish
  <1>12. CASE FinishRun(r)
    <2>1. {"succeeded", "partial"} \subseteq TerminalJobStates
      BY DEF TerminalJobStates
    <2>2. QED
      BY <1>12, <2>1, <1>go, <1>leave, <1>j, StoreCalls DEF FinishRun
  <1>13. CASE Break(r)
    BY <1>13, <1>go DEF Break
  <1>14. CASE LookBeforeFail(r)
    BY <1>14, <1>go, <1>leave DEF LookBeforeFail
  <1>15. CASE FailRun(r)
    BY <1>15, <1>leave, <1>j, StoreCalls DEF FailRun
  <1>16. QED
    BY <1>1, <1>2, <1>3, <1>4, <1>5, <1>6a, <1>6, <1>7, <1>8, <1>9, <1>10, <1>11, <1>12,
       <1>13, <1>14, <1>15 DEF Runner

LEMMA QueueOwnSteps ==
    ASSUME TaskInv, NEW p \in Scanners \cup Checkers, QueueOwn(p)
    PROVE  [Next]_vars /\ Shape
  <1>p. p \in Procs /\ p \in Clients
    BY ProcsAssumption DEF Procs
  <1>1. CASE Go(p, "starting") /\ UNCHANGED lock
    <2>1. GoesOn(p)
      BY <1>1, <1>p, GoFits DEF QueueOwn, At, Jobless, Steps, Measuring
    <2>2. QED
      BY <2>1, <1>p, StoreCalls DEF QueueOwn, Shape
  <1>2. CASE Leave(p)
    BY <1>2, <1>p, StoreCalls DEF QueueOwn, Shape
  <1>3. QED
    BY <1>1, <1>2 DEF QueueOwn

\* finish_scan_job ends the process whatever became of its job.
LEMMA CloseScanSteps ==
    ASSUME TaskInv, NEW p \in Procs, NEW results \in SUBSET (TerminalJobStates \cup {"auto"}),
           CloseScan(p, results)
    PROVE  [Next]_vars /\ Shape
  <1>1. task[p].job \in Jobs
    BY DEF CloseScan, At, TaskInv, Fits, Jobless
  <1>2. [Next]_vars
    BY <1>1, StoreCalls DEF CloseScan
  <1>3. QED
    BY <1>2 DEF CloseScan, Shape

LEMMA ScannerSteps ==
    ASSUME TypeOK, TaskInv, NEW s \in Scanners, Scanner(s)
    PROVE  [Next]_vars /\ Shape
  <1> DEFINE j == task[s].job
  <1>p. /\ s \in Procs /\ s \in Runners \cup Scanners /\ s \in Clients /\ s \notin Checkers
        /\ s \in Scanners \cup Checkers
    BY ProcsAssumption DEF Procs
  <1>j. task[s].at \notin Jobless => j \in Jobs
    BY <1>p DEF TaskInv, Fits
  <1>go. ASSUME NEW step \in Steps \ (Measuring \cup {"idle"}), task[s].at \notin Jobless,
                Go(s, step), UNCHANGED lock
         PROVE  Shape
    BY <1>go, <1>p, GoFits DEF Shape
  <1>leave. ASSUME Leave(s) PROVE Shape
    BY <1>leave, <1>p DEF Shape
  <1>take. ASSUME NEW n \in Jobs, NEW step \in {"submitting", "reusing"},
                  task[s].at # "idle", Take(s, step, n), UNCHANGED lock
           PROVE  Shape
    BY <1>take, <1>p, TakeFits DEF Shape
  <1> USE DEF At, Jobless, Steps, Measuring
  <1>1. CASE Open(s)
    BY <1>1, <1>p DEF Open, Shape
  <1>2. CASE PauseLeftover(s)
    BY <1>2, StoreCalls DEF PauseLeftover, PauseJob, Checks, InState, Shape
  <1>3a. CASE FindLeftover(s)
    BY <1>3a, <1>take DEF FindLeftover
  <1>3. CASE ResumeLeftover(s)
    BY <1>3, <1>j, <1>go, <1>leave, StoreCalls DEF ResumeLeftover, ResumeJob
  <1>4. CASE SubmitScan(s)
    BY <1>4, <1>p, <1>take, StoreCalls DEF SubmitScan, Create
  <1>5. CASE LeaveUnscanned(s)
    BY <1>5, <1>leave DEF LeaveUnscanned
  <1>6. CASE QueueOwn(s)
    BY <1>6, <1>p, QueueOwnSteps
  <1>7. CASE StartScan(s)
    <2>1. CASE (StartJob(j) \/ Joins(j)) /\ Go(s, "measuring") /\ UNCHANGED lock
      <3>1. j \in Jobs /\ task[s].at \notin Jobless
        BY <1>7, <1>j DEF StartScan
      <3>2. state'[j] = "running"
        BY <2>1, <3>1 DEF StartJob, Start, Joins, vars, TypeOK
      <3>3. GoesOn(s)
        BY <2>1, <3>1, <3>2, <1>p, GoFits
      <3>4. [Next]_vars
        BY <2>1, <3>1, StoreCalls DEF StartJob, Joins
      <3>5. QED
        BY <3>3, <3>4, <1>p DEF Shape
    <2>2. CASE At(s, "starting") /\ StartRefused(j) /\ Go(s, "refused") /\ UNCHANGED lock
      BY <2>2, <1>go DEF StartRefused
    <2>3. CASE StartRefused(j) /\ Leave(s)
      BY <2>3, <1>leave DEF StartRefused
    <2>4. QED
      BY <1>7, <2>1, <2>2, <2>3 DEF StartScan
  <1>8. CASE CancelRefused(s)
    BY <1>8, <1>j, <1>leave, StoreCalls DEF CancelRefused
  <1>9. CASE Interrupt(s)
    BY <1>9, <1>go DEF Interrupt
  <1>10. CASE PauseScan(s)
    BY <1>10, <1>j, <1>leave, StoreCalls DEF PauseScan, PauseJob
  <1>11. CASE CloseScan(s, {"succeeded", "partial", "auto"})
    BY <1>11, <1>p, CloseScanSteps DEF TerminalJobStates
  <1>12. QED
    BY <1>1, <1>2, <1>3a, <1>3, <1>4, <1>5, <1>6, <1>7, <1>8, <1>9, <1>10, <1>11 DEF Scanner

LEMMA CheckerSteps ==
    ASSUME TypeOK, TaskInv, NEW c \in Checkers, Checker(c)
    PROVE  [Next]_vars /\ Shape
  <1> DEFINE j == task[c].job
  <1>p. c \in Procs /\ c \in Clients
    BY ProcsAssumption DEF Procs
  <1>1. CASE SubmitRecheck(c)
    <2>1. PICK n \in Jobs : Kind[n] = "pool_recheck" /\ Create(c, n) /\ Take(c, "submitting", n)
      BY <1>1 DEF SubmitRecheck
    <2>2. GoesOn(c)
      BY <1>1, <1>p, <2>1, TakeFits DEF SubmitRecheck
    <2>3. QED
      BY <2>1, <2>2, <1>p, StoreCalls DEF Create, Shape
  <1>2. CASE QueueOwn(c)
    BY <1>2, QueueOwnSteps
  <1>3. CASE StartRecheck(c)
    <2>j. j \in Jobs /\ task[c].at \notin Jobless
      BY <1>3, <1>p DEF StartRecheck, TaskInv, Fits, At, Jobless
    <2>1. CASE (StartJob(j) \/ Joins(j)) /\ Go(c, "measuring") /\ UNCHANGED lock
      <3>1. state'[j] = "running"
        BY <2>1, <2>j DEF StartJob, Start, Joins, vars, TypeOK
      <3>2. GoesOn(c)
        BY <2>1, <2>j, <3>1, <1>p, GoFits DEF Steps, Measuring
      <3>3. [Next]_vars
        BY <2>1, <2>j, StoreCalls DEF StartJob, Joins
      <3>4. QED
        BY <3>2, <3>3, <1>p DEF Shape
    <2>2. CASE StartRefused(j) /\ Leave(c)
      BY <2>2, <1>p DEF StartRefused, Shape
    <2>3. QED
      BY <1>3, <2>1, <2>2 DEF StartRecheck
  <1>4. CASE CloseScan(c, {"succeeded", "partial", "failed"})
    BY <1>4, <1>p, CloseScanSteps DEF TerminalJobStates
  <1>5. QED
    BY <1>1, <1>2, <1>3, <1>4 DEF Checker

LEMMA MeasureSteps ==
    ASSUME TaskInv, NEW p \in Procs, Measure(p)
    PROVE  [Next]_vars /\ Shape
  <1> DEFINE j == task[p].job
  <1>j. /\ task[p].at \in Measuring /\ task[p].at \notin Jobless /\ j \in Jobs
        /\ task[p].item \subseteq Items /\ task[p] \in Tasks
    BY DEF Measure, ClaimItem, RecordItem, JudgeItem, Stop, At, Measuring, Jobless, TaskInv,
           Fits, Tasks
  <1>hand. ASSUME NEW step \in Measuring, NEW hand \in SUBSET Items, UNCHANGED lock,
                  task' = [task EXCEPT ![p].at = step, ![p].item = hand]
           PROVE  GoesOn(p)
    BY <1>hand, <1>j, ItemFits
  <1>down. ASSUME task' = [task EXCEPT ![p].at = "measuring", ![p].item = {}], UNCHANGED lock
           PROVE  GoesOn(p)
    <2>1. "measuring" \in Measuring /\ {} \in SUBSET Items
      BY DEF Measuring
    <2>2. QED
      BY <1>down, <1>hand, <2>1
  <1>1. CASE ClaimItem(p)
    <2>1. PICK i \in Items : /\ Claim(j, i)
                             /\ task' = [task EXCEPT ![p].at = "recording", ![p].item = {i}]
      BY <1>1 DEF ClaimItem
    <2>2. "recording" \in Measuring /\ {i} \in SUBSET Items /\ UNCHANGED lock
      BY <1>1 DEF Measuring, ClaimItem
    <2>3. GoesOn(p)
      BY <1>hand, <2>1, <2>2
    <2>4. QED
      BY <1>j, <2>1, <2>3, StoreCalls DEF Shape
  <1>2. CASE RecordItem(p)
    <2>1. PICK i \in task[p].item :
            \/ RecordObservation(j, i) /\ Go(p, "judging")
            \/ /\ task' = [task EXCEPT ![p].at = "measuring", ![p].item = {}]
               /\ UNCHANGED vars
      BY <1>2 DEF RecordItem
    <2>2. ASSUME Go(p, "judging") PROVE GoesOn(p)
      BY <1>2, <1>j, <2>2, GoFits DEF RecordItem, Works, Steps, Measuring
    <2>3. QED
      BY <1>2, <1>j, <1>down, <2>1, <2>2, StoreCalls DEF Shape, RecordItem
  <1>3. CASE JudgeItem(p)
    <2>1. PICK i \in task[p].item :
            \/ \E s \in {"done", "unreachable"} : FinishItem(j, i, s, TRUE)
            \/ UNCHANGED vars
      BY <1>3 DEF JudgeItem
    <2>2. GoesOn(p)
      BY <1>3, <1>down DEF JudgeItem
    <2>3. QED
      BY <1>j, <2>1, <2>2, StoreCalls DEF Shape
  <1>4. CASE Stop(p)
    <2>1. GoesOn(p)
      BY <1>4, <1>j, GoFits DEF Stop, Steps, Measuring
    <2>2. QED
      BY <1>4, <2>1 DEF Stop, Shape
  <1>5. QED
    BY <1>1, <1>2, <1>3, <1>4 DEF Measure

\* Users, faults and time.
LEMMA OtherSteps ==
    ASSUME TypeOK, TaskInv,
           \/ QueueOnly \/ UserControl \/ FallAsleep \/ WakeUp \/ LosePower
           \/ \E j \in Jobs : Silence(j)
           \/ \E p \in Procs : Crash(p)
    PROVE  [Next]_vars /\ Shape
  <1>1. CASE QueueOnly
    BY <1>1, StoreCalls DEF QueueOnly, Create, Shape
  <1>2. CASE UserControl
    BY <1>2, StoreCalls
       DEF UserControl, PauseJob, ResumeJob, RetryJob, RecoverStale, Stale, Shape
  <1>3. CASE FallAsleep
    BY <1>3 DEF FallAsleep, Shape
  <1>4. CASE WakeUp
    BY <1>4 DEF WakeUp, Shape
  <1>5. CASE LosePower
    <2>1. CASE \E c \in Clients : held[c] # NoJob
      BY <1>5, <2>1, StoreCalls DEF LosePower, SubmitLost, Shape
    <2>2. CASE \A c \in Clients : held[c] = NoJob
      <3>1. held' = held
        BY <1>5, <2>2 DEF LosePower, TypeOK
      <3>2. QED
        BY <1>5, <3>1 DEF LosePower, Shape, vars
    <2>3. QED
      BY <2>1, <2>2
  <1>6. CASE \E j \in Jobs : Silence(j)
    BY <1>6 DEF Silence, Shape
  <1>7. ASSUME NEW p \in Procs, Crash(p) PROVE [Next]_vars /\ Shape
    <2>1. CASE p \in Clients /\ held[p] # NoJob
      <3>1. held' = [c \in Clients |-> IF c \in {p} THEN NoJob ELSE held[c]]
        BY <1>7, <2>1 DEF Crash, TypeOK
      <3>2. SubmitLost({p})
        BY <1>7, <2>1, <3>1 DEF Crash, SubmitLost
      <3>3. QED
        BY <1>7, <2>1, <3>2, StoreCalls DEF Crash, Shape
    <2>2. CASE ~(p \in Clients /\ held[p] # NoJob)
      <3>1. held' = held
        BY <1>7, <2>2 DEF Crash, TypeOK
      <3>2. QED
        BY <1>7, <3>1 DEF Crash, records, vars, Shape
    <2>3. QED
      BY <2>1, <2>2
  <1>8. QED
    BY <1>1, <1>2, <1>3, <1>4, <1>5, <1>6, <1>7

LEMMA EveryStep ==
    ASSUME TypeOK, TaskInv, [RNext]_rvars
    PROVE  [Next]_vars /\ Shape
  <1>1. CASE UNCHANGED rvars
    BY <1>1 DEF rvars, Shape
  <1>2. CASE RNext
    BY <1>2, RunnerSteps, ScannerSteps, CheckerSteps, MeasureSteps, OtherSteps
       DEF RNext, Awake
  <1>3. QED
    BY <1>1, <1>2

-----------------------------------------------------------------------------
(* What follows from the shape of the steps.                                 *)

LEMMA TasksKept == ASSUME TaskInv, Shape PROVE TaskInv'
  <1>1. ASSUME NEW p \in Procs, NEW t \in Tasks, Fits(p, t), task' = [task EXCEPT ![p] = t]
        PROVE  TaskInv'
    BY <1>1 DEF TaskInv, Fits
  <1>2. CASE UNCHANGED <<lock, task>>
    BY <1>2 DEF TaskInv, Fits
  <1>3. CASE \E p \in Procs : GoesOn(p)
    BY <1>1, <1>3 DEF GoesOn
  <1>4. CASE \E p \in Procs : Leave(p)
    BY <1>1, <1>4, IdleFits DEF Leave
  <1>5. ASSUME NEW p \in Runners \cup Scanners, Take(p, "opened", NoJob) PROVE TaskInv'
    <2> DEFINE t == [Idle EXCEPT !.at = "opened", !.job = NoJob]
    <2>1. p \in Procs /\ t \in Tasks /\ Fits(p, t)
      BY SentinelAssumption DEF Procs, Idle, Tasks, Steps, Fits, Jobless
    <2>2. QED
      BY <1>1, <1>5, <2>1 DEF Take
  <1>6. CASE task' = [p \in Procs |-> Idle]
    BY <1>6, IdleFits DEF TaskInv, Fits
  <1>7. QED
    BY <1>2, <1>3, <1>4, <1>5, <1>6 DEF Shape

LEMMA LockKept == ASSUME TaskInv, LockInv, Shape PROVE LockInv'
  <1>p. Runners \cup Scanners \subseteq Procs /\ (Runners \cup Scanners) \cap Checkers = {}
        /\ NoProc \notin Procs
    BY ProcsAssumption DEF Procs
  <1>1. CASE UNCHANGED <<lock, task>>
    BY <1>1 DEF LockInv
  <1>2. ASSUME NEW p \in Procs, GoesOn(p) PROVE LockInv'
    BY <1>2, <1>p DEF LockInv, GoesOn, TaskInv
  <1>3. ASSUME NEW p \in Procs, Leave(p) PROVE LockInv'
    BY <1>3, <1>p DEF LockInv, Leave, Release, TaskInv, Idle
  <1>4. ASSUME NEW p \in Runners \cup Scanners, LockFree, lock' = p, Take(p, "opened", NoJob)
        PROVE  LockInv'
    BY <1>4, <1>p DEF LockInv, LockFree, Take, TaskInv
  <1>5. CASE task' = [p \in Procs |-> Idle] /\ lock' = NoProc
    BY <1>5, <1>p DEF LockInv, Idle
  <1>6. QED
    BY <1>1, <1>2, <1>3, <1>4, <1>5 DEF Shape

Steady == TypeOK /\ TaskInv /\ LockInv

LEMMA SteadyStart == RInit => Init /\ Steady
  <1>1. Init => TypeOK
    BY DEF Init, TypeOK, MaybeKey
  <1>2. RInit => TaskInv /\ LockInv
    <2> SUFFICES ASSUME RInit PROVE TaskInv /\ LockInv
      OBVIOUS
    <2>1. \A p \in Procs : task[p] = Idle
      BY DEF RInit
    <2>2. task \in [Procs -> Tasks]
      BY IdleFits DEF RInit
    <2>3. \A p \in Procs : Fits(p, task[p])
      BY <2>1, IdleFits
    <2>4. LockInv
      BY <2>1 DEF LockInv, Idle, Procs
    <2>5. QED
      BY <2>2, <2>3, <2>4 DEF TaskInv
  <1>3. QED
    BY <1>1, <1>2 DEF RInit, Steady

LEMMA SteadyKept == ASSUME Steady, [RNext]_rvars PROVE [Next]_vars /\ Shape /\ Steady'
  BY EveryStep, TasksKept, LockKept, TypeKept DEF Steady

LEMMA SteadyAlways == RSpec => []Steady
  <1>1. RInit => Steady
    BY SteadyStart
  <1>2. Steady /\ [RNext]_rvars => Steady'
    BY SteadyKept
  <1>3. QED
    BY <1>1, <1>2, PTL DEF RSpec

\* Every step of a runner, a check command, an API thread or a user is a
\* transaction of JobStore or leaves the tables alone, whatever the processes do
\* and whenever they die: each behaviour of the processes is one of the store.
THEOREM RunnersKeepTheStore == RSpec => ImplementsStore
  <1>1. RInit => Init
    BY SteadyStart
  <1>2. Steady /\ [RNext]_rvars => [Next]_vars
    BY SteadyKept
  <1>3. QED
    BY <1>1, <1>2, SteadyAlways, PTL DEF RSpec, ImplementsStore, Spec

\* So the database has one running job, whoever runs it (the slot of JobStore.start).
THEOREM RunnersShareOneSlot == RSpec => []OneRunningJob
  BY RunnersKeepTheStore, SingleWriter, PTL DEF ImplementsStore

\* A check command that takes over what still runs takes it from the dead: it
\* holds workbench.lock, and an API thread measures jobs of another kind.
THEOREM TakeoverIsSafe == RSpec => []LeftoverIsDead
  <1>1. Steady => LeftoverIsDead
    <2> SUFFICES ASSUME Steady, NEW s \in Scanners, At(s, "opened"),
                        NEW p \in Procs, NEW j \in Jobs, Works(p, j), Kind[j] = "check"
                 PROVE  FALSE
      BY DEF LeftoverIsDead
    <2>1. lock = s /\ s \in Procs
      BY DEF Steady, LockInv, At, Procs
    <2>2. CASE p \in Checkers
      BY <2>2 DEF Steady, TaskInv, Fits, Works
    <2>3. CASE p \in Runners \cup Scanners
      <3>1. p = s
        BY <2>1, <2>3 DEF Steady, LockInv, Works, Measuring
      <3>2. QED
        BY <3>1 DEF Works, Measuring, At
    <2>4. QED
      BY <2>2, <2>3 DEF Procs
  <1>2. QED
    BY <1>1, SteadyAlways, PTL

\* Without recheck threads no job is measured twice: runners and check commands
\* exclude each other with the lock.  JobRunnerDuplicate.cfg shows why the
\* hypothesis is needed.
THEOREM LockStopsDuplicates == ASSUME Checkers = {} PROVE RSpec => []OneMeasurer
  <1>1. Steady => OneMeasurer
    BY DEF Steady, LockInv, OneMeasurer, Works, Measuring, Procs
  <1>2. QED
    BY <1>1, SteadyAlways, PTL

-----------------------------------------------------------------------------
(* Recovery.  A step pauses no job and notes no reason (Quiet), or it is the *)
(* pause or the resume of one job, or a runner recovers.                     *)

Quiet ==
    /\ interrupt' = interrupt
    /\ \A j \in Jobs : state'[j] = "paused" => state[j] = "paused"

OneJobTold == \E j \in Jobs : PauseJob(j) \/ ResumeJob(j)

RunnerRecovers == \E r \in Runners : RecoverAndLeave(r)

ReasonsTyped == interrupt \in [Jobs -> {"none", "paused", "resumed", "heartbeat_timeout"}]

LEMMA QuietCalls ==
    ASSUME TypeOK, UNCHANGED interrupt,
           \/ UNCHANGED vars
           \/ UNCHANGED state
           \/ \E j \in Jobs : Start(j) \/ Fail(j) \/ Cancel(j)
           \/ \E j \in Jobs, s \in TerminalJobStates \cup {"auto"} : Finish(j, s)
           \/ \E o, j \in Jobs : Retry(o, j, Queue(o), NoKey)
           \/ \E c \in Clients, j \in Jobs : SubmitCreate(c, j, Items, NoKey)
           \/ \E c \in Clients : SubmitQueue(c)
    PROVE  Quiet
  <1> USE DEF Quiet, TypeOK
  <1>1. CASE UNCHANGED vars \/ UNCHANGED state
    BY <1>1 DEF vars
  <1>2. ASSUME NEW j \in Jobs, Start(j) \/ Fail(j) \/ Cancel(j) PROVE Quiet
    BY <1>2 DEF Start, Fail, Cancel
  <1>3. ASSUME NEW j \in Jobs, NEW s \in TerminalJobStates \cup {"auto"}, Finish(j, s)
        PROVE  Quiet
    BY <1>3 DEF Finish, ResultOf, TerminalJobStates
  <1>4. ASSUME NEW o \in Jobs, NEW j \in Jobs, Retry(o, j, Queue(o), NoKey) PROVE Quiet
    BY <1>4 DEF Retry, InsertJob
  <1>5. ASSUME NEW c \in Clients, NEW j \in Jobs, SubmitCreate(c, j, Items, NoKey) PROVE Quiet
    BY <1>5 DEF SubmitCreate, InsertJob
  <1>6. ASSUME NEW c \in Clients, SubmitQueue(c) PROVE Quiet
    BY <1>6 DEF SubmitQueue
  <1>7. QED
    BY <1>1, <1>2, <1>3, <1>4, <1>5, <1>6

\* What a runner does that is not a recovery.
LEMMA QuietRunner ==
    ASSUME TypeOK, TaskInv, NEW r \in Runners, Runner(r) \/ SeeStop(r) \/ Break(r)
    PROVE  Quiet \/ OneJobTold \/ RunnerRecovers
  <1>j. task[r].at \notin Jobless => task[r].job \in Jobs
    BY DEF TaskInv, Fits, Procs
  <1> USE DEF At, Jobless, records
  <1>1. CASE Open(r) \/ FindRunning(r) \/ Choose(r) \/ LookAgain(r) \/ Beat(r) \/ Poll(r)
             \/ LookBeforeFinish(r) \/ LookBeforeFail(r) \/ SeeStop(r) \/ Break(r)
    <2>1. UNCHANGED <<vars, interrupt>>
      BY <1>1 DEF Open, FindRunning, Choose, LookAgain, Beat, Poll, LookBeforeFinish,
                  LookBeforeFail, SeeStop, Break
    <2>2. QED
      BY <2>1, QuietCalls
  <1>2. CASE RecoverAndLeave(r)
    BY <1>2 DEF RunnerRecovers
  <1>3a. CASE TurnAway(r)
    <2>1. UNCHANGED interrupt /\ (UNCHANGED vars \/ \E j \in Jobs : Cancel(j))
      BY <1>3a, <1>j DEF TurnAway
    <2>2. QED
      BY <2>1, QuietCalls
  <1>3. CASE RunChosen(r)
    <2>1. /\ UNCHANGED interrupt
          /\ UNCHANGED vars \/ \E j \in Jobs : Start(j)
      BY <1>3, <1>j DEF RunChosen, StartJob, Joins, StartRefused
    <2>2. QED
      BY <2>1, QuietCalls
  <1>4. CASE PauseOnStop(r)
    <2>1. OneJobTold \/ UNCHANGED <<vars, interrupt>>
      BY <1>4, <1>j DEF PauseOnStop, OneJobTold
    <2>2. QED
      BY <2>1, QuietCalls
  <1>5. CASE FinishRun(r)
    <2>1. /\ UNCHANGED interrupt
          /\ \/ UNCHANGED vars
             \/ \E j \in Jobs, s \in TerminalJobStates \cup {"auto"} : Finish(j, s)
      BY <1>5, <1>j DEF FinishRun, TerminalJobStates
    <2>2. QED
      BY <2>1, QuietCalls
  <1>6. CASE FailRun(r)
    <2>1. UNCHANGED interrupt /\ (UNCHANGED vars \/ \E j \in Jobs : Fail(j))
      BY <1>6, <1>j DEF FailRun
    <2>2. QED
      BY <2>1, QuietCalls
  <1>7. QED
    BY <1>1, <1>2, <1>3a, <1>3, <1>4, <1>5, <1>6 DEF Runner

LEMMA QuietScanner ==
    ASSUME TypeOK, TaskInv, NEW s \in Scanners, Scanner(s)
    PROVE  Quiet \/ OneJobTold
  <1>j. /\ task[s].at \notin Jobless => task[s].job \in Jobs
        /\ s \in Clients
    BY ProcsAssumption DEF TaskInv, Fits, Procs
  <1> USE DEF At, Jobless, records
  <1>1. CASE Open(s) \/ LeaveUnscanned(s) \/ Interrupt(s)
    <2>1. UNCHANGED <<vars, interrupt>>
      BY <1>1 DEF Open, LeaveUnscanned, Interrupt
    <2>2. QED
      BY <2>1, QuietCalls
  <1>2. CASE PauseLeftover(s)
    BY <1>2 DEF PauseLeftover, OneJobTold, Checks, InState
  <1>2a. CASE FindLeftover(s) \/ ResumeLeftover(s)
    <2>1. OneJobTold \/ UNCHANGED <<vars, interrupt>>
      BY <1>2a, <1>j DEF FindLeftover, ResumeLeftover, OneJobTold
    <2>2. QED
      BY <2>1, QuietCalls
  <1>3. CASE SubmitScan(s) \/ QueueOwn(s)
    <2>1. /\ UNCHANGED interrupt
          /\ \/ \E j \in Jobs : SubmitCreate(s, j, Items, NoKey)
             \/ SubmitQueue(s)
      BY <1>3 DEF SubmitScan, Create, QueueOwn
    <2>2. QED
      BY <1>j, <2>1, QuietCalls
  <1>4. CASE StartScan(s)
    <2>1. /\ UNCHANGED interrupt
          /\ UNCHANGED vars \/ \E j \in Jobs : Start(j)
      BY <1>4, <1>j DEF StartScan, StartJob, Joins, StartRefused
    <2>2. QED
      BY <2>1, QuietCalls
  <1>5. CASE CancelRefused(s)
    <2>1. UNCHANGED interrupt /\ (UNCHANGED vars \/ \E j \in Jobs : Cancel(j))
      BY <1>5, <1>j DEF CancelRefused
    <2>2. QED
      BY <2>1, QuietCalls
  <1>6. CASE PauseScan(s)
    <2>1. OneJobTold \/ UNCHANGED <<vars, interrupt>>
      BY <1>6, <1>j DEF PauseScan, OneJobTold
    <2>2. QED
      BY <2>1, QuietCalls
  <1>7. CASE CloseScan(s, {"succeeded", "partial", "auto"})
    <2>1. /\ UNCHANGED interrupt
          /\ \/ UNCHANGED vars
             \/ \E j \in Jobs, t \in TerminalJobStates \cup {"auto"} : Finish(j, t)
      BY <1>7, <1>j DEF CloseScan, TerminalJobStates
    <2>2. QED
      BY <2>1, QuietCalls
  <1>8. QED
    BY <1>1, <1>2, <1>2a, <1>3, <1>4, <1>5, <1>6, <1>7 DEF Scanner

LEMMA QuietOthers ==
    ASSUME TypeOK, "recover" \notin Controls,
           \/ QueueOnly \/ UserControl \/ FallAsleep \/ WakeUp \/ LosePower
           \/ \E j \in Jobs : Silence(j)
           \/ \E p \in Procs : Crash(p) \/ Measure(p)
    PROVE  Quiet \/ OneJobTold
  <1> USE DEF records
  <1>1. CASE FallAsleep \/ WakeUp \/ LosePower \/ \E j \in Jobs : Silence(j)
    <2>1. UNCHANGED <<state, interrupt>>
      BY <1>1 DEF FallAsleep, WakeUp, LosePower, Silence, vars
    <2>2. QED
      BY <2>1, QuietCalls
  <1>2. ASSUME NEW p \in Procs, Crash(p) \/ Measure(p) PROVE Quiet
    <2>1. UNCHANGED <<state, interrupt>>
      BY <1>2 DEF Crash, Measure, ClaimItem, RecordItem, JudgeItem, Stop, Claim,
                  RecordObservation, FinishItem, vars
    <2>2. QED
      BY <2>1, QuietCalls
  <1>3. CASE QueueOnly
    <2>1. /\ UNCHANGED interrupt
          /\ \/ \E c \in Clients, j \in Jobs : SubmitCreate(c, j, Items, NoKey)
             \/ \E c \in Clients : SubmitQueue(c)
      BY <1>3 DEF QueueOnly, Create
    <2>2. QED
      BY <2>1, QuietCalls
  <1>4. CASE UserControl
    <2>1. \/ OneJobTold
          \/ UNCHANGED interrupt /\ \E j \in Jobs : Cancel(j)
          \/ UNCHANGED interrupt /\ \E o, j \in Jobs : Retry(o, j, Queue(o), NoKey)
      BY <1>4 DEF UserControl, OneJobTold, RetryJob
    <2>2. QED
      BY <2>1, QuietCalls
  <1>5. QED
    BY <1>1, <1>2, <1>3, <1>4

\* A job that counts as crashed after a step counted so before, unless a runner recovered.
LEMMA CrashedByRunner ==
    ASSUME Steady, ReasonsTyped, Checkers = {}, "recover" \notin Controls, [RNext]_rvars
    PROVE  Quiet \/ OneJobTold \/ RunnerRecovers
  <1>1. CASE UNCHANGED rvars
    BY <1>1 DEF rvars, Quiet, vars
  <1>2. CASE RNext
    BY <1>2, QuietRunner, QuietScanner, QuietOthers DEF Steady, RNext, Awake
  <1>3. QED
    BY <1>1, <1>2

RecoverySafe == ReasonsTyped /\ CrashedMeansDead

LEMMA RecoverySafeKept ==
    ASSUME Steady, RecoverySafe, Checkers = {}, "recover" \notin Controls, [RNext]_rvars
    PROVE  RecoverySafe'
  <1> DEFINE Crashed(j) == state[j] = "paused" /\ interrupt[j] = "heartbeat_timeout"
  <1>0. Quiet \/ OneJobTold \/ RunnerRecovers
    BY CrashedByRunner DEF RecoverySafe
  <1>1. ReasonsTyped'
    BY <1>0 DEF Quiet, OneJobTold, PauseJob, ResumeJob, Noted, RunnerRecovers, RecoverAndLeave,
                RecoverStale, RecoverySafe, ReasonsTyped
  <1>2. CASE RunnerRecovers
    <2>1. PICK r \in Runners : RecoverAndLeave(r)
      BY <1>2 DEF RunnerRecovers
    <2>2. lock = r /\ r \in Procs /\ task \in [Procs -> Tasks]
      BY <2>1 DEF Steady, LockInv, TaskInv, RecoverAndLeave, At, Procs
    <2>3. ASSUME NEW p \in Procs PROVE task'[p].at = "idle"
      BY <2>1, <2>2 DEF RecoverAndLeave, Leave, Idle, Steady, LockInv, Procs
    <2>4. QED
      BY <1>1, <2>3 DEF RecoverySafe, CrashedMeansDead, Works, Measuring
  <1>3. CASE Quiet \/ OneJobTold
    <2>1. ASSUME NEW j \in Jobs, Crashed(j)' PROVE Crashed(j)
      <3>1. CASE Quiet
        BY <2>1, <3>1 DEF Quiet
      <3>2. ASSUME NEW n \in Jobs, PauseJob(n) \/ ResumeJob(n) PROVE Crashed(j)
        BY <2>1, <3>2 DEF PauseJob, ResumeJob, Noted, Pause, Resume, RecoverySafe, ReasonsTyped,
                          Steady, TypeOK
      <3>3. QED
        BY <1>3, <3>1, <3>2 DEF OneJobTold
    <2>2. ASSUME NEW j \in Jobs, Crashed(j)', NEW p \in Procs, Works(p, j)' PROVE FALSE
      <3>1. ~Works(p, j) /\ state'[j] # "running"
        BY <2>1, <2>2 DEF RecoverySafe, CrashedMeansDead
      <3>2. Shape /\ task \in [Procs -> Tasks]
        BY SteadyKept DEF Steady, TaskInv
      <3>3. CASE UNCHANGED <<lock, task>>
        BY <2>2, <3>1, <3>3 DEF Works
      <3>4. ASSUME NEW q \in Procs, NEW t \in Tasks, task' = [task EXCEPT ![q] = t],
                   t.at \in Measuring => Works(q, t.job) \/ state'[t.job] = "running"
            PROVE  FALSE
        BY <2>2, <3>1, <3>2, <3>4 DEF Works
      <3>5. CASE \E q \in Procs : GoesOn(q)
        BY <3>4, <3>5 DEF GoesOn
      <3>6. CASE \E q \in Procs : Leave(q)
        BY <3>4, <3>6, IdleFits DEF Leave, Idle, Measuring
      <3>7. ASSUME NEW q \in Runners \cup Scanners, Take(q, "opened", NoJob) PROVE FALSE
        BY <2>2, <3>1, <3>2, <3>7 DEF Take, Idle, Works, Measuring
      <3>8. CASE task' = [q \in Procs |-> Idle]
        BY <2>2, <3>8 DEF Works, Idle, Measuring
      <3>9. QED
        BY <3>2, <3>3, <3>5, <3>6, <3>7, <3>8 DEF Shape
    <2>3. QED
      BY <1>1, <2>2 DEF RecoverySafe, CrashedMeansDead
  <1>4. QED
    BY <1>0, <1>2, <1>3

\* Recovery by the runners alone pauses no job of a live process: who recovers
\* holds workbench.lock, so whoever measured is gone.  The hypotheses exclude the
\* two callers without the lock, of which section 4 of the README tells.
THEOREM LockedRecoveryIsSafe ==
    ASSUME Checkers = {}, "recover" \notin Controls
    PROVE  RSpec => []CrashedMeansDead
  <1>1. RInit => RecoverySafe
    BY DEF RInit, Init, RecoverySafe, ReasonsTyped, CrashedMeansDead
  <1>2. Steady /\ RecoverySafe /\ [RNext]_rvars => RecoverySafe'
    BY RecoverySafeKept
  <1>3. RecoverySafe => CrashedMeansDead
    BY DEF RecoverySafe
  <1>4. QED
    BY <1>1, <1>2, <1>3, SteadyAlways, PTL DEF RSpec

=============================================================================
