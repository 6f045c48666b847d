----------------------------- MODULE JobRunner -----------------------------
(***************************************************************************)
(* Who executes the jobs of JobStore, and how they meet.  Three kinds of   *)
(* process measure:                                                        *)
(*   - the background thread of an interface or API server, jobrunner.py:  *)
(*     every second it tries workbench.lock, recovers what a dead process  *)
(*     left, or executes the newest queued job;                            *)
(*   - a "check" command, proxytool.py: it holds workbench.lock for the    *)
(*     whole run and first takes over what an earlier run left;            *)
(*   - an API thread that measures a pool recheck, proxytool.py            *)
(*     run_pool_recheck: it never takes the lock.                          *)
(* Around them users pause, resume, cancel and retry, processes die, the   *)
(* machine sleeps, and time passes.                                        *)
(*                                                                         *)
(* Every change of a job is an action of JobStore; this module adds who    *)
(* calls it and when.  A read of the database and the write that follows   *)
(* it are separate actions, because anything can be committed in between.  *)
(* The clock is abstracted to one bit per job: silent[j] says that its     *)
(* last sign of life is older than the heartbeat timeout.                  *)
(***************************************************************************)
EXTENDS JobStore, Sequences

CONSTANTS
    Runners,      \* processes with a JobRunner thread
    Scanners,     \* "check" commands
    Checkers,     \* API threads that run a pool recheck
    NoProc,
    Kind,         \* job.kind of each row
    Controls,     \* the controls users press: pause, resume, cancel, retry, recover
    Sleeps,       \* whether the machine sleeps
    SleepSeen,    \* whether the desktop hears of it before (only macOS does)
    MaxFaults     \* bound: crashes, interrupts, sleeps and user controls

Procs == Runners \cup Scanners \cup Checkers
Kinds == {"check", "pool_recheck", "pool_refill"}

ASSUME ProcsAssumption ==
    /\ NoProc \notin Procs
    /\ (Scanners \cup Checkers) \subseteq Clients
    /\ Runners \cap Scanners = {} /\ Checkers \cap (Runners \cup Scanners) = {}
ASSUME KindAssumption == Kind \in [Jobs -> Kinds]
ASSUME BoundAssumption == MaxFaults \in Nat

VARIABLES
    lock,       \* who holds workbench.lock
    task,       \* what each process is doing, for which job, with which item in hand
    silent,     \* no sign of life for longer than DEFAULT_HEARTBEAT_TIMEOUT_S
    marker,     \* checkpoint "suspend": none, open, or closed by woke_at
    interrupt,  \* checkpoint "interrupt", its reason
    asleep,     \* the machine
    made,       \* jobs in the order of created_at
    faults      \* counted against MaxFaults

rvars == <<lock, task, silent, marker, interrupt, asleep, made, faults, vars>>

Measuring == {"measuring", "recording", "judging"}
Steps == Measuring \cup
    {"idle", "opened", "recovering", "chosen", "submitting", "starting", "reusing",
     "restarting", "refused", "stopping", "interrupted", "closing", "finishing", "failing", "condemning"}

Tasks == [at : Steps, job : Jobs \cup {NoJob}, item : SUBSET Items]

RTypeOK ==
    /\ TypeOK
    /\ lock \in Procs \cup {NoProc}
    /\ task \in [Procs -> Tasks]
    /\ silent \in [Jobs -> BOOLEAN]
    /\ marker \in [Jobs -> {"none", "open", "closed"}]
    /\ interrupt \in [Jobs -> {"none", "paused", "resumed", "heartbeat_timeout"}]
    /\ asleep \in BOOLEAN
    /\ made \in Seq(Jobs)
    /\ faults \in 0..MaxFaults

-----------------------------------------------------------------------------
(* Helpers *)

Idle == [at |-> "idle", job |-> NoJob, item |-> {}]
At(p, step) == task[p].at = step
Go(p, step) == task' = [task EXCEPT ![p].at = step]
Take(p, step, j) == task' = [task EXCEPT ![p] = [Idle EXCEPT !.at = step, !.job = j]]

\* The process measures, as opposed to opening or closing its job.
Works(p, j) == task[p].at \in Measuring /\ task[p].job = j

\* The kinds that measure the items of their queue.
Scans(j) == Kind[j] \in {"check", "pool_recheck"}

\* Only jobs run under JobRunner._controlled send heartbeats while they work.
Beating(j) == \E r \in Runners : Works(r, j) /\ Scans(j)

\* reversed(jobs(...)), which is in the order of created_at: the first of them.
Newest(some, j) ==
    /\ j \in some
    /\ \E n \in DOMAIN made :
         made[n] = j /\ \A m \in DOMAIN made : made[m] \in some => m <= n

InState(s) == {j \in Jobs : state[j] = s}

Fault == faults < MaxFaults /\ faults' = faults + 1

Release(p) == lock' = IF lock = p THEN NoProc ELSE lock
Leave(p) == task' = [task EXCEPT ![p] = Idle] /\ Release(p)

\* Frames: the variables of this module by what they describe.
machine == <<asleep, made, faults>>
records == <<silent, marker, interrupt>>

Noted(j, reason) == interrupt' = [interrupt EXCEPT ![j] = reason]

PauseJob(j) == Pause(j) /\ Noted(j, "paused") /\ UNCHANGED <<silent, marker>>
ResumeJob(j) ==
    /\ state[j] = "paused"
    /\ Resume(j, {})
    /\ Noted(j, "resumed")
    /\ UNCHANGED <<silent, marker>>
Pausable(j) == state[j] \in {"created", "queued", "running"}

\* Mutant: the runner marks its job running itself.
StartJobDirectly(j) ==
    /\ state[j] = "queued"
    /\ state' = [state EXCEPT ![j] = "running"]
    /\ silent' = [silent EXCEPT ![j] = FALSE]
    /\ UNCHANGED <<key, digest, origin, item, observed, held, marker, interrupt>>

\* start puts the first heartbeat; a running job is returned as it is.
StartJob(j) ==
    /\ Start(j)
    /\ silent' = [silent EXCEPT ![j] = FALSE]
    /\ UNCHANGED <<marker, interrupt>>
Joins(j) == state[j] = "running" /\ UNCHANGED <<vars, records>>
StartRefused(j) ==
    /\ state[j] # "running"
    /\ state[j] = "queued" => ~SlotFree(j)
    /\ UNCHANGED <<vars, records>>

\* Mutant: the comparison of the age is the wrong way round.
StaleWhileFresh == {j \in Jobs : state[j] \in ActiveJobStates /\ ~silent[j] /\ marker[j] # "open"}

\* recover(): what counts as left by a dead process.
Stale == {j \in Jobs : state[j] \in ActiveJobStates /\ silent[j] /\ marker[j] # "open"}

RecoverStale ==
    /\ IF Stale = {} THEN UNCHANGED vars ELSE Recover(Stale)
    /\ interrupt' = [j \in Jobs |-> IF j \in Stale THEN "heartbeat_timeout" ELSE interrupt[j]]
    /\ UNCHANGED <<silent, marker>>

-----------------------------------------------------------------------------
(* workbench.lock *)

\* Mutant: a process does not see that the lock is taken.
LockFreeUnchecked == TRUE

LockFree == lock = NoProc

\* exclusive_lock: taken without waiting, held until the process leaves.
Open(p) ==
    /\ p \in Runners \cup Scanners
    /\ At(p, "idle")
    /\ LockFree
    /\ lock' = p
    /\ Take(p, "opened", NoJob)
    /\ UNCHANGED <<vars, records, machine>>

-----------------------------------------------------------------------------
(* The background runner: run_pending and _execute *)

\* A job is running although nobody else can hold the lock: recover, then return.
FindRunning(r) ==
    /\ At(r, "opened")
    /\ InState("running") # {}
    /\ Go(r, "recovering")
    /\ UNCHANGED <<lock, vars, records, machine>>

RecoverAndLeave(r) ==
    /\ At(r, "recovering")
    /\ RecoverStale
    /\ Leave(r)
    /\ UNCHANGED machine

\* Mutant: the lock is only held while the queue is looked at.
ChooseUnlocked(r) ==
    /\ At(r, "opened")
    /\ InState("running") = {}
    /\ IF InState("queued") = {}
       THEN task' = [task EXCEPT ![r] = Idle]
       ELSE \E j \in Jobs : Newest(InState("queued"), j) /\ Take(r, "chosen", j)
    /\ Release(r)
    /\ UNCHANGED <<vars, records, machine>>

\* pending[:1] of the queued jobs, newest first.
Choose(r) ==
    /\ At(r, "opened")
    /\ InState("running") = {}
    /\ IF InState("queued") = {}
       THEN Leave(r)
       ELSE /\ \E j \in Jobs : Newest(InState("queued"), j) /\ Take(r, "chosen", j)
            /\ UNCHANGED lock
    /\ UNCHANGED <<vars, records, machine>>

\* Mutant: a job that was paused meanwhile is dropped and the lock is kept.
LookAgainHolding(r) ==
    LET j == task[r].job IN
    /\ At(r, "chosen")
    /\ IF state[j] = "queued" THEN Go(r, "starting") ELSE task' = [task EXCEPT ![r] = Idle]
    /\ UNCHANGED <<lock, vars, records, machine>>

\* _execute looks once more before the checks of schedule and budget.
LookAgain(r) ==
    LET j == task[r].job IN
    /\ At(r, "chosen")
    /\ IF state[j] = "queued" THEN Go(r, "starting") /\ UNCHANGED lock ELSE Leave(r)
    /\ UNCHANGED <<vars, records, machine>>

\* Before the start: the schedule is paused or has spent its budget (cancel), or
\* the job cannot run at all (Validation, handled as any error of the run).
TurnAway(r) ==
    LET j == task[r].job IN
    /\ At(r, "starting")
    /\ \/ "cancelled" \in NextJobStates(state[j]) /\ Cancel(j) /\ Leave(r)
       \/ Go(r, "failing") /\ UNCHANGED <<lock, vars>>
    /\ UNCHANGED <<records, machine>>

\* start; Busy leaves the loop, StateConflict is an error of the run.
RunChosen(r) ==
    LET j == task[r].job IN
    /\ At(r, "starting")
    /\ \/ StartJob(j) /\ Go(r, "measuring") /\ UNCHANGED lock
       \/ Joins(j) /\ Go(r, "measuring") /\ UNCHANGED lock
       \/ state[j] = "queued" /\ StartRefused(j) /\ Leave(r)
       \/ state[j] # "queued" /\ StartRefused(j) /\ Go(r, "failing") /\ UNCHANGED lock
    /\ UNCHANGED machine

\* heartbeat, every two seconds; only the first after a silence matters.  It is
\* written for any job that is not over: a pause can come between poll and beat.
Beat(r) ==
    LET j == task[r].job IN
    /\ At(r, "measuring") /\ Scans(j)
    /\ ~Terminal(j) /\ silent[j]
    /\ silent' = [silent EXCEPT ![j] = FALSE]
    /\ UNCHANGED <<lock, task, marker, interrupt, vars, machine>>

\* The poll of _controlled sees that the job is not running any more.
Poll(r) ==
    LET j == task[r].job IN
    /\ At(r, "measuring") /\ Scans(j)
    /\ state[j] # "running"
    /\ Go(r, "closing")
    /\ UNCHANGED <<lock, vars, records, machine>>

\* stop(): the poll sees a running job and pauses it in the next transaction.
SeeStop(r) ==
    LET j == task[r].job IN
    /\ At(r, "measuring") /\ Scans(j)
    /\ state[j] = "running"
    /\ Fault
    /\ Go(r, "stopping")
    /\ UNCHANGED <<lock, vars, records, asleep, made>>

PauseOnStop(r) ==
    LET j == task[r].job IN
    /\ At(r, "stopping")
    /\ IF Pausable(j) THEN PauseJob(j) ELSE UNCHANGED <<vars, records>>
    /\ Go(r, "closing")
    /\ UNCHANGED <<lock, machine>>

\* The state is read once more: only a running job is finished.
LookBeforeFinish(r) ==
    /\ At(r, "closing")
    /\ IF state[task[r].job] = "running" THEN Go(r, "finishing") /\ UNCHANGED lock ELSE Leave(r)
    /\ UNCHANGED <<vars, records, machine>>

\* finish raises for a job that is queued or paused by now.
FinishRun(r) ==
    LET j == task[r].job IN
    /\ At(r, "finishing")
    /\ \/ (\E s \in {"succeeded", "partial"} : Finish(j, s)) /\ Leave(r)
       \/ Terminal(j) /\ Leave(r) /\ UNCHANGED vars
       \/ state[j] \in {"queued", "paused"} /\ Go(r, "failing") /\ UNCHANGED <<lock, vars>>
    /\ UNCHANGED <<records, machine>>

\* The engine raises.
Break(r) ==
    /\ At(r, "measuring")
    /\ Fault
    /\ Go(r, "failing")
    /\ UNCHANGED <<lock, vars, records, asleep, made>>

\* except Exception: read the job, then fail it unless it is over or paused.
LookBeforeFail(r) ==
    LET j == task[r].job IN
    /\ At(r, "failing")
    /\ IF Terminal(j) \/ state[j] = "paused"
       THEN Leave(r)
       ELSE Go(r, "condemning") /\ UNCHANGED lock
    /\ UNCHANGED <<vars, records, machine>>

FailRun(r) ==
    LET j == task[r].job IN
    /\ At(r, "condemning")
    /\ IF Terminal(j) THEN UNCHANGED vars ELSE Fail(j)
    /\ Leave(r)
    /\ UNCHANGED <<records, machine>>

Runner(r) ==
    \/ Open(r) \/ FindRunning(r) \/ RecoverAndLeave(r) \/ Choose(r) \/ LookAgain(r)
    \/ TurnAway(r) \/ RunChosen(r) \/ Beat(r) \/ Poll(r) \/ PauseOnStop(r)
    \/ LookBeforeFinish(r) \/ FinishRun(r) \/ LookBeforeFail(r) \/ FailRun(r)

-----------------------------------------------------------------------------
(* Measuring: finish_job_item, three transactions after the measurement *)

ClaimItem(p) ==
    LET j == task[p].job IN
    /\ At(p, "measuring") /\ Scans(j)
    /\ \E i \in Items :
         /\ Claim(j, i)
         /\ task' = [task EXCEPT ![p].at = "recording", ![p].item = {i}]
    /\ UNCHANGED <<lock, records, machine>>

\* A refusal is contained: the measurement itself is in the results already.
RecordItem(p) ==
    LET j == task[p].job IN
    /\ At(p, "recording")
    /\ \E i \in task[p].item :
         \/ RecordObservation(j, i) /\ Go(p, "judging")
         \/ /\ item[j][i] \notin UnfinishedItemStates
            /\ task' = [task EXCEPT ![p].at = "measuring", ![p].item = {}]
            /\ UNCHANGED vars
    /\ UNCHANGED <<lock, records, machine>>

JudgeItem(p) ==
    LET j == task[p].job IN
    /\ At(p, "judging")
    /\ \E i \in task[p].item :
         \/ \E s \in {"done", "unreachable"} : FinishItem(j, i, s, TRUE)
         \/ item[j][i] # "probing" /\ UNCHANGED vars
    /\ task' = [task EXCEPT ![p].at = "measuring", ![p].item = {}]
    /\ UNCHANGED <<lock, records, machine>>

\* The scope is measured, the wanted number is reached or a budget is spent.
Stop(p) ==
    /\ At(p, "measuring")
    /\ Go(p, "closing")
    /\ UNCHANGED <<lock, vars, records, machine>>

Measure(p) == ClaimItem(p) \/ RecordItem(p) \/ JudgeItem(p) \/ Stop(p)

-----------------------------------------------------------------------------
(* "check" commands: submit_scan_job with continue_interrupted *)

Checks(s) == {j \in InState(s) : Kind[j] = "check"}

\* "no other process can be measuring": what still runs was left by the dead.
PauseLeftover(s) ==
    /\ At(s, "opened") /\ s \in Scanners
    /\ \E j \in Checks("running") : PauseJob(j)
    /\ UNCHANGED <<lock, task, machine>>

Reusable == {j \in Checks("paused") : digest[j] = Items}

FindLeftover(s) ==
    /\ At(s, "opened") /\ s \in Scanners
    /\ Checks("running") = {}
    /\ \E j \in Jobs : Newest(Reusable, j) /\ Take(s, "reusing", j)
    /\ UNCHANGED <<lock, vars, records, machine>>

\* resume: a user may have resumed or cancelled the job since it was found.
ResumeLeftover(s) ==
    LET j == task[s].job IN
    /\ At(s, "reusing")
    /\ \/ ResumeJob(j) /\ Go(s, "restarting") /\ UNCHANGED lock
       \/ /\ state[j] = "queued" /\ Go(s, "restarting")
          /\ UNCHANGED <<lock, vars, records>>
       \/ /\ state[j] \notin {"queued", "paused"} /\ Leave(s)
          /\ UNCHANGED <<vars, records>>
    /\ UNCHANGED machine

\* create_job of submit(), by any caller; the order of creation is kept.
Create(c, j) ==
    /\ SubmitCreate(c, j, Items, NoKey)
    /\ made' = Append(made, j)
    /\ UNCHANGED <<records, asleep, faults>>

SubmitScan(s) ==
    /\ At(s, "opened") /\ s \in Scanners
    /\ Checks("running") = {} /\ Reusable = {}
    /\ \E j \in Jobs : Kind[j] = "check" /\ Create(s, j) /\ Take(s, "submitting", j)
    /\ UNCHANGED lock

\* A command that only collects or exports, or fails before its scan, holds the
\* lock as well and leaves.
LeaveUnscanned(s) ==
    /\ At(s, "opened") /\ s \in Scanners
    /\ Leave(s)
    /\ UNCHANGED <<vars, records, machine>>

\* queue() of submit(); the caller of a job that cannot be queued gets an error.
QueueOwn(p) ==
    /\ At(p, "submitting")
    /\ IF "queued" \in NextJobStates(state[task[p].job])
       THEN Go(p, "starting") /\ UNCHANGED lock
       ELSE Leave(p)
    /\ SubmitQueue(p)
    /\ UNCHANGED <<records, machine>>

\* A refused start of the job it submitted is followed by a cancel, a refused
\* start of the job it resumed is not.
StartScan(s) ==
    LET j == task[s].job IN
    /\ s \in Scanners
    /\ \/ /\ At(s, "starting") \/ At(s, "restarting")
          /\ StartJob(j) \/ Joins(j)
          /\ Go(s, "measuring") /\ UNCHANGED lock
       \/ At(s, "starting") /\ StartRefused(j) /\ Go(s, "refused") /\ UNCHANGED lock
       \/ At(s, "restarting") /\ StartRefused(j) /\ Leave(s)
    /\ UNCHANGED machine

CancelRefused(s) ==
    LET j == task[s].job IN
    /\ At(s, "refused")
    /\ IF "cancelled" \in NextJobStates(state[j]) THEN Cancel(j) ELSE UNCHANGED vars
    /\ Leave(s)
    /\ UNCHANGED <<records, machine>>

\* finish_scan_job: a refusal is not an error.
CloseScan(p, results) ==
    LET j == task[p].job IN
    /\ At(p, "closing") /\ p \notin Runners
    /\ IF state[j] = "running" THEN \E s \in results : Finish(j, s) ELSE UNCHANGED vars
    /\ Leave(p)
    /\ UNCHANGED <<records, machine>>

\* Ctrl-C or an error of the scan: pause_scan_job.
Interrupt(s) ==
    /\ At(s, "measuring") /\ s \in Scanners
    /\ Fault
    /\ Go(s, "interrupted")
    /\ UNCHANGED <<lock, vars, records, asleep, made>>

PauseScan(s) ==
    LET j == task[s].job IN
    /\ At(s, "interrupted")
    /\ IF Pausable(j) THEN PauseJob(j) ELSE UNCHANGED <<vars, records>>
    /\ Leave(s)
    /\ UNCHANGED machine

Scanner(s) ==
    \/ Open(s) \/ PauseLeftover(s) \/ FindLeftover(s) \/ ResumeLeftover(s) \/ SubmitScan(s)
    \/ LeaveUnscanned(s) \/ QueueOwn(s)
    \/ StartScan(s) \/ CancelRefused(s) \/ Interrupt(s) \/ PauseScan(s)
    \/ CloseScan(s, {"succeeded", "partial", "auto"})

-----------------------------------------------------------------------------
(* API threads: pools.recheck and run_pool_recheck *)

SubmitRecheck(c) ==
    /\ At(c, "idle")
    /\ \E j \in Jobs : Kind[j] = "pool_recheck" /\ Create(c, j) /\ Take(c, "submitting", j)
    /\ UNCHANGED lock

StartRecheck(c) ==
    LET j == task[c].job IN
    /\ At(c, "starting")
    /\ \/ (StartJob(j) \/ Joins(j)) /\ Go(c, "measuring") /\ UNCHANGED lock
       \/ StartRefused(j) /\ Leave(c)
    /\ UNCHANGED machine

Checker(c) ==
    \/ SubmitRecheck(c) \/ QueueOwn(c) \/ StartRecheck(c)
    \/ CloseScan(c, {"succeeded", "partial", "failed"})

-----------------------------------------------------------------------------
(* Users, faults and time *)

\* POST /checks, /pools/{id}/refill and the like: queued for the runner.
QueueOnly ==
    /\ \E c \in Clients \ Procs :
         \/ \E j \in Jobs : Create(c, j)
         \/ SubmitQueue(c) /\ UNCHANGED <<records, machine>>
    /\ UNCHANGED <<lock, task>>

RetryJob(o, j) ==
    /\ Kind[j] = Kind[o]
    /\ Retry(o, j, Queue(o), NoKey)
    /\ made' = Append(made, j)
    /\ UNCHANGED records

\* POST /jobs/{id}/... and the job buttons of the interface; no lock is taken.
UserControl ==
    /\ Fault
    /\ \/ /\ \E j \in Jobs :
               \/ "pause" \in Controls /\ PauseJob(j)
               \/ "resume" \in Controls /\ ResumeJob(j)
               \/ "cancel" \in Controls /\ Cancel(j) /\ UNCHANGED records
          /\ UNCHANGED made
       \/ "retry" \in Controls /\ \E o, j \in Jobs : RetryJob(o, j)
       \/ "recover" \in Controls /\ Stale # {} /\ RecoverStale /\ UNCHANGED made
    /\ UNCHANGED <<lock, task, asleep>>

\* The process dies: the system releases its lock, the database stays.
Crash(p) ==
    /\ task[p] # Idle
    /\ Fault
    /\ Leave(p)
    /\ held' = IF p \in Clients THEN [held EXCEPT ![p] = NoJob] ELSE held
    /\ UNCHANGED <<state, key, digest, origin, item, observed, records, asleep, made>>

\* More than the timeout passes without a heartbeat of the job.
Silence(j) ==
    /\ Exists(j) /\ ~Terminal(j) /\ ~silent[j]
    /\ asleep \/ ~Beating(j)
    /\ silent' = [silent EXCEPT ![j] = TRUE]
    /\ UNCHANGED <<lock, task, marker, interrupt, vars, machine>>

\* on_sleep: mark_jobs_suspended marks every active job.
FallAsleep ==
    /\ Sleeps
    /\ Fault
    /\ asleep' = TRUE
    /\ marker' = [j \in Jobs |-> IF SleepSeen /\ state[j] \in ActiveJobStates
                                 THEN "open" ELSE marker[j]]
    /\ UNCHANGED <<lock, task, silent, interrupt, made, vars>>

\* on_wake: close_job_sleeps closes the open markers of the active jobs.
WakeUp ==
    /\ asleep
    /\ asleep' = FALSE
    /\ marker' = [j \in Jobs |-> IF marker[j] = "open" /\ state[j] \in ActiveJobStates
                                 THEN "closed" ELSE marker[j]]
    /\ UNCHANGED <<lock, task, silent, interrupt, made, faults, vars>>

\* The machine loses power while asleep; it starts again later.
LosePower ==
    /\ asleep
    /\ asleep' = FALSE
    /\ lock' = NoProc
    /\ task' = [p \in Procs |-> Idle]
    /\ held' = [c \in Clients |-> NoJob]
    /\ UNCHANGED <<state, key, digest, origin, item, observed, records, made, faults>>

-----------------------------------------------------------------------------
(* Specification *)

RInit ==
    /\ Init
    /\ lock = NoProc
    /\ task = [p \in Procs |-> Idle]
    /\ silent = [j \in Jobs |-> FALSE]
    /\ marker = [j \in Jobs |-> "none"]
    /\ interrupt = [j \in Jobs |-> "none"]
    /\ asleep = FALSE
    /\ made = <<>>
    /\ faults = 0

Awake ==
    \/ \E r \in Runners : Runner(r) \/ SeeStop(r) \/ Break(r)
    \/ \E s \in Scanners : Scanner(s)
    \/ \E c \in Checkers : Checker(c)
    \/ \E p \in Procs : Measure(p) \/ Crash(p)
    \/ QueueOnly \/ UserControl \/ FallAsleep

RNext ==
    \/ ~asleep /\ Awake
    \/ WakeUp \/ LosePower
    \/ \E j \in Jobs : Silence(j)

RSpec == RInit /\ [][RNext]_rvars

\* A thread that can go on goes on, measurements end, time passes, and a machine
\* that sleeps is awake again some day.  Nothing is assumed of users or faults.
Fairness ==
    /\ \A r \in Runners : WF_rvars(~asleep /\ (Runner(r) \/ Measure(r)))
    /\ \A j \in Jobs : WF_rvars(Silence(j))
    /\ WF_rvars(WakeUp)

LiveRSpec == RSpec /\ Fairness

-----------------------------------------------------------------------------
(* Properties *)

\* A job is measured by one process at a time: a runner does not execute what a
\* check command or another runner is executing ("never steal the CLI's writer
\* or duplicate a job", the docstring of JobRunner.run_pending).
OneMeasurer ==
    \A p, q \in Procs, j \in Jobs : Works(p, j) /\ Works(q, j) => p = q

\* A job that is shown as crashed (paused, interrupt reason heartbeat_timeout:
\* DETAIL_CRASHED) is not being measured by a live process.
CrashedMeansDead ==
    \A j \in Jobs : state[j] = "paused" /\ interrupt[j] = "heartbeat_timeout" =>
        \A p \in Procs : ~Works(p, j)

\* Every surface changes jobs through the transactions of the store only, so what
\* is proved of JobStore holds here.
ImplementsStore == Spec

\* The premise of continue_interrupted: while a check command looks for runs
\* to take over, no live process measures a job of its kind.
LeftoverIsDead ==
    (\E s \in Scanners : At(s, "opened")) =>
        \A p \in Procs, j \in Jobs : Works(p, j) => Kind[j] # "check"

\* "a job whose worker died is found" (JobStore.heartbeat): a running job that
\* nobody measures leaves the state running.
OrphanRecovered ==
    \A j \in Jobs :
        (state[j] = "running" /\ \A p \in Procs : task[p].job # j) ~> state[j] # "running"

\* A queued job is eventually started or otherwise decided: an orphan of a dead
\* process, a refused start or newer jobs do not keep it waiting for ever.
QueuedServed == \A j \in Jobs : state[j] = "queued" ~> state[j] # "queued"

=============================================================================
