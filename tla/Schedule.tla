------------------------------ MODULE Schedule ------------------------------
(***************************************************************************)
(* One interval schedule, from its calendar to its jobs: scheduler.py,     *)
(* schedule_runtime.py and the part of jobrunner.py that executes its      *)
(* jobs.  A tick loads the state of the schedule, decides, appends a row   *)
(* for each run it requests, saves the whole state, and submits a job for  *)
(* every row still requested.  Ticks and executions exclude each other     *)
(* (workbench.lock); the commands of users do not, and save the whole      *)
(* state as well.                                                          *)
(*                                                                         *)
(* A run is known by its stamp, the time it is scheduled for, and its job  *)
(* by the run.  Quiet hours and restrictions of power are one condition,   *)
(* quiet; windows, budgets and the grace of late runs are left out.        *)
(***************************************************************************)
EXTENDS Integers, FiniteSets

CONSTANTS
    Users,        \* commands that change the schedule
    CatchUps,     \* what catch_up may be
    MaxCatchUp,   \* max_catch_up
    MaxUnits,     \* bound: intervals that pass
    MaxStamps,    \* bound: runs scheduled for the instant they are decided at
    MaxCalls,     \* bound: commands, wakes, and changes of quiet
    MaxFaults     \* bound: errors and deaths

ASSUME BoundsAssumption ==
    /\ CatchUps \subseteq BOOLEAN /\ MaxCatchUp \in Nat \ {0}
    /\ MaxUnits \in Nat /\ MaxStamps \in Nat /\ MaxCalls \in Nat /\ MaxFaults \in Nat

VARIABLES
    catchUp,      \* spec.catch_up; never changes
    exists,       \* whether the schedule is still there
    sched,        \* its state
    runs,         \* the rows of schedule_run
    job,          \* the job of each run
    unit, used,   \* intervals passed; instants that became stamps
    quiet,
    wake,         \* _wake
    lock,         \* who holds schedule-runtime.lock or workbench.lock
    tick,         \* what the tick has in hand
    run,          \* what the runner has in hand
    call,         \* what each user's command has in hand
    calls, faults,
    ran,          \* history: how often each job was run to its end
    asked,        \* history: the runs that users asked for
    stale,        \* history: a run was requested or a state saved from a stale one
    wanted        \* history: a user paused the schedule and none resumed it

clocks == <<unit, used>>
store == <<exists, sched, runs, job>>
bounds == <<calls, faults>>
histories == <<ran, asked, stale, wanted>>
schedVars == <<catchUp, store, clocks, quiet, wake, lock, tick, run, call, bounds, histories>>

\* No two instants are the same: those of one interval differ by less than it.
Interval == MaxStamps + 2
Now == unit * Interval + used + 1
Times == 0..(MaxUnits + 1) * Interval

Pauses == {"no", "user", "quiet"}
States == [last : Times, paused : Pauses]
RunStates == {"none", "requested", "created", "queued", "done", "cancelled", "failed", "skipped"}
JobStates == {"none", "created", "queued", "running", "done", "cancelled", "failed"}
Fresh == [last |-> 0, paused |-> "no"]
NoTick == [at |-> "idle", woke |-> FALSE, view |-> Fresh, todo |-> {}, row |-> 0]
NoRun == [at |-> "idle", read |-> Fresh, row |-> 0]
NoCall == [at |-> "idle", read |-> Fresh, row |-> 0]

SchedTypeOK ==
    /\ catchUp \in CatchUps /\ exists \in BOOLEAN /\ sched \in States
    /\ runs \in [Times -> RunStates] /\ job \in [Times -> JobStates]
    /\ unit \in 0..MaxUnits /\ used \in 0..MaxStamps
    /\ quiet \in BOOLEAN /\ wake \in BOOLEAN /\ lock \in {"free", "tick", "run"}
    /\ tick \in [at : {"idle", "clearing", "deciding", "appending", "listing", "delivering",
                       "submitting", "queueing", "recording"},
                 woke : BOOLEAN, view : States, todo : SUBSET Times, row : Times]
    /\ run \in [at : {"idle", "loading", "gated", "running", "ended", "told"}, read : States, row : Times]
    /\ call \in [Users -> [at : {"idle", "pause", "resume", "run", "append"}, read : States, row : Times]]
    /\ calls \in 0..MaxCalls /\ faults \in 0..MaxFaults
    /\ ran \in [Times -> 0..2] /\ asked \in SUBSET Times
    /\ stale \in BOOLEAN /\ wanted \in BOOLEAN
    /\ (lock = "tick") = (tick.at # "idle") /\ (lock = "run") = (run.at # "idle")

-----------------------------------------------------------------------------
(* Helpers *)

First(some) == CHOOSE s \in some : \A t \in some : s <= t

\* What was loaded is not what another has saved since.
Stale(read) == exists /\ sched # read

\* save_state writes the whole row, over whatever it holds by now.
Save(state, read) ==
    /\ sched' = IF exists THEN state ELSE sched
    /\ stale' = (stale \/ Stale(read))

\* _policy_block, by a state that was loaded.
Blocked(state) == state.paused # "no" \/ quiet

Fault == faults < MaxFaults /\ faults' = faults + 1
Requested == {s \in Times : runs[s] = "requested"}

-----------------------------------------------------------------------------
(* ScheduleRuntime.tick: the locks and the wake flag *)

BeginTick ==
    /\ lock = "free"
    /\ lock' = "tick"
    /\ tick' = [NoTick EXCEPT !.at = "clearing", !.woke = wake]
    /\ UNCHANGED <<catchUp, store, clocks, quiet, wake, run, call, bounds, histories>>

\* The flag is cleared, and the state of the schedule is loaded.
LoadState ==
    /\ tick.at = "clearing"
    /\ wake' = FALSE
    /\ tick' = [tick EXCEPT !.at = IF exists THEN "deciding" ELSE "listing", !.view = sched]
    /\ UNCHANGED <<catchUp, store, clocks, quiet, lock, run, call, bounds, histories>>

-----------------------------------------------------------------------------
(* Scheduler.tick: what is due *)

\* The state is saved as it was changed, and the tick goes on.
SaveAndGo(state, step) ==
    /\ Save(state, tick.view)
    /\ tick' = [tick EXCEPT !.at = step, !.view = state]
    /\ UNCHANGED <<catchUp, exists, runs, job, quiet, wake, lock, run, call, bounds, ran, asked, wanted>>

\* A pause that is not a user's ends when its reason does.
LiftPause ==
    /\ tick.at = "deciding" /\ tick.view.paused = "quiet" /\ ~quiet
    /\ SaveAndGo([tick.view EXCEPT !.paused = "no"], "deciding")
    /\ UNCHANGED clocks

SkipPaused ==
    /\ tick.at = "deciding" /\ tick.view.paused # "no"
    /\ tick.view.paused = "quiet" => quiet
    /\ tick' = [tick EXCEPT !.at = "listing"]
    /\ UNCHANGED <<catchUp, store, clocks, quiet, wake, lock, run, call, bounds, histories>>

PauseQuiet ==
    /\ tick.at = "deciding" /\ tick.view.paused = "no" /\ quiet
    /\ SaveAndGo([tick.view EXCEPT !.paused = "quiet"], "listing")
    /\ UNCHANGED clocks

\* _interval_candidates: the occurrences since the last run.
Overdue(last) == (Now - last) \div Interval
Moments(last) == {last + k * Interval : k \in {k \in 1..Overdue(last) : k > Overdue(last) - MaxCatchUp}}

NothingDue ==
    /\ tick.at = "deciding" /\ tick.view.paused = "no" /\ ~quiet
    /\ Overdue(tick.view.last) = 0
    /\ SaveAndGo(tick.view, "listing")
    /\ UNCHANGED clocks

\* _decide_dispatch: the occurrences are merged into one run, for now, or run each.
Merged == tick.woke \/ (~catchUp /\ Overdue(tick.view.last) > 1)

RequestRuns ==
    /\ tick.at = "deciding" /\ tick.view.paused = "no" /\ ~quiet
    /\ Overdue(tick.view.last) > 0
    /\ IF Merged
       THEN used < MaxStamps /\ used' = used + 1 /\ tick' = [tick EXCEPT !.at = "appending", !.todo = {Now}]
       ELSE tick' = [tick EXCEPT !.at = "appending", !.todo = Moments(tick.view.last)] /\ UNCHANGED used
    /\ UNCHANGED <<catchUp, store, unit, quiet, wake, lock, run, call, bounds, histories>>

\* append_run: a row of the same stamp is replaced.
AppendRun ==
    /\ tick.at = "appending" /\ tick.todo # {}
    /\ LET s == First(tick.todo)
       IN  /\ runs' = [runs EXCEPT ![s] = "requested"]
           /\ tick' = [tick EXCEPT !.todo = @ \ {s}, !.row = s]
    /\ stale' = (stale \/ Stale(tick.view))
    /\ UNCHANGED <<catchUp, exists, sched, job, clocks, quiet, wake, lock, run, call, bounds, ran, asked, wanted>>

SaveRuns ==
    /\ tick.at = "appending" /\ tick.todo = {}
    /\ SaveAndGo([tick.view EXCEPT !.last = tick.row], "listing")
    /\ UNCHANGED clocks

-----------------------------------------------------------------------------
(* ScheduleRuntime._tick: the rows that are requested *)

\* Mutant: only what this tick has requested is submitted.
OwnListed == Requested \cap {tick.row}

Listed == Requested

ListRows ==
    /\ tick.at = "listing"
    /\ tick' = [tick EXCEPT !.at = "delivering", !.todo = Listed]
    /\ UNCHANGED <<catchUp, store, clocks, quiet, wake, lock, run, call, bounds, histories>>

\* Mutant: a newer request does not matter.
NeverReplaced(s) == FALSE

\* Without catch-up, and after a sleep, a newer row takes the place of an older one.
Replaced(s) == (tick.woke \/ ~catchUp) /\ \E t \in Times : t > s /\ runs[t] # "none"

Decided(s, state) == runs' = [runs EXCEPT ![s] = IF @ = "requested" THEN state ELSE @]

\* The schedule is gone, or the row was replaced.
DropRow ==
    /\ tick.at = "delivering" /\ tick.todo # {}
    /\ LET s == First(tick.todo)
       IN  /\ ~exists \/ Replaced(s)
           /\ Decided(s, IF exists THEN "skipped" ELSE "cancelled")
           /\ tick' = [tick EXCEPT !.todo = @ \ {s}]
    /\ UNCHANGED <<catchUp, exists, sched, job, clocks, quiet, wake, lock, run, call, bounds, histories>>

\* blocked_by: a row waits while the schedule may not run, and is submitted otherwise.
TakeRow ==
    /\ tick.at = "delivering" /\ tick.todo # {} /\ exists
    /\ LET s == First(tick.todo)
       IN  /\ ~Replaced(s)
           /\ tick' = [tick EXCEPT !.todo = @ \ {s}, !.row = s,
                                   !.at = IF Blocked(tick.view) THEN "delivering" ELSE "submitting"]
    /\ UNCHANGED <<catchUp, store, clocks, quiet, wake, lock, run, call, bounds, histories>>

\* Mutant: the job of a run is not looked up before it is made.
NeverMade(s) == FALSE

\* A job that has the key of the run.
Made(s) == job[s] # "none"

\* submit_schedule: the job of a run is created once...
SubmitJob ==
    /\ tick.at = "submitting"
    /\ IF Made(tick.row)
       THEN tick' = [tick EXCEPT !.at = "recording"] /\ UNCHANGED job
       ELSE /\ job' = [job EXCEPT ![tick.row] = "created"]
            /\ tick' = [tick EXCEPT !.at = "queueing"]
    /\ UNCHANGED <<catchUp, exists, sched, runs, clocks, quiet, wake, lock, run, call, bounds, histories>>

\* ... and queued in a transaction of its own.
QueueJob ==
    /\ tick.at = "queueing"
    /\ job' = [job EXCEPT ![tick.row] = "queued"]
    /\ tick' = [tick EXCEPT !.at = "recording"]
    /\ UNCHANGED <<catchUp, exists, sched, runs, clocks, quiet, wake, lock, run, call, bounds, histories>>

RecordRow ==
    /\ tick.at = "recording"
    /\ Decided(tick.row, job[tick.row])
    /\ tick' = [tick EXCEPT !.at = "delivering"]
    /\ UNCHANGED <<catchUp, exists, sched, job, clocks, quiet, wake, lock, run, call, bounds, histories>>

\* The database is busy: the row stays requested.  Any other error fails it.
SubmitFails ==
    /\ tick.at \in {"submitting", "queueing", "recording"} /\ Fault
    /\ \/ UNCHANGED runs
       \/ tick.at = "submitting" /\ Decided(tick.row, "failed")
    /\ tick' = [tick EXCEPT !.at = "delivering"]
    /\ UNCHANGED <<catchUp, exists, sched, job, clocks, quiet, wake, lock, run, call, calls, histories>>

EndTick ==
    /\ tick.at = "delivering" /\ tick.todo = {}
    /\ tick' = NoTick /\ lock' = "free"
    /\ UNCHANGED <<catchUp, store, clocks, quiet, wake, run, call, bounds, histories>>

\* The process dies and forgets the wake, or an error ends the tick, which keeps it.
BreakTick ==
    /\ tick.at \notin {"idle", "clearing"} /\ Fault
    /\ wake' \in {FALSE, wake \/ tick.woke}
    /\ tick' = NoTick /\ lock' = "free"
    /\ UNCHANGED <<catchUp, store, clocks, quiet, run, call, calls, histories>>

Tick ==
    \/ BeginTick \/ LoadState
    \/ LiftPause \/ SkipPaused \/ PauseQuiet \/ NothingDue
    \/ RequestRuns \/ AppendRun \/ SaveRuns
    \/ ListRows \/ DropRow \/ TakeRow \/ SubmitJob \/ QueueJob \/ RecordRow \/ EndTick

-----------------------------------------------------------------------------
(* _execute and _record_schedule *)

Take ==
    /\ lock = "free"
    /\ \E s \in Times :
          /\ job[s] = "queued"
          /\ run' = [at |-> "loading", read |-> sched, row |-> s]
    /\ lock' = "run"
    /\ UNCHANGED <<catchUp, store, clocks, quiet, wake, tick, call, bounds, histories>>

\* The job has ended, and _record_schedule loads the state of the schedule again.
Ended == [run EXCEPT !.at = "ended", !.read = sched]

\* The schedule was removed or may not run: the job ends here.
Refuse ==
    /\ run.at = "loading"
    /\ ~exists \/ Blocked(run.read)
    /\ job' = [job EXCEPT ![run.row] = IF exists THEN "cancelled" ELSE "failed"]
    /\ run' = Ended
    /\ UNCHANGED <<catchUp, exists, sched, runs, clocks, quiet, wake, lock, tick, call, bounds, histories>>

\* The ledger of the schedule is saved with the rest of its state...
Admit ==
    /\ run.at = "loading" /\ exists /\ ~Blocked(run.read)
    /\ Save(run.read, run.read)
    /\ run' = [run EXCEPT !.at = "gated"]
    /\ UNCHANGED <<catchUp, exists, runs, job, clocks, quiet, wake, lock, tick, call, bounds, ran, asked, wanted>>

\* ... and the job starts, unless it was cancelled meanwhile.
Start ==
    /\ run.at = "gated"
    /\ IF job[run.row] = "queued"
       THEN job' = [job EXCEPT ![run.row] = "running"] /\ run' = [run EXCEPT !.at = "running"]
       ELSE UNCHANGED job /\ run' = Ended
    /\ UNCHANGED <<catchUp, exists, sched, runs, clocks, quiet, wake, lock, tick, call, bounds, histories>>

Finish ==
    /\ run.at = "running"
    /\ job' = [job EXCEPT ![run.row] = "done"]
    /\ ran' = [ran EXCEPT ![run.row] = @ + 1]
    /\ run' = Ended
    /\ UNCHANGED <<catchUp, exists, sched, runs, clocks, quiet, wake, lock, tick, call, bounds, asked, stale,
                   wanted>>

SaveLedger ==
    /\ run.at = "ended"
    /\ Save(run.read, run.read)
    /\ run' = [run EXCEPT !.at = "told"]
    /\ UNCHANGED <<catchUp, exists, runs, job, clocks, quiet, wake, lock, tick, call, bounds, ran, asked, wanted>>

RecordRun ==
    /\ run.at = "told"
    /\ runs' = [runs EXCEPT ![run.row] = job[run.row]]
    /\ run' = NoRun /\ lock' = "free"
    /\ UNCHANGED <<catchUp, exists, sched, job, clocks, quiet, wake, tick, call, bounds, histories>>

\* The runner dies: a job that was running is queued again when it restarts.
BreakRun ==
    /\ run.at # "idle" /\ Fault
    /\ job' = [job EXCEPT ![run.row] = IF @ = "running" THEN "queued" ELSE @]
    /\ run' = NoRun /\ lock' = "free"
    /\ UNCHANGED <<catchUp, exists, sched, runs, clocks, quiet, wake, tick, call, calls, histories>>

Execution == Take \/ Refuse \/ Admit \/ Start \/ Finish \/ SaveLedger \/ RecordRun

-----------------------------------------------------------------------------
(* Commands of users *)

Called == calls < MaxCalls /\ calls' = calls + 1

Ask(u) ==
    /\ call[u].at = "idle" /\ exists /\ Called
    /\ \E what \in {"pause", "resume", "run"} :
          call' = [call EXCEPT ![u] = [at |-> what, read |-> sched, row |-> 0]]
    /\ UNCHANGED <<catchUp, store, clocks, quiet, wake, lock, tick, run, faults, histories>>

Pause(u) ==
    /\ call[u].at = "pause"
    /\ Save([call[u].read EXCEPT !.paused = "user"], call[u].read)
    /\ wanted' = TRUE
    /\ call' = [call EXCEPT ![u] = NoCall]
    /\ UNCHANGED <<catchUp, exists, runs, job, clocks, quiet, wake, lock, tick, run, bounds, ran, asked>>

Resume(u) ==
    /\ call[u].at = "resume"
    /\ IF call[u].read.paused # "no" THEN Save([call[u].read EXCEPT !.paused = "no"], call[u].read)
                                     ELSE UNCHANGED <<sched, stale>>
    /\ wanted' = FALSE
    /\ call' = [call EXCEPT ![u] = NoCall]
    /\ UNCHANGED <<catchUp, exists, runs, job, clocks, quiet, wake, lock, tick, run, bounds, ran, asked>>

\* run_now: the state first, then the row.
RunNow(u) ==
    /\ call[u].at = "run"
    /\ IF Blocked(call[u].read)
       THEN call' = [call EXCEPT ![u] = NoCall] /\ UNCHANGED <<sched, stale, used, asked>>
       ELSE /\ used < MaxStamps /\ used' = used + 1
            /\ Save([call[u].read EXCEPT !.last = Now], call[u].read)
            /\ asked' = asked \cup {Now}
            /\ call' = [call EXCEPT ![u].at = "append", ![u].row = Now]
    /\ UNCHANGED <<catchUp, exists, runs, job, unit, quiet, wake, lock, tick, run, bounds, ran, wanted>>

AppendNow(u) ==
    /\ call[u].at = "append"
    /\ runs' = [runs EXCEPT ![call[u].row] = "requested"]
    /\ call' = [call EXCEPT ![u] = NoCall]
    /\ UNCHANGED <<catchUp, exists, sched, job, clocks, quiet, wake, lock, tick, run, bounds, histories>>

Remove ==
    /\ exists /\ Called
    /\ exists' = FALSE
    /\ UNCHANGED <<catchUp, sched, runs, job, clocks, quiet, wake, lock, tick, run, call, faults, histories>>

\* A queued job is cancelled; its row is not told.
CancelJob ==
    /\ Called
    /\ \E s \in Times : job[s] = "queued" /\ job' = [job EXCEPT ![s] = "cancelled"]
    /\ UNCHANGED <<catchUp, exists, sched, runs, clocks, quiet, wake, lock, tick, run, call, faults, histories>>

Command(u) == Ask(u) \/ Pause(u) \/ Resume(u) \/ RunNow(u) \/ AppendNow(u)

-----------------------------------------------------------------------------
(* Time, and what the system says *)

Tock ==
    /\ unit < MaxUnits /\ unit' = unit + 1
    /\ UNCHANGED <<catchUp, store, used, quiet, wake, lock, tick, run, call, bounds, histories>>

\* Quiet hours begin or end.
Shift ==
    /\ Called /\ quiet' = ~quiet
    /\ UNCHANGED <<catchUp, store, clocks, wake, lock, tick, run, call, faults, histories>>

\* The desktop wakes up: the flag is set, whatever the locks.
Awake ==
    /\ Called /\ wake' = TRUE
    /\ UNCHANGED <<catchUp, store, clocks, quiet, lock, tick, run, call, faults, histories>>

-----------------------------------------------------------------------------
SchedInit ==
    /\ catchUp \in CatchUps /\ exists = TRUE
    /\ sched \in [last : {0}, paused : {"no", "user"}] /\ wanted = (sched.paused = "user")
    /\ runs = [s \in Times |-> "none"] /\ job = [s \in Times |-> "none"]
    /\ unit = 0 /\ used = 0 /\ quiet \in BOOLEAN /\ wake = FALSE
    /\ lock = "free" /\ tick = NoTick /\ run = NoRun /\ call = [u \in Users |-> NoCall]
    /\ calls = 0 /\ faults = 0
    /\ ran = [s \in Times |-> 0] /\ asked = {} /\ stale = FALSE

SchedNext ==
    \/ Tick \/ SubmitFails \/ BreakTick
    \/ Execution \/ BreakRun
    \/ \E u \in Users : Command(u)
    \/ Remove \/ CancelJob \/ Tock \/ Shift \/ Awake

SchedSpec == SchedInit /\ [][SchedNext]_schedVars

\* The runner loop ticks and executes again and again.
LiveSchedSpec == SchedSpec /\ WF_schedVars(Tick) /\ WF_schedVars(Execution) /\ SF_schedVars(BeginTick) /\ SF_schedVars(Take)

-----------------------------------------------------------------------------
(* Properties *)

\* No run is executed twice, however often its row is requested again after a
\* crash or an error: "exactly one durable job" (submit_schedule).
RunOnce == \A s \in Times : ran[s] <= 1

MayRun == exists => ~quiet /\ sched.paused = "no"
Submitted == {s \in Times : job[s] # "none"}

\* Without catch-up no job is submitted for a run that is older than one
\* already submitted, whichever rows an error or a restart left behind (_tick).
NoOldAfterNewer ==
    [][~catchUp => \A s \in Submitted' \ Submitted : \A t \in Submitted : t < s]_schedVars

\* Without catch-up the calendar submits no more jobs than intervals have
\* passed, whatever ends a tick between the rows and the state, and whatever it
\* merges (_tick_one), as long as nothing is done from a state that another has
\* changed since.
NoExtraRuns == ~catchUp /\ ~stale => Cardinality(Submitted \ asked) <= unit

\* Every request is decided, whatever was left of it, once the schedule may run
\* for good (_tick).
RequestsDecided == (<>[]MayRun) => []<>(Requested = {})

\* Violated: "requested rows survive a restart" (schedule_runtime.py:51).  A run
\* that has a job is run, unless the job is cancelled or its run has failed.
RequestsServed == (<>[]MayRun) => []<>(\A s \in Times : job[s] \notin {"created", "queued"})

\* Violated: "Stop the schedule until it is resumed." (scheduler.py:2164)
PauseHolds == wanted => sched.paused = "user"

=============================================================================
