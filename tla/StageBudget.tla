---------------------------- MODULE StageBudget ----------------------------
(***************************************************************************)
(* What the stages of a scan cost, pipeline.py: the ResourceGate every     *)
(* stage passes, the RequestBudget through which a stage makes its         *)
(* requests, and the slots and requests of the targets.                    *)
(*                                                                         *)
(* A stage holds one in-flight slot and one reserved request; a stage that *)
(* meters its requests gives the reserved one back when it opens its       *)
(* budget and reserves each request, with room for its body, before the    *)
(* request is sent.  The tasks of asyncio change state only between two    *)
(* awaits, so an action is what happens from one await to the next.  A     *)
(* task that waits for a condition sleeps until the condition is notified, *)
(* and then looks again.                                                   *)
(*                                                                         *)
(* Descriptors and memory are one ceiling with the in-flight slots: every  *)
(* stage takes the same amount of each, and Budgets.worker_ceiling starts  *)
(* no more workers than either allows.  How the adaptive limit moves is    *)
(* left open.                                                              *)
(***************************************************************************)
EXTENDS Integers, FiniteSets

CONSTANTS
    Workers,
    Targets,         \* limits.targets
    NoTarget,
    MaxInflight,     \* budgets.max_inflight
    MaxRequests,     \* budgets.max_requests
    MaxBytes,        \* budgets.max_bytes
    BodyCap,         \* what one request asks room for
    TargetInflight,  \* TargetPolicy.max_inflight
    TargetRequests,  \* TargetPolicy.max_requests
    MaxTries,        \* bound: how many requests one stage attempts
    MaxItems         \* bound: how many items are measured

ASSUME GateAssumption ==
    /\ MaxInflight \in Nat \ {0} /\ MaxRequests \in Nat /\ MaxBytes \in Nat
    /\ BodyCap \in Nat \ {0} /\ MaxTries \in Nat /\ MaxItems \in Nat
    /\ TargetInflight \in Nat \ {0} /\ TargetRequests \in Nat
    /\ IsFiniteSet(Workers) /\ NoTarget \notin Targets

VARIABLES
    requests, bytes,   \* ResourceGate._requests and _bytes: what the totals are compared with
    reserved,          \* _reserved_bytes
    inflight,          \* _inflight
    limit,             \* AdaptiveConcurrency.limit
    targetInflight, targetUsed,
    at,                \* where each worker is
    work,              \* its stage
    items,             \* items nobody has taken
    stopped,           \* the run has a reason to stop
    late,              \* its deadline has passed
    sent,              \* history: the requests that went out
    reported           \* history: requests charged on the word of a stage that sent none

gate == <<requests, bytes, reserved, inflight>>
targets == <<targetInflight, targetUsed>>
run == <<items, stopped, late>>
past == <<sent, reported>>
vars == <<gate, limit, targets, at, work, run, past>>

Kinds == {"cheap", "basic", "expensive"}
Sleeping == {"gateSleep", "bytesSleep", "targetSleep"}
Steps == Sleeping \cup {"idle", "target", "gate", "running", "reserving", "io",
                        "releasing", "targetReleasing", "judged", "recording", "done"}

\* One stage: whether its budget is open, the requests it attempted and made,
\* the bytes its request may read, and whether it met the end of a total.  The
\* samples are those of the measurement so far, whichever stage took them.
Fresh(kind, samples) ==
    [kind |-> kind, target |-> NoTarget, active |-> FALSE, tries |-> 0, made |-> 0,
     samples |-> samples, cap |-> 0, exhausted |-> FALSE, cancelled |-> FALSE]

TypeOK ==
    /\ requests \in Nat /\ bytes \in Nat /\ reserved \in Nat /\ inflight \in Nat
    /\ limit \in 1..MaxInflight
    /\ targetInflight \in [Targets -> Nat] /\ targetUsed \in [Targets -> Nat]
    /\ at \in [Workers -> Steps]
    /\ work \in [Workers -> [kind : Kinds, target : Targets \cup {NoTarget}, active : BOOLEAN,
                             tries : Nat, made : Nat, samples : Nat, cap : Nat,
                             exhausted : BOOLEAN, cancelled : BOOLEAN]]
    /\ items \in Nat /\ stopped \in BOOLEAN /\ late \in BOOLEAN
    /\ sent \in Nat /\ reported \in Nat

-----------------------------------------------------------------------------
(* Helpers *)

At(w, step) == at[w] = step
Go(w, step) == at' = [at EXCEPT ![w] = step]

\* check_totals
TotalsSpent == requests >= MaxRequests \/ bytes >= MaxBytes \/ late

\* _check_affordable of one more request.
Affordable == requests + 1 <= MaxRequests

\* Mutant: what running requests may still read is not set aside.
AvailableUnread == MaxBytes - bytes

\* remaining_bytes, less what running requests may still read.
Available == MaxBytes - bytes - reserved

\* Mutant: nobody is told.
NotifyNobody(w, step) == Go(w, step)

\* gate._cond.notify_all, while w goes on to step.
NotifyGate(w, step) ==
    at' = [v \in Workers |->
             IF v = w THEN step
             ELSE IF at[v] = "gateSleep" THEN "gate"
             ELSE IF at[v] = "bytesSleep" THEN "reserving" ELSE at[v]]

\* _target_cond.notify_all
NotifyTargets(w, step) ==
    at' = [v \in Workers |->
             IF v = w THEN step ELSE IF at[v] = "targetSleep" THEN "target" ELSE at[v]]

\* Where a stage begins: _stage asks for a target before the gate.
Begin(w, kind, samples) ==
    /\ work' = [work EXCEPT ![w] = Fresh(kind, samples)]
    /\ Go(w, IF kind = "expensive" /\ Targets # {} THEN "target" ELSE "gate")

\* Where it ends: with its target, with the item, or with the whole task.
AfterStage(w, ok) ==
    IF work[w].target # NoTarget THEN "targetReleasing"
    ELSE IF work[w].cancelled THEN "done"
    ELSE IF ok THEN "judged" ELSE "recording"

-----------------------------------------------------------------------------
(* The worker *)

TakeItem(w) ==
    /\ At(w, "idle") /\ ~stopped /\ items > 0
    /\ items' = items - 1
    /\ \E kind \in {"cheap", "basic"} : Begin(w, kind, 0)
    /\ UNCHANGED <<gate, limit, targets, stopped, late, past>>

Leave(w) ==
    /\ At(w, "idle") /\ (stopped \/ items = 0)
    /\ Go(w, "done")
    /\ UNCHANGED <<gate, limit, targets, work, run, past>>

\* An item that passed a stage has the next one, if the run wants it.
NextStage(w) ==
    /\ At(w, "judged")
    /\ \/ work[w].kind = "cheap" /\ Begin(w, "basic", 0)
       \/ work[w].kind = "basic" /\ Begin(w, "expensive", work[w].samples)
       \/ Go(w, "recording") /\ UNCHANGED work
    /\ UNCHANGED <<gate, limit, targets, run, past>>

\* _record, then _stop_on_budget_or_want
Record(w) ==
    /\ At(w, "recording")
    /\ stopped' = (stopped \/ TotalsSpent)
    /\ Go(w, "idle")
    /\ UNCHANGED <<gate, limit, targets, work, items, late, past>>

-----------------------------------------------------------------------------
(* The target *)

HasBudget(t) == targetUsed[t] < TargetRequests
HasSlot(t) == targetInflight[t] < TargetInflight

TakeTarget(w, t) ==
    /\ HasBudget(t) /\ HasSlot(t)
    /\ \A u \in Targets : HasBudget(u) /\ HasSlot(u) => targetUsed[t] <= targetUsed[u]
    /\ targetInflight' = [targetInflight EXCEPT ![t] = @ + 1]
    /\ targetUsed' = [targetUsed EXCEPT ![t] = @ + 1]
    /\ work' = [work EXCEPT ![w].target = t]
    /\ Go(w, "gate")

\* _target_acquire_any: a slot, a wait while a running stage may give something
\* back, or the end of every target.
AcquireTarget(w) ==
    /\ At(w, "target")
    /\ \/ \E t \in Targets : TakeTarget(w, t)
       \/ /\ ~\E t \in Targets : HasBudget(t) /\ HasSlot(t)
          /\ \/ /\ \E t \in Targets : HasBudget(t) \/ targetInflight[t] > 0
                /\ Go(w, "targetSleep")
             \/ /\ \A t \in Targets : ~HasBudget(t) /\ targetInflight[t] = 0
                /\ Go(w, "recording")
          /\ UNCHANGED <<targets, work>>
    /\ UNCHANGED <<gate, limit, run, past>>

\* _target_release: a stage that made no request gives its one back.
ReleaseTarget(w) ==
    LET t == work[w].target IN
    /\ At(w, "targetReleasing")
    /\ targetInflight' = [targetInflight EXCEPT ![t] = @ - 1]
    /\ targetUsed' = IF work[w].made = 0 THEN [targetUsed EXCEPT ![t] = @ - 1] ELSE targetUsed
    /\ NotifyTargets(w, IF work[w].cancelled THEN "done" ELSE "recording")
    /\ UNCHANGED <<gate, limit, work, run, past>>

-----------------------------------------------------------------------------
(* The gate *)

\* ResourceGate.acquire: refused when a total is spent, asleep while a ceiling
\* is full.  A refusal stops the run.
Acquire(w) ==
    /\ At(w, "gate")
    /\ \/ /\ TotalsSpent \/ ~Affordable
          /\ stopped' = TRUE
          /\ Go(w, AfterStage(w, FALSE))
          /\ UNCHANGED gate
       \/ /\ ~TotalsSpent /\ Affordable /\ inflight >= limit
          /\ Go(w, "gateSleep")
          /\ UNCHANGED <<gate, stopped>>
       \/ /\ ~TotalsSpent /\ Affordable /\ inflight < limit
          /\ inflight' = inflight + 1
          /\ requests' = requests + 1
          /\ Go(w, "running")
          /\ UNCHANGED <<bytes, reserved, stopped>>
    /\ UNCHANGED <<limit, targets, work, items, late, past>>

\* Mutant: what an open budget returned already is returned again.
ReturnReserved(w) == 1

\* What the stage still has reserved of the one request it was let in with.
StillReserved(w) == IF work[w].active THEN 0 ELSE 1

\* What the outcome says it cost: the samples of the row, or nothing when the
\* runner raised.  It is only looked at when the budget made no request.
Reports(w) ==
    IF work[w].made > 0 \/ work[w].exhausted \/ work[w].cancelled
    THEN {0} ELSE {0, work[w].samples}

\* The finally of _measure and ResourceGate.release.  The outcome moves the
\* adaptive limit just before.
Release(w) ==
    /\ At(w, "releasing")
    /\ limit' \in IF work[w].cancelled THEN {limit} ELSE 1..MaxInflight
    /\ inflight' = inflight - 1
    /\ \E n \in Reports(w) :
         /\ requests' = requests - StillReserved(w) + n
         /\ reported' = reported + n
    /\ \E ok \in BOOLEAN :
         /\ ok => ~work[w].exhausted
         /\ NotifyGate(w, AfterStage(w, ok))
    /\ UNCHANGED <<bytes, reserved, targets, work, run, sent>>

-----------------------------------------------------------------------------
(* The requests of a stage *)

\* RequestBudget.__enter__: the estimate is replaced by the real requests.  The
\* screen and the probe of one stage each enter it.
Enter(w) ==
    /\ At(w, "running") /\ work[w].kind # "cheap" /\ ~work[w].active
    /\ requests' = requests - 1
    /\ work' = [work EXCEPT ![w].active = TRUE]
    /\ UNCHANGED <<bytes, reserved, inflight, limit, targets, at, run, past>>

\* The stage wants to send one more request.
Ask(w) ==
    /\ At(w, "running") /\ work[w].active /\ work[w].tries < MaxTries
    /\ work' = [work EXCEPT ![w].tries = @ + 1,
                             ![w].samples = @ + IF work[w].kind = "basic" THEN 1 ELSE 0]
    /\ Go(w, "reserving")
    /\ UNCHANGED <<gate, limit, targets, run, past>>

\* The first request of a stage was paid when its target was taken.
TargetSpent(w) ==
    /\ work[w].target # NoTarget /\ work[w].made > 0
    /\ targetUsed[work[w].target] >= TargetRequests

ChargeTarget(w) ==
    IF work[w].target # NoTarget /\ work[w].made > 0
    THEN targetUsed' = [targetUsed EXCEPT ![work[w].target] = @ + 1]
    ELSE UNCHANGED targetUsed

\* BudgetExhausted leaves the runner; a total that is spent stops the run, the
\* share of one target ends only this stage.
Exhaust(w, whole) ==
    /\ stopped' = (stopped \/ whole)
    /\ work' = [work EXCEPT ![w].exhausted = TRUE]
    /\ Go(w, "releasing")
    /\ UNCHANGED <<requests, reserved, targetUsed, sent>>

Grant(w) ==
    LET cap == IF BodyCap <= Available THEN BodyCap ELSE Available IN
    /\ requests' = requests + 1
    /\ reserved' = reserved + cap
    /\ sent' = sent + 1
    /\ ChargeTarget(w)
    /\ work' = [work EXCEPT ![w].cap = cap, ![w].made = @ + 1]
    /\ Go(w, "io")
    /\ UNCHANGED stopped

\* RequestBudget.reserve
Reserve(w) ==
    /\ At(w, "reserving")
    /\ \/ TotalsSpent /\ Exhaust(w, TRUE)
       \/ /\ ~TotalsSpent /\ Available <= 0
          /\ Go(w, "bytesSleep")
          /\ UNCHANGED <<requests, reserved, targetUsed, work, stopped, sent>>
       \/ ~TotalsSpent /\ Available > 0 /\ TargetSpent(w) /\ Exhaust(w, FALSE)
       \/ ~TotalsSpent /\ Available > 0 /\ ~TargetSpent(w) /\ Grant(w)
    /\ UNCHANGED <<bytes, inflight, limit, targetInflight, items, late, reported>>

\* RequestBudget.settle: the room is given back, what was read is charged.
Settle(w) ==
    /\ At(w, "io")
    /\ reserved' = reserved - work[w].cap
    /\ \E consumed \in 0..work[w].cap : bytes' = bytes + consumed
    /\ work' = [work EXCEPT ![w].cap = 0]
    /\ NotifyGate(w, IF work[w].cancelled THEN "releasing" ELSE "running")
    /\ UNCHANGED <<requests, inflight, limit, targets, run, past>>

\* asyncio.timeout of request_once, around the wait for room as well.
GiveUpWaiting(w) ==
    /\ At(w, "bytesSleep")
    /\ Go(w, "running")
    /\ UNCHANGED <<gate, limit, targets, work, run, past>>

\* The runner returns or raises.
EndRunner(w) ==
    /\ At(w, "running")
    /\ Go(w, "releasing")
    /\ UNCHANGED <<gate, limit, targets, work, run, past>>

-----------------------------------------------------------------------------
(* The deadline *)

Deadline ==
    /\ ~late
    /\ late' = TRUE /\ stopped' = TRUE
    /\ UNCHANGED <<gate, limit, targets, at, work, items, past>>

\* The TaskGroup cancels the workers; each unwinds from where it waits.
Cancel(w) ==
    /\ late /\ ~work[w].cancelled
    /\ at[w] \in Sleeping \cup {"idle", "target", "gate", "running", "reserving", "io", "recording"}
    /\ work' = [work EXCEPT ![w].cancelled = TRUE]
    /\ Go(w, CASE at[w] \in {"idle", "target", "targetSleep"} -> "done"
               [] at[w] \in {"gate", "gateSleep"} ->
                    IF work[w].target # NoTarget THEN "targetReleasing" ELSE "done"
               [] at[w] \in {"running", "reserving", "bytesSleep"} -> "releasing"
               [] at[w] = "recording" -> "done"
               [] at[w] = "io" -> "io")
    /\ UNCHANGED <<gate, limit, targets, run, past>>

-----------------------------------------------------------------------------

Init ==
    /\ requests = 0 /\ bytes = 0 /\ reserved = 0 /\ inflight = 0
    /\ limit \in 1..MaxInflight
    /\ targetInflight = [t \in Targets |-> 0] /\ targetUsed = [t \in Targets |-> 0]
    /\ at = [w \in Workers |-> "idle"]
    /\ work = [w \in Workers |-> Fresh("basic", 0)]
    /\ items = MaxItems /\ stopped = FALSE /\ late = FALSE
    /\ sent = 0 /\ reported = 0

Step(w) ==
    \/ TakeItem(w) \/ Leave(w) \/ NextStage(w) \/ Record(w)
    \/ AcquireTarget(w) \/ ReleaseTarget(w) \/ Acquire(w) \/ Release(w)
    \/ Enter(w) \/ Ask(w) \/ Reserve(w) \/ Settle(w) \/ EndRunner(w) \/ Cancel(w)

Next ==
    \/ \E w \in Workers : Step(w) \/ GiveUpWaiting(w)
    \/ Deadline

Spec == Init /\ [][Next]_vars

\* Every task is scheduled again, and the requests have timeouts of their own.
\* Neither the deadline nor the timeout of a waiting request is relied on.
LiveSpec == Spec /\ \A w \in Workers : WF_vars(Step(w))

-----------------------------------------------------------------------------
(* Properties *)

\* The totals are bounds of the run and not descriptions of it (docstring of
\* Reservation): whatever the workers reserve at the same time, no more
\* requests go out, in the run and to each target, and no more bytes are read
\* than were allowed.
WithinTotals ==
    /\ sent <= MaxRequests
    /\ bytes + reserved <= MaxBytes
    /\ \A t \in Targets : targetUsed[t] <= TargetRequests

Passed(w) == at[w] \in {"running", "reserving", "bytesSleep", "io", "releasing"}
Using(w, t) == work[w].target = t /\ (Passed(w) \/ at[w] \in {"gate", "gateSleep", "targetReleasing"})

\* Everything taken is given back on every way out of a stage, refusals,
\* timeouts and cancellations included: what the gate and the targets count is
\* what the stages in flight hold, and nothing else.
BooksBalance ==
    /\ inflight = Cardinality({w \in Workers : Passed(w)})
    /\ requests = sent + reported + Cardinality({w \in Workers : Passed(w) /\ ~work[w].active})
    /\ reserved > 0 => \E w \in Workers : At(w, "io")
    /\ \A t \in Targets : targetInflight[t] = Cardinality({w \in Workers : Using(w, t)})

\* A stage is charged what it spent (docstrings of Reservation and
\* RequestBudget).  It is not, where a stage that sent nothing reports requests.
ChargedAsSent == reported = 0

\* Nobody sleeps for ever: a worker that waits for a slot, for room in the byte
\* budget or for a target is woken by whoever gives something back, and leaves
\* in the end.
WorkersLeave == \A w \in Workers : <>At(w, "done")

=============================================================================
