----------------------------- MODULE JobControl -----------------------------
(***************************************************************************)
(* The control calls of jobs.py with the idempotency keys their callers    *)
(* send: POST /jobs/{id}/cancel passes one, pause and resume accept one.   *)
(* A keyed call that changes the job writes the pair (action, key) into    *)
(* its job.state event; a repeat finds it there and writes nothing.        *)
(*                                                                         *)
(* effects is that record, as the number of events that carry the pair.    *)
(* answered is a history variable: the keyed calls that were answered      *)
(* without an error, which is all a caller knows.                          *)
(***************************************************************************)
EXTENDS JobStore

VARIABLES
    effects,   \* events per job and (action, key)
    answered   \* (job, action, key) of every call that returned a job

cvars == <<effects, answered, vars>>

Requests == Jobs \X {"pause", "resume", "cancel"} \X Keys

-----------------------------------------------------------------------------

\* _control_replayed
Replayed(r) == effects[r] > 0

Answer(r) == answered' = answered \cup {r}

\* A repeated request: the job is returned as it is now.
AnswerReplay(r) ==
    /\ Replayed(r)
    /\ Answer(r)
    /\ UNCHANGED <<effects, vars>>

\* The request changes the job and is recorded in the event of that change.
Record(r) ==
    /\ ~Replayed(r)
    /\ effects' = [effects EXCEPT ![r] = @ + 1]
    /\ Answer(r)

\* The job is already where the caller wants it: returned without an event.
AnswerUnrecorded(r) ==
    /\ ~Replayed(r)
    /\ Answer(r)
    /\ UNCHANGED effects

PauseWithKey(j, k) ==
    LET r == <<j, "pause", k>> IN
    \/ AnswerReplay(r)
    \/ Record(r) /\ Pause(j)
    \/ AnswerUnrecorded(r) /\ state[j] = "paused" /\ UNCHANGED vars

ResumeWithKey(j, k, gone) ==
    LET r == <<j, "resume", k>> IN
    \/ AnswerReplay(r)
    \/ Record(r) /\ state[j] = "paused" /\ Resume(j, gone)
    \/ AnswerUnrecorded(r) /\ state[j] = "queued" /\ Resume(j, gone)

\* Mutant: any finished job satisfies a cancel.
CancelSatisfiedByAnyEnd(j) == Terminal(j)

CancelSatisfied(j) == state[j] = "cancelled"

CancelWithKey(j, k) ==
    LET r == <<j, "cancel", k>> IN
    \/ AnswerReplay(r)
    \/ Record(r) /\ Cancel(j)
    \/ AnswerUnrecorded(r) /\ CancelSatisfied(j) /\ UNCHANGED vars

CInit ==
    /\ Init
    /\ effects = [r \in Requests |-> 0]
    /\ answered = {}

CNext ==
    \/ Next /\ UNCHANGED <<effects, answered>>
    \/ \E j \in Jobs, k \in Keys :
         \/ PauseWithKey(j, k)
         \/ CancelWithKey(j, k)
         \/ \E gone \in SUBSET Items : ResumeWithKey(j, k, gone)

CSpec == CInit /\ [][CNext]_cvars

-----------------------------------------------------------------------------
(* Properties *)

\* A cancel that was answered holds for ever: no finish, recovery or resume
\* that raced it leaves the job in another state.
AnsweredCancelHolds ==
    \A j \in Jobs, k \in Keys : <<j, "cancel", k>> \in answered => state[j] = "cancelled"

\* "a replayed pause cannot stop a job that has since resumed" (the docstring
\* of JobStore.pause): a pause that was already answered under this key leaves
\* the job alone when it is sent again.
ReplayedPauseInert ==
    [][\A j \in Jobs, k \in Keys :
         <<j, "pause", k>> \in answered /\ PauseWithKey(j, k) => state' = state]_cvars

=============================================================================
