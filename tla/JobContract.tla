---------------------------- MODULE JobContract ----------------------------
(***************************************************************************)
(* What the job lifecycle promises to the rest of the workbench, without   *)
(* rows, keys or item states: a job waits, is run by one worker at a time  *)
(* and is over for ever; the verdicts of its items arrive only once it has *)
(* been started and are never taken back.  jobs.py states it as prose in   *)
(* its module docstring; JobStore implements it.                           *)
(***************************************************************************)
EXTENDS Naturals

CONSTANTS Jobs, Items

VARIABLES
    phase,     \* where each job is
    verdicts   \* items that were measured and judged, per job

vars == <<phase, verdicts>>

Phases == {"absent", "waiting", "running", "over"}

TypeOK ==
    /\ phase \in [Jobs -> Phases]
    /\ verdicts \in [Jobs -> SUBSET Items]

Init ==
    /\ phase = [j \in Jobs |-> "absent"]
    /\ verdicts = [j \in Jobs |-> {}]

Ask(j) ==
    /\ phase[j] = "absent"
    /\ phase' = [phase EXCEPT ![j] = "waiting"]
    /\ UNCHANGED verdicts

Begin(j) ==
    /\ phase[j] = "waiting"
    /\ \A o \in Jobs : phase[o] # "running"
    /\ phase' = [phase EXCEPT ![j] = "running"]
    /\ UNCHANGED verdicts

\* A pause, or the recovery of a dead worker's job.
Interrupt(j) ==
    /\ phase[j] = "running"
    /\ phase' = [phase EXCEPT ![j] = "waiting"]
    /\ UNCHANGED verdicts

Close(j) ==
    /\ phase[j] \in {"waiting", "running"}
    /\ phase' = [phase EXCEPT ![j] = "over"]
    /\ UNCHANGED verdicts

\* A worker that is told late that its job is over still delivers.
Judge(j, i) ==
    /\ phase[j] \in {"running", "over"}
    /\ i \notin verdicts[j]
    /\ verdicts' = [verdicts EXCEPT ![j] = @ \cup {i}]
    /\ UNCHANGED phase

Next ==
    \E j \in Jobs :
       \/ Ask(j) \/ Begin(j) \/ Interrupt(j) \/ Close(j)
       \/ \E i \in Items : Judge(j, i)

Spec == Init /\ [][Next]_vars

=============================================================================
