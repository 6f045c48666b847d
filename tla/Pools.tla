------------------------------- MODULE Pools -------------------------------
(***************************************************************************)
(* One pool of pools.py: its target, its members and the refill that moves *)
(* them towards it.  A refill reads the pool once, asks the source, moves  *)
(* members in one transaction, measures outside of any, and commits the    *)
(* verdicts, the admissions and the status in a second one; whatever       *)
(* others commit meanwhile it does not see.                                *)
(*                                                                         *)
(* Time is what has passed for a member: its proof (admitted_at) is fresh, *)
(* older than max_age_seconds, or older than retire_seconds; its rest      *)
(* (released_at) is unset, not over, over (cooldown_seconds), or older     *)
(* than retire_seconds.  Candidates that are refused whatever the pool     *)
(* holds (scope, country, freshness, denied) are not offered; a candidate  *)
(* refused for a quota counts as not offered.                              *)
(***************************************************************************)
EXTENDS Integers, FiniteSets, FiniteSetsExt

CONSTANTS
    N,            \* endpoints, in the order of their ids
    Refillers,    \* threads and commands that refill the pool
    Callers,      \* other callers that change it
    Targets,      \* values of desired, minimum and reserve
    Created,      \* the targets that the pool is created with
    Budget,       \* policy.refill_budget
    MaxMembers,   \* policy.max_members, 0: no limit
    Verified,     \* whether refills are given a measurement
    MaxCalls      \* bound: calls that are not refills

ASSUME SizesAssumption ==
    /\ N \in Nat /\ Budget \in Nat /\ MaxMembers \in Nat /\ MaxCalls \in Nat
    /\ Targets \subseteq Nat /\ 0 \in Targets
ASSUME CreatedAssumption ==
    Created \subseteq {s \in [desired : Targets, minimum : Targets, reserve : Targets] : s.minimum <= s.desired}
ASSUME WorkersAssumption == Verified \in BOOLEAN /\ Refillers \cap Callers = {}

VARIABLES
    pool,         \* the row of pools
    member,       \* the rows of pool_member
    work,         \* what each refill has in hand
    call,         \* what each other caller has read
    calls,
    well,         \* from here on every endpoint works and is offered
    touched       \* history: members others changed since a refill read them

poolVars == <<pool, member, work, call, calls, well, touched>>

Endpoints == 1..N
Resting == {"cooldown", "probation"}
Serving == {"active", "reserve"}
States == Resting \cup Serving
Fresh == 0    \* stages of a proof: fresh, expired, as old as retire_seconds
Unset == -1   \* stages of a rest: no released_at, resting, over, as old as retire_seconds
Rows == [state : States \cup {"none"}, admitted : 0..2, released : -1..2]
Gone == [state |-> "none", admitted |-> Fresh, released |-> Unset]
Specs == [desired : Targets, minimum : Targets, reserve : Targets]
NoSpec == [desired |-> 0, minimum |-> 0, reserve |-> 0]
NoRefill == [at |-> "idle", spec |-> NoSpec, view |-> [e \in Endpoints |-> Gone], left |-> 0, asked |-> FALSE]
NoCall == [at |-> "idle", e |-> 1, ok |-> FALSE, seen |-> Gone, spec |-> NoSpec]

-----------------------------------------------------------------------------
(* Counts and orders, of some rows v *)

In(v, states) == {e \in Endpoints : v[e].state \in states}
Served(v) == Cardinality(In(v, {"active"}))
Standby(v) == Cardinality(In(v, {"reserve"}))

\* The first n of some endpoints, in the order of their ids.
Lowest(some, n) == {e \in some : Cardinality({f \in some : f < e}) < n}

Least(some) == CHOOSE n \in some : \A m \in some : n <= m
Beyond(m, n) == IF m > n THEN m - n ELSE 0

\* An update by key: a row that is gone stays gone.
Moved(row, state) == IF row.state = "none" THEN Gone ELSE [row EXCEPT !.state = state]
Proven(state) == [state |-> state, admitted |-> Fresh, released |-> Unset]

-----------------------------------------------------------------------------
(* The first transaction: members change phase *)

\* expired: the proof is older than max_age_seconds.
Expired(row) == row.admitted > Fresh
Lapsed(v) == {e \in In(v, Serving) : Expired(v[e])}

\* _expire_cooldowns: a rest without a beginning is over.
Rested(v) == {e \in In(v, {"cooldown"}) : v[e].released # 0}

\* _retire: resting members that are as old as retire_seconds.
Old(row) == IF row.released = Unset THEN row.admitted = 2 ELSE row.released = 2
Retired(v) == {e \in In(v, Resting) \cup Lapsed(v) : Old(v[e])}

\* Mutant: one too many stays in service.
DemotedOneLess(v, spec) ==
    LET active == In(v, {"active"}) \ Lapsed(v) IN active \ Lowest(active, spec.desired + 1)

\* _demote: what is in service beyond the target waits in the reserve.
Demoted(v, spec) ==
    LET active == In(v, {"active"}) \ Lapsed(v) IN active \ Lowest(active, spec.desired)

\* _trim: resting members beyond max_members are forgotten.
Trimmed(v) ==
    LET present == In(v, States) \ Retired(v)
    IN  IF MaxMembers = 0 THEN {}
        ELSE Lowest((In(v, Resting) \cup Lapsed(v)) \ Retired(v), Beyond(Cardinality(present), MaxMembers))

\* _promote: the reserve is called into service, as far as the budget goes.
Promoted(v, spec) ==
    LET active == In(v, {"active"}) \ Lapsed(v)
        reserve == (In(v, {"reserve"}) \ Lapsed(v)) \cup Demoted(v, spec)
    IN  Lowest(reserve, Least({Beyond(spec.desired, Cardinality(active)), Budget}))

Phases(v, spec) ==
    [gone |-> Retired(v) \cup Trimmed(v), probation |-> Rested(v) \cup Lapsed(v),
     reserve |-> Demoted(v, spec), active |-> Promoted(v, spec)]

Phased(rows, plan) ==
    [e \in Endpoints |->
        CASE e \in plan.gone -> Gone
          [] e \in plan.probation \ plan.gone -> Moved(rows[e], "probation")
          [] e \in plan.active -> Moved(rows[e], "active")
          [] e \in plan.reserve \ plan.active -> Moved(rows[e], "reserve")
          [] OTHER -> rows[e]]

-----------------------------------------------------------------------------
(* The second transaction: verdicts, then admissions *)

\* What the counters of a refill hold: served, on standby, and the budget left.
Counts(v, left) == [served |-> Served(v), standby |-> Standby(v), members |-> Cardinality(In(v, States)), left |-> left]

\* Mutant: the one that is being placed is counted as served.
ShortOfOthers(n, spec) == Beyond(spec.desired, n.served + 1)

Short(n, spec) == Beyond(spec.desired, n.served)
Room(n, spec) == Beyond(spec.reserve, n.standby)

\* apply_measurements, in the order of the ids: proven members go into service,
\* then into the reserve, and wait when both are full; one that the budget
\* refuses ends them all.
Applied(n, spec, worked, failed) ==
    LET active == Lowest(worked, Least({Short(n, spec), n.left}))
        reserve == Lowest(worked \ active, Least({Room(n, spec), n.left - Cardinality(active)}))
        refused == IF Short(n, spec) + Room(n, spec) > n.left THEN worked \ Lowest(worked, n.left) ELSE {}
    IN  [active |-> active, reserve |-> reserve, failed |-> {e \in failed : \A f \in refused : e < f}]

\* The counters after that.
After(n, plan) ==
    [n EXCEPT !.served = @ + Cardinality(plan.active), !.standby = @ + Cardinality(plan.reserve),
              !.left = @ - Cardinality(plan.active) - Cardinality(plan.reserve)]

\* member_cap, less what occupies it.
Capacity(n, spec) ==
    IF MaxMembers > 0 THEN Beyond(MaxMembers, n.members)
    ELSE Beyond(spec.desired + spec.reserve, n.served + n.standby)

\* admit: how many of the new candidates are taken into service, and then into
\* the reserve, for which the limit of the members is not looked at.
IntoService(n, spec, new) == Least({Short(n, spec), n.left, Capacity(n, spec), new})
IntoReserve(n, spec, new) ==
    LET active == IntoService(n, spec, new)
    IN  IF active < Short(n, spec) THEN 0 ELSE Least({Room(n, spec), n.left - active, new - active})

\* The members of plan and the new ones are written; an insert is not an update.
Recorded(rows, plan, new) ==
    [e \in Endpoints |->
        CASE e \in new.active -> Proven("active")
          [] e \in new.reserve -> Proven("reserve")
          [] e \in plan.active -> Moved([Proven("active") EXCEPT !.state = rows[e].state], "active")
          [] e \in plan.reserve -> Moved([Proven("reserve") EXCEPT !.state = rows[e].state], "reserve")
          [] e \in plan.failed -> Moved([rows[e] EXCEPT !.released = 0], "cooldown")
          [] OTHER -> rows[e]]

StateOf(served, spec) ==
    IF served >= spec.desired THEN "complete" ELSE IF served = 0 THEN "empty" ELSE "degraded"

-----------------------------------------------------------------------------
(* History *)

\* What others changed is noted for every refill that is under way.
Touch(p, some) ==
    touched' = [q \in Refillers |-> IF q # p /\ work[q].at # "idle" THEN touched[q] \cup some ELSE touched[q]]
Changed(rows) == {e \in Endpoints : rows[e] # member[e]}

-----------------------------------------------------------------------------
(* refill *)

\* _collect: the source is asked if there is a demand.
Demand(v, spec) ==
    \/ Cardinality(In(v, {"active"}) \ Lapsed(v)) < spec.desired
    \/ Cardinality(In(v, {"reserve"}) \ Lapsed(v)) < spec.reserve

Spec == [desired |-> pool.desired, minimum |-> pool.minimum, reserve |-> pool.reserve]

\* The pool and its members are read.
Load(p) ==
    /\ work[p].at = "idle"
    /\ work' = [work EXCEPT ![p] = [at |-> "loaded", spec |-> Spec, view |-> member, left |-> Budget,
                                    asked |-> Demand(member, Spec) /\ Budget > 0]]
    /\ touched' = [touched EXCEPT ![p] = {}]
    /\ UNCHANGED <<pool, member, call, calls, well>>

MovePhases(p) ==
    /\ work[p].at = "loaded"
    /\ UNCHANGED <<pool, call, calls, well>>
    /\ LET w == work[p]
           plan == Phases(w.view, w.spec)
       IN  /\ member' = Phased(member, plan)
           /\ work' = [work EXCEPT ![p] = [w EXCEPT !.at = "moved", !.view = Phased(w.view, plan),
                                                    !.left = @ - Cardinality(plan.active)]]
    /\ Touch(p, Changed(member'))

\* measure: the members in probation, while there is budget to put them to use.
Measurable(p) == IF Verified /\ work[p].left > 0 THEN In(work[p].view, {"probation"}) ELSE {}

\* Once the network is well, everything that is measured works and every endpoint is offered.
Well(p, worked, offered) == worked = Measurable(p) /\ (work[p].asked => offered = Endpoints)

\* The verdicts, the admissions and the status; an insert that meets a row of
\* somebody else raises, and all is rolled back.
FinishRefill(p, raises) ==
    /\ work[p].at = "moved"
    /\ work' = [work EXCEPT ![p] = NoRefill]
    /\ UNCHANGED <<call, calls, well>>
    /\ \E worked \in SUBSET Measurable(p) : \E failed \in SUBSET (Measurable(p) \ worked) :
       \E offered \in SUBSET Endpoints :
          LET w == work[p]
              before == Counts(w.view, w.left)
              plan == Applied(before, w.spec, worked, failed)
              n == After(before, plan)
              known == In(w.view, States)
              unknown == Cardinality(offered \ known)
          IN  /\ offered = {} \/ w.asked
              /\ well => Well(p, worked, offered)
              /\ \E active \in kSubset(IntoService(n, w.spec, unknown), offered \ known) :
                 \E reserve \in kSubset(IntoReserve(n, w.spec, unknown), (offered \ known) \ active) :
                    LET new == [active |-> active, reserve |-> reserve] IN
                    /\ raises = (In(member, States) \cap (active \cup reserve) # {})
                    /\ \/ raises /\ UNCHANGED <<pool, member, touched>>
                       \/ /\ ~raises
                          /\ member' = Recorded(member, plan, new)
                          /\ pool' = [pool EXCEPT !.state = StateOf(n.served + Cardinality(active), w.spec),
                                                  !.due = FALSE]
                          /\ Touch(p, Changed(member'))

Refill(p) == Load(p) \/ MovePhases(p) \/ \E raises \in BOOLEAN : FinishRefill(p, raises)

-----------------------------------------------------------------------------
(* Other callers *)

Called == calls < MaxCalls /\ calls' = calls + 1

\* PoolTarget.validate
Accepted(spec) == spec.minimum <= spec.desired

\* set_target: what is not given is written as it was read.
ReadTarget(c) ==
    /\ call[c].at = "idle" /\ Called
    /\ call' = [call EXCEPT ![c] = [NoCall EXCEPT !.at = "target", !.spec = Spec]]
    /\ UNCHANGED <<pool, member, work, well, touched>>

WriteTarget(c) ==
    /\ call[c].at = "target"
    /\ \E field \in {"desired", "minimum", "reserve"}, value \in Targets :
          LET spec == [call[c].spec EXCEPT ![field] = value]
          IN  /\ Accepted(spec)
              /\ pool' = [pool EXCEPT !.desired = spec.desired, !.minimum = spec.minimum, !.reserve = spec.reserve]
    /\ call' = [call EXCEPT ![c] = NoCall]
    /\ UNCHANGED <<member, work, calls, well, touched>>

\* report_health reads the member, then decides in a transaction.
ReadHealth(c) ==
    /\ call[c].at = "idle" /\ Called
    /\ \E e \in In(member, States), ok \in BOOLEAN :
          call' = [call EXCEPT ![c] = [NoCall EXCEPT !.at = "health", !.e = e, !.ok = ok, !.seen = member[e],
                                            !.spec = Spec]]
    /\ UNCHANGED <<pool, member, work, well, touched>>

\* Where a good member goes: refused while it rests, or when both are full.
Healthy(c) ==
    LET others == Counts([member EXCEPT ![call[c].e] = Gone], 0)
    IN  CASE call[c].seen.state = "active" -> "active"
          [] call[c].seen.state = "cooldown" -> "none"
          [] OTHER -> IF Short(others, call[c].spec) > 0 THEN "active"
                      ELSE IF Room(others, call[c].spec) > 0 THEN "reserve" ELSE "none"

WriteHealth(c) ==
    /\ call[c].at = "health"
    /\ LET e == call[c].e
       IN  member' = CASE member[e].state = "none" -> member
                       [] member[e].state # "none" /\ ~call[c].ok ->
                            [member EXCEPT ![e].state = "cooldown", ![e].released = 0]
                       [] member[e].state # "none" /\ call[c].ok /\ Healthy(c) = "none" -> member
                       [] OTHER -> [member EXCEPT ![e] = Proven(Healthy(c))]
    /\ Touch(c, {call[c].e})
    /\ call' = [call EXCEPT ![c] = NoCall]
    /\ UNCHANGED <<pool, work, calls, well>>

\* One statement each: a member removed or put into a state by hand, and the feedback of a client.
EditMember(c) ==
    /\ call[c].at = "idle" /\ Called
    /\ \E e \in In(member, States) :
          /\ \/ member' = [member EXCEPT ![e] = Gone]
             \/ \E s \in States : member' = [member EXCEPT ![e] = Proven(s)]
             \/ \E s \in {"active", "cooldown"} : member' = [member EXCEPT ![e].state = s]
          /\ Touch(c, {e})
    /\ UNCHANGED <<pool, work, call, well>>

Call(c) == ReadTarget(c) \/ WriteTarget(c) \/ ReadHealth(c) \/ WriteHealth(c) \/ EditMember(c)

\* Time passes for one member.
Age(e) ==
    /\ member[e].state # "none"
    /\ \/ member[e].admitted < 2 /\ member' = [member EXCEPT ![e].admitted = @ + 1]
       \/ member[e].released \in {0, 1} /\ member' = [member EXCEPT ![e].released = @ + 1]
    /\ UNCHANGED <<pool, work, call, calls, well, touched>>

\* The time of the next attempt comes.
Due == ~pool.due /\ pool' = [pool EXCEPT !.due = TRUE] /\ UNCHANGED <<member, work, call, calls, well, touched>>

\* Faults come to an end.
Recover == ~well /\ well' = TRUE /\ UNCHANGED <<pool, member, work, call, calls, touched>>

-----------------------------------------------------------------------------
PoolInit ==
    /\ pool \in {[desired |-> s.desired, minimum |-> s.minimum, reserve |-> s.reserve,
                  state |-> "empty", due |-> TRUE] : s \in Created}
    /\ member = [e \in Endpoints |-> Gone]
    /\ work = [p \in Refillers |-> NoRefill]
    /\ call = [c \in Callers |-> NoCall]
    /\ calls = 0 /\ well = FALSE
    /\ touched = [p \in Refillers |-> {}]

PoolNext ==
    \/ \E p \in Refillers : Refill(p)
    \/ \E c \in Callers : Call(c)
    \/ \E e \in Endpoints : Age(e)
    \/ Due

PoolSpec == PoolInit /\ [][PoolNext]_poolVars

-----------------------------------------------------------------------------
(* Properties *)

PoolTypeOK ==
    /\ pool \in [desired : Targets, minimum : Targets, reserve : Targets,
                 state : {"empty", "degraded", "complete"}, due : BOOLEAN]
    /\ pool.minimum <= pool.desired
    /\ member \in [Endpoints -> Rows]
    /\ work \in [Refillers -> [at : {"idle", "loaded", "moved"}, spec : Specs, view : [Endpoints -> Rows],
                               left : 0..Budget, asked : BOOLEAN]]
    /\ call \in [Callers -> [at : {"idle", "target", "health"}, e : Endpoints, ok : BOOLEAN, seen : Rows,
                             spec : Specs]]
    /\ \A c \in Callers : call[c].spec.minimum <= call[c].spec.desired
    /\ calls \in 0..MaxCalls
    /\ well \in BOOLEAN
    /\ touched \in [Refillers -> SUBSET Endpoints]

\* A refill during which nobody else wrote: what it leaves in service is proven,
\* is no more than its target, and is truly told by the state it saves; it is
\* short only with an empty reserve, unless its budget was (refill).
SettledBy(p) ==
    LET w == work[p] IN
    w.at = "moved" /\ work'[p].at = "idle" /\ touched[p] = {} /\ member' # member =>
        /\ \A e \in In(member', Serving) : Expired(w.view[e]) => ~Expired(member'[e])
        /\ Served(member') <= w.spec.desired
        /\ pool'.state = StateOf(Served(member'), w.spec)
        /\ Served(member') < w.spec.desired /\ Budget >= N => Standby(member') = 0

\* SettledBy, of every refill.
RefillSettles == [][\A p \in Refillers : SettledBy(p)]_poolVars

=============================================================================
