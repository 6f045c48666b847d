------------------------ MODULE StageBudget_proofs ------------------------
(***************************************************************************)
(* The totals of a run are bounds, and the gate counts what is in flight,  *)
(* for any number of workers, targets and requests.                        *)
(*                                                                         *)
(* A step is one of the deadline or of one worker, which may wake others.  *)
(* Waking moves nobody in or out of a count, so each count changes by what *)
(* the one worker takes or gives back (Moves), and it is enough to compare *)
(* that with what the action adds to the counter.  The room for bodies is  *)
(* counted in the same way, as the set of the bytes that are set aside.    *)
(***************************************************************************)
EXTENDS StageBudget, FiniteSetTheorems, TLAPS

Stages == [kind : Kinds, target : Targets \cup {NoTarget}, active : BOOLEAN,
           tries : Nat, made : Nat, samples : Nat, cap : Nat,
           exhausted : BOOLEAN, cancelled : BOOLEAN]

\* Types a step keeps by itself: the counters are integers until the books
\* show that nobody gives back what he has not taken.
Shape ==
    /\ requests \in Int /\ bytes \in Nat /\ reserved \in Int /\ inflight \in Int
    /\ limit \in 1..MaxInflight
    /\ targetInflight \in [Targets -> Int] /\ targetUsed \in [Targets -> Int]
    /\ at \in [Workers -> Steps] /\ work \in [Workers -> Stages]
    /\ items \in Nat /\ stopped \in BOOLEAN /\ late \in BOOLEAN
    /\ sent \in Nat /\ reported \in Nat

\* What a worker holds where it is.
Place(w) ==
    /\ at[w] \in {"target", "targetSleep", "gate", "gateSleep"} => ~work[w].active
    /\ at[w] = "targetReleasing" => work[w].target # NoTarget
    /\ work[w].cap <= BodyCap
    /\ at[w] # "io" => work[w].cap = 0

Places == \A w \in Workers : Place(w)

Reserving(w) == Passed(w) /\ ~work[w].active
Room == {x \in Workers \X (1..BodyCap) : x[2] <= work[x[1]].cap}

Ledger ==
    /\ inflight = Cardinality({w \in Workers : Passed(w)})
    /\ requests = sent + reported + Cardinality({w \in Workers : Reserving(w)})
    /\ reserved = Cardinality(Room)
    /\ \A t \in Targets : /\ targetInflight[t] = Cardinality({w \in Workers : Using(w, t)})
                          /\ targetUsed[t] >= targetInflight[t]

BudgetInv == Shape /\ Places /\ Ledger /\ WithinTotals

-----------------------------------------------------------------------------
(* Counting *)

One(b) == IF b THEN 1 ELSE 0

\* Two sets of workers that differ in one worker at most.
LEMMA CountOthers ==
    ASSUME NEW S \in SUBSET Workers, NEW T \in SUBSET Workers, NEW w \in Workers,
           \A v \in Workers : v # w => (v \in S <=> v \in T)
    PROVE  /\ Cardinality(S) \in Nat /\ Cardinality(T) \in Nat
           /\ Cardinality(T) = Cardinality(S) + One(w \in T) - One(w \in S)
  <1> DEFINE rest == S \ {w}
  <1>1. IsFiniteSet(S) /\ IsFiniteSet(T)
    BY GateAssumption, FS_Subset
  <1>2. Cardinality(S) \in Nat /\ Cardinality(T) \in Nat
    BY <1>1, FS_CardinalityType
  <1>3. rest = T \ {w}
    OBVIOUS
  <1>4. Cardinality(rest) = IF w \in S THEN Cardinality(S) - 1 ELSE Cardinality(S)
    BY <1>1, FS_RemoveElement
  <1>5. Cardinality(rest) = IF w \in T THEN Cardinality(T) - 1 ELSE Cardinality(T)
    BY <1>1, <1>3, FS_RemoveElement
  <1> HIDE DEF rest
  <1>6. QED
    BY <1>2, <1>4, <1>5 DEF One

LEMMA Shift ==
    ASSUME NEW a \in Int, NEW b \in Int, NEW c \in Int, NEW n \in Int
    PROVE  a - b - c = n <=> a = b + c + n
  OBVIOUS

LEMMA PairUp ==
    ASSUME NEW x, NEW T, IsFiniteSet(T)
    PROVE  IsFiniteSet({x} \X T) /\ Cardinality({x} \X T) = Cardinality(T)
  <1>1. IsFiniteSet({x}) /\ Cardinality({x}) = 1
    BY FS_Singleton
  <1>2. IsFiniteSet({x} \X T) /\ Cardinality({x} \X T) = Cardinality({x}) * Cardinality(T)
    BY <1>1, FS_Product
  <1>3. Cardinality(T) \in Nat
    BY FS_CardinalityType
  <1>4. QED
    BY <1>1, <1>2, <1>3

\* The bytes set aside for one worker, and those of the others.
LEMMA RoomOf ==
    ASSUME NEW w \in Workers, work \in [Workers -> Stages], Places
    PROVE  LET others == {x \in Room : x[1] # w} IN
           /\ IsFiniteSet(Room) /\ IsFiniteSet(others)
           /\ Cardinality(Room) \in Nat /\ Cardinality(others) \in Nat
           /\ Cardinality(Room) = Cardinality(others) + work[w].cap
  <1> DEFINE others == {x \in Room : x[1] # w}
             mine == {w} \X (1..work[w].cap)
  <1>1. BodyCap \in Nat /\ IsFiniteSet(Workers)
    BY GateAssumption
  <1>2. IsFiniteSet(1..BodyCap)
    BY <1>1, FS_Interval
  <1>3. IsFiniteSet(Workers \X (1..BodyCap))
    BY <1>1, <1>2, FS_Product
  <1>4. IsFiniteSet(Room) /\ IsFiniteSet(others)
    BY <1>3, FS_Subset DEF Room
  <1>5. work[w].cap \in Nat /\ work[w].cap <= BodyCap
    BY DEF Stages, Places, Place
  <1>6. IsFiniteSet(mine) /\ Cardinality(mine) = work[w].cap
    <2>1. IsFiniteSet(1..work[w].cap) /\ Cardinality(1..work[w].cap) = work[w].cap
      BY <1>5, FS_Interval
    <2>2. QED
      BY <2>1, PairUp
  <1>7. Room = others \cup mine /\ others \cap mine = {}
    <2>1. ASSUME NEW x \in Room, x[1] = w
          PROVE  x \in mine
      <3>1. PICK v \in Workers, n \in 1..BodyCap : x = <<v, n>>
        BY <2>1 DEF Room
      <3>2. v = w /\ n <= work[w].cap
        BY <2>1, <3>1 DEF Room
      <3>3. n \in 1..work[w].cap
        BY <1>1, <1>5, <3>2
      <3>4. QED
        BY <3>1, <3>2, <3>3
    <2>2. ASSUME NEW x \in mine
          PROVE  x \in Room /\ x[1] = w
      <3>1. PICK n \in 1..work[w].cap : x = <<w, n>>
        BY <2>2
      <3>2. n \in 1..BodyCap /\ n <= work[w].cap
        BY <1>1, <1>5
      <3>3. QED
        BY <3>1, <3>2 DEF Room
    <2> HIDE DEF mine
    <2>3. QED
      BY <2>1, <2>2
  <1>8. Cardinality(Room) \in Nat /\ Cardinality(others) \in Nat
    BY <1>4, FS_CardinalityType
  <1>9. Cardinality(others \cap mine) = 0
    BY <1>7, FS_EmptySet
  <1>10. Cardinality(Room) = Cardinality(others) + Cardinality(mine) - 0
    BY <1>4, <1>6, <1>7, <1>9, FS_Union
  <1>11. QED
    BY <1>4, <1>5, <1>6, <1>8, <1>10

-----------------------------------------------------------------------------
(* One worker moves *)

\* A notification.
Woken(step) ==
    CASE step = "gateSleep" -> "gate"
      [] step = "bytesSleep" -> "reserving"
      [] step = "targetSleep" -> "target"
      [] OTHER -> step

Others(w) ==
    \A v \in Workers : v # w => work'[v] = work[v] /\ at'[v] \in {at[v], Woken(at[v])}

Becomes(w, stage) ==
    \/ work' = [work EXCEPT ![w] = stage]
    \/ work' = work /\ stage = work[w]

Moved(w, step, stage) ==
    /\ at'[w] = step /\ work'[w] = stage
    /\ at' \in [Workers -> Steps] /\ work' \in [Workers -> Stages]
    /\ Others(w)

\* The counters change by what w takes or gives back.
Moves(w) ==
    /\ inflight' = inflight + One(Passed(w)') - One(Passed(w))
    /\ requests' - sent' - reported' =
         requests - sent - reported + One(Reserving(w)') - One(Reserving(w))
    /\ reserved' = reserved + work'[w].cap - work[w].cap
    /\ \A t \in Targets :
         /\ targetInflight'[t] = targetInflight[t] + One(Using(w, t)') - One(Using(w, t))
         /\ targetUsed'[t] >= targetInflight'[t]

LEMMA WorkerMoves ==
    ASSUME Shape, NEW w \in Workers, NEW step \in Steps, NEW stage \in Stages,
           \/ Go(w, step) \/ NotifyGate(w, step) \/ NotifyTargets(w, step)
           \/ at' = at /\ step = at[w],
           Becomes(w, stage)
    PROVE  Moved(w, step, stage)
  <1>1. work' \in [Workers -> Stages] /\ work'[w] = stage
    BY DEF Shape, Becomes
  <1>2. \A v \in Workers : v # w => work'[v] = work[v]
    BY DEF Shape, Becomes
  <1>3. at' \in [Workers -> Steps] /\ at'[w] = step
    BY DEF Shape, Go, NotifyGate, NotifyTargets, Steps, Sleeping
  <1>4. \A v \in Workers : v # w => at'[v] \in {at[v], Woken(at[v])}
    BY DEF Shape, Go, NotifyGate, NotifyTargets, Woken
  <1>5. QED
    BY <1>1, <1>2, <1>3, <1>4 DEF Moved, Others

LEMMA OthersKeep ==
    ASSUME NEW w \in Workers, Others(w), NEW v \in Workers, v # w
    PROVE  /\ Passed(v)' <=> Passed(v)
           /\ Reserving(v)' <=> Reserving(v)
           /\ \A t \in Targets : Using(v, t)' <=> Using(v, t)
           /\ Place(v) => Place(v)'
  <1>1. work'[v] = work[v]
    BY DEF Others
  <1>2. \/ at'[v] = at[v]
        \/ at[v] = "gateSleep" /\ at'[v] = "gate"
        \/ at[v] = "bytesSleep" /\ at'[v] = "reserving"
        \/ at[v] = "targetSleep" /\ at'[v] = "target"
    BY DEF Others, Woken
  <1>3. Passed(v)' <=> Passed(v)
    BY <1>2 DEF Passed
  <1>4. \A t \in Targets : Using(v, t)' <=> Using(v, t)
    BY <1>1, <1>2 DEF Using, Passed
  <1>5. Place(v) => Place(v)'
    BY <1>1, <1>2 DEF Place
  <1>6. QED
    BY <1>1, <1>3, <1>4, <1>5 DEF Reserving

LEMMA LedgerMoves ==
    ASSUME BudgetInv, NEW w \in Workers, Shape', Others(w), Places', Moves(w)
    PROVE  Ledger'
  <1>1. \A v \in Workers : v # w => (Passed(v)' <=> Passed(v)) /\ (Reserving(v)' <=> Reserving(v))
    BY OthersKeep
  <1>2. inflight' = Cardinality({v \in Workers : Passed(v)})'
    <2> DEFINE S == {v \in Workers : Passed(v)}
    <2>1. \A v \in Workers : v # w => (v \in S <=> v \in S')
      BY <1>1
    <2>2. Cardinality(S') = Cardinality(S) + One(w \in S') - One(w \in S)
      <3>1. S \in SUBSET Workers /\ S' \in SUBSET Workers
        OBVIOUS
      <3> HIDE DEF S
      <3>2. QED
        BY <2>1, <3>1, CountOthers
    <2>3. (w \in S <=> Passed(w)) /\ (w \in S' <=> Passed(w)')
      OBVIOUS
    <2>4. inflight = Cardinality(S)
      BY DEF BudgetInv, Ledger
    <2> HIDE DEF S
    <2>5. inflight' = Cardinality(S')
      BY <2>2, <2>3, <2>4 DEF Moves, One
    <2>6. QED
      BY <2>5 DEF S
  <1>3. requests' = sent' + reported' + Cardinality({v \in Workers : Reserving(v)})'
    <2> DEFINE S == {v \in Workers : Reserving(v)}
    <2>1. \A v \in Workers : v # w => (v \in S <=> v \in S')
      BY <1>1
    <2>2. /\ Cardinality(S') = Cardinality(S) + One(w \in S') - One(w \in S)
          /\ Cardinality(S) \in Nat /\ Cardinality(S') \in Nat
      <3>1. S \in SUBSET Workers /\ S' \in SUBSET Workers
        OBVIOUS
      <3> HIDE DEF S
      <3>2. QED
        BY <2>1, <3>1, CountOthers
    <2>3. (w \in S <=> Reserving(w)) /\ (w \in S' <=> Reserving(w)')
      OBVIOUS
    <2>4. requests = sent + reported + Cardinality(S)
      BY DEF BudgetInv, Ledger
    <2> HIDE DEF S
    <2>5. PICK n \in Int, m \in Int : n = Cardinality(S) /\ m = Cardinality(S')
      BY <2>2
    <2>6. m = n + One(Reserving(w)') - One(Reserving(w))
      BY <2>2, <2>3, <2>5 DEF One
    <2>7. requests' - sent' - reported' = m
      <3>1. requests - sent - reported = n
        <4>1. requests = sent + reported + n
          BY <2>4, <2>5
        <4>2. requests \in Int /\ sent \in Int /\ reported \in Int
          BY DEF BudgetInv, Shape
        <4>3. QED
          BY <4>1, <4>2, Shift
      <3>2. requests' - sent' - reported' = n + One(Reserving(w)') - One(Reserving(w))
        BY <3>1 DEF Moves
      <3>3. QED
        BY <2>6, <3>2
    <2>8. requests' = sent' + reported' + m
      <3>1. PICK r \in Int, o \in Int, p \in Int : r = requests' /\ o = sent' /\ p = reported'
        BY DEF Shape
      <3>2. r - o - p = m
        BY <2>7, <3>1
      <3>3. r = o + p + m
        BY <3>2, Shift
      <3>4. QED
        BY <3>1, <3>3
    <2>9. QED
      BY <2>5, <2>8 DEF S
  <1>5. reserved' = Cardinality(Room)'
    <2> DEFINE rest == {x \in Room : x[1] # w}
    <2>1. work \in [Workers -> Stages] /\ Places /\ work' \in [Workers -> Stages]
      BY DEF BudgetInv, Shape
    <2>2. Cardinality(Room) = Cardinality(rest) + work[w].cap /\ Cardinality(rest) \in Nat
      BY <2>1, RoomOf
    <2>3. Cardinality(Room)' = Cardinality(rest)' + work'[w].cap /\ Cardinality(rest)' \in Nat
      <3>1. (/\ work \in [Workers -> Stages] /\ Places
            => /\ Cardinality(rest) \in Nat
               /\ Cardinality(Room) = Cardinality(rest) + work[w].cap)
        BY RoomOf
      <3>2. (/\ work \in [Workers -> Stages] /\ Places
            => /\ Cardinality(rest) \in Nat
               /\ Cardinality(Room) = Cardinality(rest) + work[w].cap)'
        BY RoomOf, PTL
      <3>3. QED
        BY <2>1, <3>2
    <2>4. rest' = rest
      <3>1. \A x \in Workers \X (1..BodyCap) : x[1] # w => work'[x[1]] = work[x[1]]
        BY DEF Others
      <3>2. QED
        BY <3>1 DEF Room
    <2>5. reserved = Cardinality(Room) /\ work[w].cap \in Nat /\ work'[w].cap \in Nat
      BY <2>1 DEF BudgetInv, Ledger, Stages
    <2>6. Cardinality(rest)' = Cardinality(rest)
      BY <2>4
    <2> HIDE DEF rest
    <2>7. QED
      BY <2>2, <2>3, <2>5, <2>6 DEF Moves
  <1>6. ASSUME NEW t \in Targets
        PROVE  targetInflight'[t] = Cardinality({v \in Workers : Using(v, t)})'
    <2> DEFINE S == {v \in Workers : Using(v, t)}
    <2>1. \A v \in Workers : v # w => (v \in S <=> v \in S')
      BY OthersKeep
    <2>2. Cardinality(S') = Cardinality(S) + One(w \in S') - One(w \in S)
      <3>1. S \in SUBSET Workers /\ S' \in SUBSET Workers
        OBVIOUS
      <3> HIDE DEF S
      <3>2. QED
        BY <2>1, <3>1, CountOthers
    <2>3. (w \in S <=> Using(w, t)) /\ (w \in S' <=> Using(w, t)')
      OBVIOUS
    <2>4. targetInflight[t] = Cardinality(S)
      BY DEF BudgetInv, Ledger
    <2> HIDE DEF S
    <2>5. targetInflight'[t] = Cardinality(S')
      BY <2>2, <2>3, <2>4 DEF Moves, One
    <2>6. QED
      BY <2>5 DEF S
  <1>7. QED
    BY <1>2, <1>3, <1>5, <1>6 DEF Ledger, Moves

\* What the books say of a worker that holds something.
LEMMA WhatIsHeld ==
    ASSUME BudgetInv, NEW w \in Workers
    PROVE  /\ inflight >= One(Passed(w))
           /\ requests >= sent + reported + One(Reserving(w))
           /\ reserved >= work[w].cap
           /\ \A t \in Targets : /\ targetInflight[t] >= One(Using(w, t))
                                 /\ targetUsed[t] >= One(Using(w, t))
  <1>1. ASSUME NEW S \in SUBSET Workers
        PROVE  Cardinality(S) \in Nat /\ Cardinality(S) >= One(w \in S)
    <2>1. IsFiniteSet(S) /\ Cardinality(S) \in Nat
      BY GateAssumption, FS_Subset, FS_CardinalityType
    <2>2. CASE w \in S
      <3>1. Cardinality(S) # 0
        BY <2>1, <2>2, FS_EmptySet
      <3>2. QED
        BY <2>1, <2>2, <3>1 DEF One
    <2>3. CASE w \notin S
      BY <2>1, <2>3 DEF One
    <2>4. QED
      BY <2>1, <2>2, <2>3
  <1>2. inflight >= One(Passed(w))
    <2> DEFINE S == {v \in Workers : Passed(v)}
    <2>1. S \in SUBSET Workers /\ (w \in S <=> Passed(w)) /\ inflight = Cardinality(S)
      BY DEF BudgetInv, Ledger
    <2> HIDE DEF S
    <2>2. QED
      BY <1>1, <2>1 DEF One
  <1>3. requests >= sent + reported + One(Reserving(w))
    <2> DEFINE S == {v \in Workers : Reserving(v)}
    <2>1. /\ S \in SUBSET Workers /\ (w \in S <=> Reserving(w))
          /\ requests = sent + reported + Cardinality(S)
      BY DEF BudgetInv, Ledger
    <2> HIDE DEF S
    <2>2. PICK n \in Nat : n = Cardinality(S) /\ n >= One(Reserving(w))
      BY <1>1, <2>1 DEF One
    <2>3. sent \in Nat /\ reported \in Nat /\ One(Reserving(w)) \in Nat
      BY DEF BudgetInv, Shape, One
    <2>4. QED
      BY <2>1, <2>2, <2>3
  <1>4. reserved >= work[w].cap
    <2> DEFINE rest == {x \in Room : x[1] # w}
    <2>1. work \in [Workers -> Stages] /\ Places /\ reserved = Cardinality(Room)
      BY DEF BudgetInv, Shape, Ledger
    <2>2. Cardinality(Room) = Cardinality(rest) + work[w].cap /\ Cardinality(rest) \in Nat
      BY <2>1, RoomOf
    <2>3. work[w].cap \in Nat
      BY <2>1 DEF Stages
    <2> HIDE DEF rest
    <2>4. QED
      BY <2>1, <2>2, <2>3
  <1>5. ASSUME NEW t \in Targets
        PROVE  targetInflight[t] >= One(Using(w, t)) /\ targetUsed[t] >= One(Using(w, t))
    <2> DEFINE S == {v \in Workers : Using(v, t)}
    <2>1. /\ S \in SUBSET Workers /\ (w \in S <=> Using(w, t)) /\ targetInflight[t] = Cardinality(S)
          /\ targetUsed[t] >= targetInflight[t]
          /\ targetUsed[t] \in Int
      BY DEF BudgetInv, Ledger, Shape
    <2> HIDE DEF S
    <2>2. Cardinality(S) \in Nat /\ Cardinality(S) >= One(Using(w, t))
      BY <1>1, <2>1 DEF One
    <2>3. One(Using(w, t)) \in Nat
      BY DEF One
    <2>4. QED
      BY <2>1, <2>2, <2>3
  <1>6. QED
    BY <1>2, <1>3, <1>4, <1>5

\* A step whose worker takes and gives back nothing.
LEMMA TakesNothing ==
    ASSUME BudgetInv, NEW w \in Workers, NEW step, NEW stage, Moved(w, step, stage),
           UNCHANGED <<gate, targets, past>>,
           limit' = limit, items' \in Nat, stopped' \in BOOLEAN, late' \in BOOLEAN,
           Passed(w)' <=> Passed(w), Reserving(w)' <=> Reserving(w),
           \A t \in Targets : Using(w, t)' <=> Using(w, t),
           stage.cap = work[w].cap, Place(w)'
    PROVE  BudgetInv'
  <1>1. Shape'
    BY DEF BudgetInv, Shape, Moved, gate, targets, past
  <1>2. Places'
    BY OthersKeep DEF BudgetInv, Places, Moved
  <1>3. Moves(w)
    <2>1. inflight' = inflight + One(Passed(w)') - One(Passed(w))
      BY DEF gate, BudgetInv, Shape, One
    <2>2. requests' - sent' - reported' =
            requests - sent - reported + One(Reserving(w)') - One(Reserving(w))
      <3>1. PICK d \in Int : d = requests - sent - reported
        BY DEF BudgetInv, Shape
      <3>2. requests' - sent' - reported' = d
        BY <3>1 DEF gate, past
      <3>3. PICK o \in Int : o = One(Reserving(w)) /\ o = One(Reserving(w)')
        BY DEF One
      <3>4. d = d + o - o
        OBVIOUS
      <3>5. QED
        BY <3>1, <3>2, <3>3, <3>4, Zenon
    <2>3. reserved' = reserved + work'[w].cap - work[w].cap
      <3>1. work[w].cap \in Int /\ reserved \in Int
        BY DEF BudgetInv, Shape, Stages
      <3>2. QED
        BY <3>1 DEF gate, Moved
    <2>4. ASSUME NEW t \in Targets
          PROVE  /\ targetInflight'[t] = targetInflight[t] + One(Using(w, t)') - One(Using(w, t))
                 /\ targetUsed'[t] >= targetInflight'[t]
      <3>1. targetInflight' = targetInflight /\ targetUsed' = targetUsed
        BY DEF targets
      <3>2. targetInflight[t] \in Int /\ targetUsed[t] >= targetInflight[t]
        BY DEF BudgetInv, Shape, Ledger
      <3>3. targetInflight[t] = targetInflight[t] + One(Using(w, t)') - One(Using(w, t))
        BY <3>2 DEF One
      <3>4. QED
        BY <3>1, <3>2, <3>3
    <2>5. QED
      BY <2>1, <2>2, <2>3, <2>4 DEF Moves
  <1>4. Ledger'
    BY <1>1, <1>2, <1>3, LedgerMoves DEF Moved
  <1>5. WithinTotals'
    BY DEF BudgetInv, WithinTotals, gate, targets, past
  <1>6. QED
    BY <1>1, <1>2, <1>4, <1>5 DEF BudgetInv

\* A step whose worker takes or gives something back.
LEMMA TakesSomething ==
    ASSUME BudgetInv, NEW w \in Workers, NEW step, NEW stage, Moved(w, step, stage),
           Shape', Place(w)', Moves(w), WithinTotals'
    PROVE  BudgetInv'
  <1>1. Places'
    BY OthersKeep DEF BudgetInv, Places, Moved
  <1>2. Ledger'
    BY <1>1, LedgerMoves DEF Moved
  <1>3. QED
    BY <1>1, <1>2 DEF BudgetInv

-----------------------------------------------------------------------------
(* The actions that take and give back nothing *)

LEMMA BeginKeeps ==
    ASSUME BudgetInv, NEW w \in Workers, at[w] \in {"idle", "judged"},
           NEW kind \in Kinds, NEW samples \in Nat, Begin(w, kind, samples),
           UNCHANGED <<gate, targets, past>>,
           limit' = limit, items' \in Nat, stopped' \in BOOLEAN, late' \in BOOLEAN
    PROVE  BudgetInv'
  <1>1. PICK step \in {"target", "gate"} : Go(w, step)
    BY DEF Begin
  <1>2. PICK stage \in Stages : stage = Fresh(kind, samples)
    BY DEF Fresh, Stages
  <1>3. Moved(w, step, stage)
    <2>1. Shape /\ step \in Steps /\ Becomes(w, stage)
      BY <1>2 DEF BudgetInv, Begin, Steps, Becomes
    <2>2. QED
      BY <1>1, <1>2, <2>1, WorkerMoves
  <1>4. /\ work'[w].target = NoTarget /\ ~work'[w].active /\ work'[w].cap = 0
        /\ at'[w] \in {"target", "gate"}
    BY <1>2, <1>3 DEF Moved, Fresh
  <1>5. Place(w)' /\ work[w].cap = 0
    BY <1>4, GateAssumption DEF BudgetInv, Places, Place
  <1>6. \A t \in Targets : ~Using(w, t) /\ ~Using(w, t)'
    BY <1>4, GateAssumption DEF Using, Passed
  <1>7. ~Passed(w) /\ ~Passed(w)' /\ ~Reserving(w) /\ ~Reserving(w)'
    BY <1>4 DEF Reserving, Passed
  <1>8. stage.cap = work[w].cap
    BY <1>2, <1>5 DEF Fresh
  <1>9. QED
    BY <1>3, <1>5, <1>6, <1>7, <1>8, TakesNothing

\* A worker that goes on with its stage, or ends it, without taking or giving
\* back anything.
LEMMA GoesOn ==
    ASSUME BudgetInv, NEW w \in Workers, NEW step \in Steps, NEW stage \in Stages,
           Go(w, step),
           Becomes(w, stage),
           UNCHANGED <<gate, targets, past>>,
           limit' = limit, items' \in Nat, stopped' \in BOOLEAN, late' \in BOOLEAN,
           stage.target = work[w].target, stage.cap = work[w].cap,
           stage.active = work[w].active,
           LET passed == {"running", "reserving", "bytesSleep", "io", "releasing"}
               using == {"gate", "gateSleep", "targetReleasing"}
           IN  \/ at[w] \in passed /\ step \in passed /\ (step = "io" <=> at[w] = "io")
               \/ at[w] \in using \ {"targetReleasing"} /\ step \in using \ {"targetReleasing"}
               \/ at[w] \in using /\ step = "targetReleasing" /\ stage.target # NoTarget
               \/ /\ at[w] \in using /\ stage.target = NoTarget
                  /\ step \in {"recording", "done"}
               \/ /\ at[w] \in {"idle", "judged", "recording", "target", "targetSleep"}
                  /\ step \in {"idle", "judged", "recording", "done"}
               \/ at[w] = "target" /\ step = "targetSleep"
    PROVE  BudgetInv'
  <1>1. Moved(w, step, stage)
    <2>1. Shape
      BY DEF BudgetInv
    <2>2. QED
      BY <2>1, WorkerMoves
  <1>2. /\ at'[w] = step /\ work'[w].target = work[w].target
        /\ work'[w].cap = work[w].cap /\ work'[w].active = work[w].active
    BY <1>1 DEF Moved
  <1>3. Place(w)
    BY DEF BudgetInv, Places
  <1>4. Place(w)'
    BY <1>2, <1>3 DEF Place
  <1>5. Passed(w)' <=> Passed(w)
    BY <1>2 DEF Passed
  <1>6. Reserving(w)' <=> Reserving(w)
    BY <1>2, <1>5 DEF Reserving
  <1>7. \A t \in Targets : Using(w, t)' <=> Using(w, t)
    BY <1>2, GateAssumption DEF Using, Passed
  <1>8. QED
    BY <1>1, <1>4, <1>5, <1>6, <1>7, TakesNothing

LEMMA QuietSteps ==
    ASSUME BudgetInv, NEW w \in Workers,
           \/ TakeItem(w) \/ Leave(w) \/ NextStage(w) \/ Record(w)
           \/ Ask(w) \/ GiveUpWaiting(w) \/ EndRunner(w) \/ Cancel(w)
    PROVE  BudgetInv'
  <1>0. /\ work[w] \in Stages /\ at[w] \in Steps
        /\ items \in Nat /\ stopped \in BOOLEAN /\ late \in BOOLEAN
    BY DEF BudgetInv, Shape
  <1> USE DEF run, At
  <1>1. CASE TakeItem(w)
    <2>1. items' \in Nat
      BY <1>0, <1>1 DEF TakeItem
    <2>2. PICK kind \in {"cheap", "basic"} : Begin(w, kind, 0)
      BY <1>1 DEF TakeItem
    <2>3. kind \in Kinds /\ 0 \in Nat
      BY DEF Kinds
    <2>4. QED
      BY <1>0, <1>1, <2>1, <2>2, <2>3, BeginKeeps DEF TakeItem
  <1>2. CASE Leave(w)
    <2>1. "done" \in Steps
      BY DEF Steps
    <2>2. QED
      BY <1>0, <1>2, <2>1, GoesOn DEF Leave, Becomes
  <1>3. CASE NextStage(w)
    <2>1. "recording" \in Steps /\ "basic" \in Kinds /\ "expensive" \in Kinds
          /\ 0 \in Nat /\ work[w].samples \in Nat
      BY <1>0 DEF Steps, Kinds, Stages
    <2>2. CASE Begin(w, "basic", 0)
      BY <1>0, <1>3, <2>1, <2>2, BeginKeeps DEF NextStage
    <2>3. CASE Begin(w, "expensive", work[w].samples)
      BY <1>0, <1>3, <2>1, <2>3, BeginKeeps DEF NextStage
    <2>4. CASE Go(w, "recording") /\ UNCHANGED work
      BY <1>0, <1>3, <2>1, <2>4, GoesOn DEF NextStage, Becomes
    <2>5. QED
      BY <1>3, <2>2, <2>3, <2>4 DEF NextStage
  <1>4. CASE Record(w)
    <2>1. "idle" \in Steps /\ stopped' \in BOOLEAN
      BY <1>0, <1>4 DEF Steps, Record, TotalsSpent
    <2>2. QED
      BY <1>0, <1>4, <2>1, GoesOn DEF Record, Becomes
  <1>5. CASE Ask(w)
    <2>5. PICK tries \in Nat, samples \in Nat :
            /\ tries = work[w].tries + 1
            /\ samples = work[w].samples + IF work[w].kind = "basic" THEN 1 ELSE 0
      BY <1>0 DEF Stages
    <2>1. PICK stage \in Stages : stage = [work[w] EXCEPT !.tries = tries, !.samples = samples]
      BY <1>0 DEF Stages
    <2>6. stage.target = work[w].target /\ stage.cap = work[w].cap /\ stage.active = work[w].active
      BY <1>0, <2>1 DEF Stages
    <2>2. Becomes(w, stage)
      BY <1>0, <1>5, <2>5, <2>1 DEF Ask, Becomes
    <2>3. "reserving" \in Steps
      BY DEF Steps
    <2>4. QED
      BY <1>0, <1>5, <2>6, <2>2, <2>3, GoesOn DEF Ask
  <1>6. CASE GiveUpWaiting(w)
    <2>1. "running" \in Steps
      BY DEF Steps
    <2>2. QED
      BY <1>0, <1>6, <2>1, GoesOn DEF GiveUpWaiting, Becomes
  <1>7. CASE EndRunner(w)
    <2>1. "releasing" \in Steps
      BY DEF Steps
    <2>2. QED
      BY <1>0, <1>7, <2>1, GoesOn DEF EndRunner, Becomes
  <1>8. CASE Cancel(w)
    <2>9. PICK stage \in Stages : stage = [work[w] EXCEPT !.cancelled = TRUE]
      BY <1>0 DEF Stages
    <2>1. stage.target = work[w].target /\ stage.cap = work[w].cap /\ stage.active = work[w].active
      BY <1>0, <2>9 DEF Stages
    <2>2. Becomes(w, stage)
      BY <1>0, <1>8, <2>9 DEF Cancel, Becomes
    <2>3. CASE at[w] \in {"idle", "target", "targetSleep"}
      <3>1. Go(w, "done") /\ "done" \in Steps
        BY <1>8, <2>3 DEF Cancel, Steps
      <3>2. QED
        BY <1>0, <1>8, <2>1, <2>2, <2>3, <3>1, GoesOn DEF Cancel
    <2>4. CASE at[w] \in {"gate", "gateSleep"}
      <3>1. PICK step \in {"targetReleasing", "done"} :
              Go(w, step) /\ (step = "targetReleasing" <=> work[w].target # NoTarget)
        BY <1>8, <2>4 DEF Cancel
      <3>2. step \in Steps
        BY DEF Steps
      <3>3. QED
        BY <1>0, <1>8, <2>1, <2>2, <2>4, <3>1, <3>2, GoesOn DEF Cancel
    <2>5. CASE at[w] \in {"running", "reserving", "bytesSleep"}
      <3>1. Go(w, "releasing") /\ "releasing" \in Steps
        BY <1>8, <2>5 DEF Cancel, Steps
      <3>2. QED
        BY <1>0, <1>8, <2>1, <2>2, <2>5, <3>1, GoesOn DEF Cancel
    <2>6. CASE at[w] = "recording"
      <3>1. Go(w, "done") /\ "done" \in Steps
        BY <1>8, <2>6 DEF Cancel, Steps
      <3>2. QED
        BY <1>0, <1>8, <2>1, <2>2, <2>6, <3>1, GoesOn DEF Cancel
    <2>7. CASE at[w] = "io"
      <3>1. Go(w, "io") /\ "io" \in Steps
        BY <1>8, <2>7 DEF Cancel, Steps
      <3>2. QED
        BY <1>0, <1>8, <2>1, <2>2, <2>7, <3>1, GoesOn DEF Cancel
    <2>8. QED
      BY <1>8, <2>3, <2>4, <2>5, <2>6, <2>7 DEF Cancel, Sleeping
  <1>9. QED
    BY <1>1, <1>2, <1>3, <1>4, <1>5, <1>6, <1>7, <1>8

-----------------------------------------------------------------------------
(* The actions that take something, or give it back *)

LEMMA MovesBy ==
    ASSUME Shape, NEW w \in Workers,
           NEW slots \in Int, NEW charged \in Int, NEW out \in Int, NEW told \in Int,
           inflight' = inflight + slots,
           slots = One(Passed(w)') - One(Passed(w)),
           requests' = requests + charged, sent' = sent + out, reported' = reported + told,
           charged - out - told = One(Reserving(w)') - One(Reserving(w)),
           reserved' = reserved + work'[w].cap - work[w].cap,
           \A t \in Targets :
             /\ targetInflight'[t] = targetInflight[t] + One(Using(w, t)') - One(Using(w, t))
             /\ targetUsed'[t] >= targetInflight'[t]
    PROVE  Moves(w)
  <1>1. inflight' = inflight + One(Passed(w)') - One(Passed(w))
    <2>1. PICK x \in Int, y \in Int : x = One(Passed(w)') /\ y = One(Passed(w))
      BY DEF One
    <2>2. inflight \in Int /\ slots = x - y
      BY <2>1 DEF Shape
    <2>3. inflight + slots = inflight + x - y
      BY <2>2
    <2>4. QED
      BY <2>1, <2>3
  <1>2. requests' - sent' - reported' =
          requests - sent - reported + One(Reserving(w)') - One(Reserving(w))
    <2>1. PICK x \in Int, y \in Int : x = One(Reserving(w)') /\ y = One(Reserving(w))
      BY DEF One
    <2>2. requests \in Int /\ sent \in Int /\ reported \in Int /\ charged - out - told = x - y
      BY <2>1 DEF Shape
    <2>3. (requests + charged) - (sent + out) - (reported + told) = requests - sent - reported + x - y
      BY <2>2
    <2>4. QED
      BY <2>1, <2>3
  <1>3. QED
    BY <1>1, <1>2 DEF Moves

LEMMA TakeTargetKeeps ==
    ASSUME BudgetInv, NEW w \in Workers, NEW t \in Targets, at[w] = "target", TakeTarget(w, t),
           UNCHANGED <<gate, limit, run, past>>
    PROVE  BudgetInv'
  <1>0. Shape /\ work[w] \in Stages /\ Place(w)
    BY DEF BudgetInv, Shape, Places
  <1>1. PICK stage \in Stages : stage = [work[w] EXCEPT !.target = t]
    BY <1>0 DEF Stages
  <1>2. stage.target = t /\ stage.cap = work[w].cap /\ stage.active = work[w].active
    BY <1>0, <1>1 DEF Stages
  <1>3. Moved(w, "gate", stage)
    <2>1. Becomes(w, stage)
      BY <1>0, <1>1 DEF TakeTarget, Becomes
    <2>2. Go(w, "gate") /\ "gate" \in Steps
      BY DEF TakeTarget, Steps
    <2>3. QED
      BY <1>0, <2>1, <2>2, WorkerMoves
  <1>4. at'[w] = "gate" /\ work'[w] = stage
    BY <1>3 DEF Moved
  <1>5. /\ targetInflight' = [targetInflight EXCEPT ![t] = @ + 1]
        /\ targetUsed' = [targetUsed EXCEPT ![t] = @ + 1]
        /\ targetUsed[t] < TargetRequests
    BY DEF TakeTarget, HasBudget
  <1>6. Shape'
    BY <1>0, <1>3, <1>5 DEF Shape, Moved, gate, run, past
  <1>7. Place(w)'
    BY <1>0, <1>2, <1>4 DEF Place
  <1>8. Moves(w)
    <2>1. ~Passed(w) /\ ~Passed(w)' /\ ~Reserving(w) /\ ~Reserving(w)'
      BY <1>4 DEF Reserving, Passed
    <2>2. One(Passed(w)) = 0 /\ One(Passed(w)') = 0 /\ One(Reserving(w)) = 0 /\ One(Reserving(w)') = 0
      BY <2>1 DEF One
    <2>3. reserved' = reserved + work'[w].cap - work[w].cap
      <3>1. reserved \in Int /\ work[w].cap \in Int /\ work'[w].cap = work[w].cap
        BY <1>0, <1>2, <1>4 DEF Shape, Stages
      <3>2. QED
        BY <3>1 DEF gate
    <2>4. ASSUME NEW u \in Targets
          PROVE  /\ targetInflight'[u] = targetInflight[u] + One(Using(w, u)') - One(Using(w, u))
                 /\ targetUsed'[u] >= targetInflight'[u]
      <3>1. ~Using(w, u) /\ (Using(w, u)' <=> u = t)
        BY <1>2, <1>4 DEF Using, Passed
      <3>2. One(Using(w, u)) = 0 /\ One(Using(w, u)') = IF u = t THEN 1 ELSE 0
        BY <3>1 DEF One
      <3>3. targetInflight[u] \in Int /\ targetUsed[u] \in Int /\ targetUsed[u] >= targetInflight[u]
        BY DEF BudgetInv, Shape, Ledger
      <3>4. /\ targetInflight'[u] = targetInflight[u] + IF u = t THEN 1 ELSE 0
            /\ targetUsed'[u] = targetUsed[u] + IF u = t THEN 1 ELSE 0
        BY <1>5, <3>3 DEF BudgetInv, Shape
      <3>5. QED
        BY <3>2, <3>3, <3>4
    <2>5. /\ inflight' = inflight + 0 /\ requests' = requests + 0
          /\ sent' = sent + 0 /\ reported' = reported + 0
      BY <1>0 DEF gate, past, Shape
    <2>6. QED
      BY <1>0, <2>2, <2>3, <2>4, <2>5, MovesBy
  <1>9. WithinTotals'
    <2>1. \A u \in Targets : targetUsed'[u] <= TargetRequests
      BY <1>0, <1>5, GateAssumption DEF BudgetInv, WithinTotals, Shape
    <2>2. QED
      BY <2>1 DEF BudgetInv, WithinTotals, gate, past
  <1>10. QED
    BY <1>3, <1>6, <1>7, <1>8, <1>9, TakesSomething

LEMMA AcquireTargetKeeps ==
    ASSUME BudgetInv, NEW w \in Workers, AcquireTarget(w)
    PROVE  BudgetInv'
  <1>0. /\ work[w] \in Stages /\ at[w] = "target"
        /\ items \in Nat /\ stopped \in BOOLEAN /\ late \in BOOLEAN
        /\ UNCHANGED <<gate, limit, run, past>>
    BY DEF BudgetInv, Shape, AcquireTarget, At
  <1>1. CASE \E t \in Targets : TakeTarget(w, t)
    BY <1>0, <1>1, TakeTargetKeeps
  <1>2. CASE UNCHANGED <<targets, work>> /\ (Go(w, "targetSleep") \/ Go(w, "recording"))
    <2>1. "targetSleep" \in Steps /\ "recording" \in Steps
      BY DEF Steps, Sleeping
    <2>2. Becomes(w, work[w]) /\ UNCHANGED <<gate, targets, past>> /\ limit' = limit
          /\ items' \in Nat /\ stopped' \in BOOLEAN /\ late' \in BOOLEAN
      BY <1>0, <1>2 DEF Becomes, run
    <2>3. CASE Go(w, "targetSleep")
      BY <1>0, <2>1, <2>2, <2>3, GoesOn
    <2>4. CASE Go(w, "recording")
      BY <1>0, <2>1, <2>2, <2>4, GoesOn
    <2>5. QED
      BY <1>2, <2>3, <2>4
  <1>3. QED
    BY <1>1, <1>2 DEF AcquireTarget

LEMMA ReleaseTargetKeeps ==
    ASSUME BudgetInv, NEW w \in Workers, ReleaseTarget(w)
    PROVE  BudgetInv'
  <1>0. Shape /\ work[w] \in Stages /\ Place(w) /\ at[w] = "targetReleasing"
    BY DEF BudgetInv, Shape, Places, ReleaseTarget, At
  <1>1. PICK t \in Targets : t = work[w].target
    BY <1>0 DEF Place, Stages
  <1>2. PICK step \in {"done", "recording"} : NotifyTargets(w, step)
    BY DEF ReleaseTarget
  <1>3. Moved(w, step, work[w])
    <2>1. Becomes(w, work[w])
      BY DEF ReleaseTarget, Becomes
    <2>2. step \in Steps
      BY DEF Steps
    <2>3. QED
      BY <1>0, <1>2, <2>1, <2>2, WorkerMoves
  <1>4. at'[w] = step /\ work'[w] = work[w]
    BY <1>3 DEF Moved
  <1>5. /\ targetInflight' = [targetInflight EXCEPT ![t] = @ - 1]
        /\ \/ targetUsed' = targetUsed
           \/ targetUsed' = [targetUsed EXCEPT ![t] = @ - 1]
        /\ UNCHANGED <<gate, limit, run, past>>
    BY <1>1 DEF ReleaseTarget
  <1>6. Shape'
    BY <1>0, <1>3, <1>5 DEF Shape, Moved, gate, run, past
  <1>7. Place(w)'
    BY <1>0, <1>4 DEF Place
  <1>8. Moves(w)
    <2>1. ~Passed(w) /\ ~Passed(w)' /\ ~Reserving(w) /\ ~Reserving(w)'
      BY <1>0, <1>4 DEF Reserving, Passed
    <2>2. One(Passed(w)) = 0 /\ One(Passed(w)') = 0 /\ One(Reserving(w)) = 0 /\ One(Reserving(w)') = 0
      BY <2>1 DEF One
    <2>3. reserved' = reserved + work'[w].cap - work[w].cap
      <3>1. reserved \in Int /\ work[w].cap \in Int /\ work'[w].cap = work[w].cap
        BY <1>0, <1>4 DEF Shape, Stages
      <3>2. QED
        BY <1>5, <3>1 DEF gate
    <2>4. ASSUME NEW u \in Targets
          PROVE  /\ targetInflight'[u] = targetInflight[u] + One(Using(w, u)') - One(Using(w, u))
                 /\ targetUsed'[u] >= targetInflight'[u]
      <3>1. ~Using(w, u)' /\ (Using(w, u) <=> u = t)
        BY <1>0, <1>1, <1>4 DEF Using, Passed
      <3>2. One(Using(w, u)') = 0 /\ One(Using(w, u)) = IF u = t THEN 1 ELSE 0
        BY <3>1 DEF One
      <3>3. targetInflight[u] \in Int /\ targetUsed[u] \in Int /\ targetUsed[u] >= targetInflight[u]
        BY DEF BudgetInv, Shape, Ledger
      <3>4. /\ targetInflight'[u] = targetInflight[u] - IF u = t THEN 1 ELSE 0
            /\ \/ targetUsed'[u] = targetUsed[u]
               \/ targetUsed'[u] = targetUsed[u] - IF u = t THEN 1 ELSE 0
        BY <1>5, <3>3 DEF BudgetInv, Shape
      <3>5. QED
        BY <3>2, <3>3, <3>4
    <2>5. /\ inflight' = inflight + 0 /\ requests' = requests + 0
          /\ sent' = sent + 0 /\ reported' = reported + 0
      BY <1>0, <1>5 DEF gate, past, Shape
    <2>6. QED
      BY <1>0, <2>2, <2>3, <2>4, <2>5, MovesBy
  <1>9. WithinTotals'
    <2>1. \A u \in Targets : targetUsed'[u] <= TargetRequests
      BY <1>0, <1>5, GateAssumption DEF BudgetInv, WithinTotals, Shape
    <2>2. QED
      BY <1>5, <2>1 DEF BudgetInv, WithinTotals, gate, past
  <1>10. QED
    BY <1>3, <1>6, <1>7, <1>8, <1>9, TakesSomething

\* The targets of a stage that stays on its side of the target.
LEMMA TargetsStay ==
    ASSUME BudgetInv, NEW w \in Workers, targetInflight' = targetInflight,
           \A t \in Targets : targetUsed'[t] \in Int /\ targetUsed'[t] >= targetUsed[t],
           \A t \in Targets : Using(w, t)' <=> Using(w, t)
    PROVE  \A t \in Targets :
             /\ targetInflight'[t] = targetInflight[t] + One(Using(w, t)') - One(Using(w, t))
             /\ targetUsed'[t] >= targetInflight'[t]
  <1> TAKE t \in Targets
  <1>1. /\ targetInflight[t] \in Int /\ targetUsed[t] \in Int
        /\ targetUsed[t] >= targetInflight[t]
    BY DEF BudgetInv, Shape, Ledger
  <1>2. targetInflight[t] = targetInflight[t] + One(Using(w, t)') - One(Using(w, t))
    BY <1>1 DEF One
  <1>3. PICK m \in Int : m = targetUsed'[t] /\ m >= targetUsed[t]
    OBVIOUS
  <1>4. m >= targetInflight[t]
    BY <1>1, <1>3
  <1>5. QED
    BY <1>2, <1>3, <1>4

LEMMA AcquireKeeps ==
    ASSUME BudgetInv, NEW w \in Workers, Acquire(w)
    PROVE  BudgetInv'
  <1>0. /\ Shape /\ work[w] \in Stages /\ Place(w) /\ at[w] = "gate"
        /\ items \in Nat /\ stopped \in BOOLEAN /\ late \in BOOLEAN
        /\ UNCHANGED <<limit, targets, work, items, late, past>>
    BY DEF BudgetInv, Shape, Places, Acquire, At
  <1>1. Becomes(w, work[w])
    BY <1>0 DEF Becomes
  <1>2. CASE stopped' = TRUE /\ Go(w, AfterStage(w, FALSE)) /\ UNCHANGED gate
    <2>1. PICK step \in {"targetReleasing", "done", "recording"} :
            /\ Go(w, step)
            /\ step = "targetReleasing" <=> work[w].target # NoTarget
      BY <1>2 DEF AfterStage
    <2>2. step \in Steps
      BY DEF Steps
    <2>3. QED
      BY <1>0, <1>1, <1>2, <2>1, <2>2, GoesOn
  <1>3. CASE Go(w, "gateSleep") /\ UNCHANGED <<gate, stopped>>
    <2>1. "gateSleep" \in Steps
      BY DEF Steps, Sleeping
    <2>2. QED
      BY <1>0, <1>1, <1>3, <2>1, GoesOn
  <1>4. CASE /\ inflight' = inflight + 1 /\ requests' = requests + 1
             /\ Go(w, "running") /\ UNCHANGED <<bytes, reserved, stopped>>
    <2>1. Moved(w, "running", work[w])
      <3>1. "running" \in Steps
        BY DEF Steps
      <3>2. QED
        BY <1>0, <1>1, <1>4, <3>1, WorkerMoves
    <2>2. at'[w] = "running" /\ work'[w] = work[w]
      BY <2>1 DEF Moved
    <2>3. Shape'
      BY <1>0, <1>4, <2>1 DEF Shape, Moved, targets, past
    <2>4. Place(w)'
      BY <1>0, <2>2 DEF Place
    <2>5. Moves(w)
      <3>1. ~Passed(w) /\ Passed(w)' /\ ~Reserving(w) /\ Reserving(w)'
        BY <1>0, <2>2 DEF Reserving, Passed, Place
      <3>2. One(Passed(w)) = 0 /\ One(Passed(w)') = 1 /\ One(Reserving(w)) = 0 /\ One(Reserving(w)') = 1
        BY <3>1 DEF One
      <3>3. reserved' = reserved + work'[w].cap - work[w].cap
        <4>1. reserved \in Int /\ work[w].cap \in Int /\ work'[w].cap = work[w].cap
          BY <1>0, <2>2 DEF Shape, Stages
        <4>2. QED
          BY <1>4, <4>1
      <3>4. \A t \in Targets : Using(w, t)' <=> Using(w, t)
        BY <1>0, <2>2 DEF Using, Passed
      <3>5. \A t \in Targets : targetUsed'[t] \in Int /\ targetUsed'[t] >= targetUsed[t]
        BY <1>0 DEF targets, Shape
      <3>6. \A t \in Targets :
             /\ targetInflight'[t] = targetInflight[t] + One(Using(w, t)') - One(Using(w, t))
             /\ targetUsed'[t] >= targetInflight'[t]
        BY <1>0, <3>4, <3>5, TargetsStay DEF targets
      <3>7. sent' = sent + 0 /\ reported' = reported + 0
        BY <1>0 DEF past, Shape
      <3>8. /\ 1 = One(Passed(w)') - One(Passed(w))
            /\ 1 - 0 - 0 = One(Reserving(w)') - One(Reserving(w))
        BY <3>2
      <3>9. inflight' = inflight + 1 /\ requests' = requests + 1 /\ Shape
        BY <1>0, <1>4
      <3>10. QED
        BY <3>3, <3>6, <3>7, <3>8, <3>9, MovesBy
    <2>6. WithinTotals'
      BY <1>0, <1>4 DEF BudgetInv, WithinTotals, targets, past
    <2>7. QED
      BY <2>1, <2>3, <2>4, <2>5, <2>6, TakesSomething
  <1>5. QED
    BY <1>2, <1>3, <1>4 DEF Acquire

LEMMA ReleaseKeeps ==
    ASSUME BudgetInv, NEW w \in Workers, Release(w)
    PROVE  BudgetInv'
  <1>0. /\ Shape /\ work[w] \in Stages /\ Place(w) /\ at[w] = "releasing"
        /\ UNCHANGED <<bytes, reserved, targets, work, run, sent>>
    BY DEF BudgetInv, Shape, Places, Release, At
  <1>1. PICK n \in Nat : /\ requests' = requests - StillReserved(w) + n
                         /\ reported' = reported + n
    <2>1. Reports(w) \subseteq Nat
      BY <1>0 DEF Reports, Stages
    <2>2. QED
      BY <2>1 DEF Release
  <1>2. PICK step \in {"targetReleasing", "done", "judged", "recording"} :
          /\ NotifyGate(w, step)
          /\ step = "targetReleasing" <=> work[w].target # NoTarget
    <2>1. PICK ok \in BOOLEAN : NotifyGate(w, AfterStage(w, ok))
      BY DEF Release
    <2>2. QED
      BY <2>1 DEF AfterStage
  <1>3. Moved(w, step, work[w])
    <2>1. Becomes(w, work[w]) /\ step \in Steps
      BY <1>0 DEF Becomes, Steps
    <2>2. QED
      BY <1>0, <1>2, <2>1, WorkerMoves
  <1>4. at'[w] = step /\ work'[w] = work[w]
    BY <1>3 DEF Moved
  <1>5. limit' \in 1..MaxInflight /\ inflight' = inflight - 1
    BY <1>0 DEF Release, Shape
  <1>6. StillReserved(w) = IF work[w].active THEN 0 ELSE 1
    BY DEF StillReserved
  <1>7. Shape'
    <2>1. requests' \in Int /\ reported' \in Nat /\ inflight' \in Int
      BY <1>0, <1>1, <1>5, <1>6 DEF Shape
    <2>2. QED
      BY <1>0, <1>3, <1>5, <2>1 DEF Shape, Moved, targets, run
  <1>8. Place(w)'
    BY <1>0, <1>2, <1>4 DEF Place
  <1>9. Moves(w)
    <2>1. Passed(w) /\ ~Passed(w)' /\ (Reserving(w) <=> ~work[w].active) /\ ~Reserving(w)'
      BY <1>0, <1>4 DEF Reserving, Passed
    <2>2. /\ One(Passed(w)) = 1 /\ One(Passed(w)') = 0 /\ One(Reserving(w)') = 0
          /\ One(Reserving(w)) = StillReserved(w) /\ StillReserved(w) \in Int
      BY <1>6, <2>1 DEF One
    <2>3. reserved' = reserved + work'[w].cap - work[w].cap
      <3>1. reserved \in Int /\ work[w].cap \in Int /\ work'[w].cap = work[w].cap
        BY <1>0, <1>4 DEF Shape, Stages
      <3>2. QED
        BY <1>0, <3>1
    <2>4. \A t \in Targets : Using(w, t)' <=> Using(w, t)
      BY <1>0, <1>2, <1>4, GateAssumption DEF Using, Passed
    <2>5. \A t \in Targets : targetUsed'[t] \in Int /\ targetUsed'[t] >= targetUsed[t]
      BY <1>0 DEF targets, Shape
    <2>6. \A t \in Targets :
           /\ targetInflight'[t] = targetInflight[t] + One(Using(w, t)') - One(Using(w, t))
           /\ targetUsed'[t] >= targetInflight'[t]
      BY <1>0, <2>4, <2>5, TargetsStay DEF targets
    <2>7. PICK k \in Int : k = n - StillReserved(w)
      BY <2>2
    <2>8. /\ requests' = requests + k /\ inflight' = inflight + (0 - 1)
          /\ sent' = sent + 0
      BY <1>0, <1>1, <1>5, <2>2, <2>7 DEF Shape
    <2>9. k - 0 - n = 0 - StillReserved(w)
      BY <2>2, <2>7
    <2>10. QED
      BY <1>0, <1>1, <2>2, <2>3, <2>6, <2>8, <2>9, MovesBy
  <1>10. WithinTotals'
    BY <1>0 DEF BudgetInv, WithinTotals, targets
  <1>11. QED
    BY <1>3, <1>7, <1>8, <1>9, <1>10, TakesSomething

LEMMA EnterKeeps ==
    ASSUME BudgetInv, NEW w \in Workers, Enter(w)
    PROVE  BudgetInv'
  <1>0. /\ Shape /\ work[w] \in Stages /\ Place(w) /\ at[w] = "running" /\ ~work[w].active
        /\ requests' = requests - 1
        /\ UNCHANGED <<bytes, reserved, inflight, limit, targets, at, run, past>>
    BY DEF BudgetInv, Shape, Places, Enter, At
  <1>1. PICK stage \in Stages : stage = [work[w] EXCEPT !.active = TRUE]
    BY <1>0 DEF Stages
  <1>2. stage.target = work[w].target /\ stage.cap = work[w].cap /\ stage.active
    BY <1>0, <1>1 DEF Stages
  <1>3. Moved(w, "running", stage)
    <2>1. Becomes(w, stage)
      BY <1>0, <1>1 DEF Enter, Becomes
    <2>2. "running" \in Steps
      BY DEF Steps
    <2>3. QED
      BY <1>0, <2>1, <2>2, WorkerMoves
  <1>4. at'[w] = "running" /\ work'[w] = stage
    BY <1>3 DEF Moved
  <1>5. Shape'
    BY <1>0, <1>3 DEF Shape, Moved, targets, run, past
  <1>6. Place(w)'
    BY <1>0, <1>2, <1>4 DEF Place
  <1>7. Moves(w)
    <2>1. Passed(w) /\ Passed(w)' /\ Reserving(w) /\ ~Reserving(w)'
      BY <1>0, <1>2, <1>4 DEF Reserving, Passed
    <2>2. One(Passed(w)) = 1 /\ One(Passed(w)') = 1 /\ One(Reserving(w)) = 1 /\ One(Reserving(w)') = 0
      BY <2>1 DEF One
    <2>3. reserved' = reserved + work'[w].cap - work[w].cap
      <3>1. reserved \in Int /\ work[w].cap \in Int /\ work'[w].cap = work[w].cap
        BY <1>0, <1>2, <1>4 DEF Shape, Stages
      <3>2. QED
        BY <1>0, <3>1
    <2>4. \A t \in Targets : Using(w, t)' <=> Using(w, t)
      BY <1>0, <1>2, <1>4 DEF Using, Passed
    <2>5. \A t \in Targets : targetUsed'[t] \in Int /\ targetUsed'[t] >= targetUsed[t]
      BY <1>0 DEF targets, Shape
    <2>6. \A t \in Targets :
           /\ targetInflight'[t] = targetInflight[t] + One(Using(w, t)') - One(Using(w, t))
           /\ targetUsed'[t] >= targetInflight'[t]
      BY <1>0, <2>4, <2>5, TargetsStay DEF targets
    <2>7. /\ requests' = requests + (0 - 1) /\ inflight' = inflight + 0
          /\ sent' = sent + 0 /\ reported' = reported + 0
      BY <1>0 DEF past, Shape
    <2>8. /\ 0 = One(Passed(w)') - One(Passed(w))
          /\ (0 - 1) - 0 - 0 = One(Reserving(w)') - One(Reserving(w))
      BY <2>2
    <2>9. QED
      BY <1>0, <2>3, <2>6, <2>7, <2>8, MovesBy
  <1>8. WithinTotals'
    BY <1>0 DEF BudgetInv, WithinTotals, targets, past
  <1>9. QED
    BY <1>3, <1>5, <1>6, <1>7, <1>8, TakesSomething

\* A request that may be sent.
LEMMA GrantKeeps ==
    ASSUME BudgetInv, NEW w \in Workers, at[w] = "reserving", Grant(w),
           ~TotalsSpent, Available > 0, ~TargetSpent(w),
           UNCHANGED <<bytes, inflight, limit, targetInflight, items, late, reported>>
    PROVE  BudgetInv'
  <1>0. /\ Shape /\ work[w] \in Stages /\ Place(w) /\ work[w].cap = 0
        /\ work[w].made \in Nat /\ work[w].target \in Targets \cup {NoTarget}
    BY DEF BudgetInv, Shape, Places, Place, Stages
  <1>1. Available \in Int /\ BodyCap \in Nat
    BY <1>0, GateAssumption DEF Available, Shape
  <1>2. PICK cap \in Nat : /\ cap = (IF BodyCap <= Available THEN BodyCap ELSE Available)
                           /\ cap <= BodyCap /\ cap <= Available
    <2>1. PICK room \in Nat : room = Available
      BY <1>1
    <2>2. CASE BodyCap <= room
      BY <1>1, <2>1, <2>2
    <2>3. CASE ~(BodyCap <= room)
      BY <1>1, <2>1, <2>3
    <2>4. QED
      BY <2>2, <2>3
  <1>14. PICK made \in Nat : made = work[w].made + 1
    BY <1>0
  <1>3. PICK stage \in Stages : stage = [work[w] EXCEPT !.cap = cap, !.made = made]
    BY <1>0 DEF Stages
  <1>4. stage.target = work[w].target /\ stage.cap = cap /\ stage.active = work[w].active
    BY <1>0, <1>3 DEF Stages
  <1>5. /\ requests' = requests + 1 /\ reserved' = reserved + cap /\ sent' = sent + 1
        /\ ChargeTarget(w) /\ Go(w, "io") /\ stopped' = stopped
    BY <1>2 DEF Grant
  <1>6. Moved(w, "io", stage)
    <2>1. Becomes(w, stage)
      BY <1>0, <1>2, <1>3, <1>14 DEF Grant, Becomes
    <2>2. "io" \in Steps
      BY DEF Steps
    <2>3. QED
      BY <1>0, <1>5, <2>1, <2>2, WorkerMoves
  <1>7. at'[w] = "io" /\ work'[w] = stage
    BY <1>6 DEF Moved
  <1>8. \A t \in Targets : /\ targetUsed'[t] \in Int /\ targetUsed'[t] >= targetUsed[t]
                           /\ targetUsed'[t] <= TargetRequests
    <2>1. \A t \in Targets : targetUsed[t] \in Int /\ targetUsed[t] <= TargetRequests
      BY <1>0 DEF BudgetInv, WithinTotals, Shape
    <2>2. CASE ~(work[w].target # NoTarget /\ work[w].made > 0)
      BY <1>5, <2>1, <2>2 DEF ChargeTarget
    <2>3. CASE work[w].target # NoTarget /\ work[w].made > 0
      <3>1. work[w].target \in Targets /\ ~(targetUsed[work[w].target] >= TargetRequests)
        BY <1>0, <2>3 DEF TargetSpent
      <3>2. targetUsed' = [targetUsed EXCEPT ![work[w].target] = @ + 1]
        BY <1>5, <2>3 DEF ChargeTarget
      <3>3. TargetRequests \in Int
        BY GateAssumption
      <3>4. QED
        BY <1>0, <2>1, <3>1, <3>2, <3>3 DEF Shape
    <2>4. QED
      BY <2>2, <2>3
  <1>9. Shape'
    <2>1. targetUsed' \in [Targets -> Int]
      BY <1>0, <1>5 DEF ChargeTarget, Shape
    <2>2. requests' \in Int /\ reserved' \in Int /\ sent' \in Nat
      BY <1>0, <1>5 DEF Shape
    <2>3. QED
      BY <1>0, <1>5, <1>6, <2>1, <2>2 DEF Shape, Moved
  <1>10. Place(w)'
    BY <1>2, <1>4, <1>7 DEF Place
  <1>11. Moves(w)
    <2>1. Passed(w) /\ Passed(w)' /\ (Reserving(w) <=> Reserving(w)')
      BY <1>4, <1>7 DEF Reserving, Passed
    <2>2. /\ 0 = One(Passed(w)') - One(Passed(w))
          /\ 1 - 1 - 0 = One(Reserving(w)') - One(Reserving(w))
      BY <2>1 DEF One
    <2>3. reserved' = reserved + work'[w].cap - work[w].cap
      BY <1>0, <1>4, <1>5, <1>7 DEF Shape
    <2>4. \A t \in Targets : Using(w, t)' <=> Using(w, t)
      BY <1>4, <1>7 DEF Using, Passed
    <2>5. \A t \in Targets :
           /\ targetInflight'[t] = targetInflight[t] + One(Using(w, t)') - One(Using(w, t))
           /\ targetUsed'[t] >= targetInflight'[t]
      BY <1>8, <2>4, TargetsStay
    <2>6. inflight' = inflight + 0 /\ reported' = reported + 0
      BY <1>0 DEF Shape
    <2>7. QED
      BY <1>0, <1>5, <2>2, <2>3, <2>5, <2>6, MovesBy
  <1>12. WithinTotals'
    <2>1. sent' <= MaxRequests
      <3>1. requests >= sent + reported + One(Reserving(w)) /\ One(Reserving(w)) \in {0, 1}
        BY WhatIsHeld DEF One
      <3>2. ~(requests >= MaxRequests) /\ MaxRequests \in Nat
        BY GateAssumption DEF TotalsSpent
      <3>3. sent + 1 <= MaxRequests
        BY <1>0, <3>1, <3>2 DEF Shape
      <3>4. QED
        BY <1>5, <3>3
    <2>2. bytes' + reserved' <= MaxBytes
      <3>1. bytes + (reserved + cap) <= MaxBytes
        BY <1>0, <1>2, GateAssumption DEF Available, Shape
      <3>2. QED
        BY <1>5, <3>1
    <2>3. QED
      BY <1>8, <2>1, <2>2 DEF WithinTotals
  <1>13. QED
    BY <1>6, <1>9, <1>10, <1>11, <1>12, TakesSomething

LEMMA ReserveKeeps ==
    ASSUME BudgetInv, NEW w \in Workers, Reserve(w)
    PROVE  BudgetInv'
  <1>0. /\ Shape /\ work[w] \in Stages /\ at[w] = "reserving"
        /\ items \in Nat /\ stopped \in BOOLEAN /\ late \in BOOLEAN
        /\ UNCHANGED <<bytes, inflight, limit, targetInflight, items, late, reported>>
    BY DEF BudgetInv, Shape, Reserve, At
  <1>1. ASSUME NEW whole \in BOOLEAN, Exhaust(w, whole)
        PROVE  BudgetInv'
    <2>1. PICK stage \in Stages : stage = [work[w] EXCEPT !.exhausted = TRUE]
      BY <1>0 DEF Stages
    <2>2. stage.target = work[w].target /\ stage.cap = work[w].cap /\ stage.active = work[w].active
      BY <1>0, <2>1 DEF Stages
    <2>3. Becomes(w, stage) /\ Go(w, "releasing") /\ "releasing" \in Steps
      BY <1>0, <1>1, <2>1 DEF Exhaust, Becomes, Steps
    <2>4. UNCHANGED <<gate, targets, past>> /\ stopped' \in BOOLEAN
      BY <1>0, <1>1 DEF Exhaust, gate, targets, past
    <2>5. QED
      BY <1>0, <2>2, <2>3, <2>4, GoesOn
  <1>2. CASE /\ Go(w, "bytesSleep")
             /\ UNCHANGED <<requests, reserved, targetUsed, work, stopped, sent>>
    <2>1. Becomes(w, work[w]) /\ "bytesSleep" \in Steps
      BY <1>2 DEF Becomes, Steps, Sleeping
    <2>2. UNCHANGED <<gate, targets, past>>
      BY <1>0, <1>2 DEF gate, targets, past
    <2>3. QED
      BY <1>0, <1>2, <2>1, <2>2, GoesOn
  <1>3. CASE ~TotalsSpent /\ Available > 0 /\ ~TargetSpent(w) /\ Grant(w)
    BY <1>0, <1>3, GrantKeeps
  <1>4. QED
    BY <1>1, <1>2, <1>3 DEF Reserve

LEMMA SettleKeeps ==
    ASSUME BudgetInv, NEW w \in Workers, Settle(w)
    PROVE  BudgetInv'
  <1>0. /\ Shape /\ work[w] \in Stages /\ Place(w) /\ at[w] = "io"
        /\ work[w].cap \in Nat /\ reserved >= work[w].cap
        /\ reserved' = reserved - work[w].cap
        /\ UNCHANGED <<requests, inflight, limit, targets, run, past>>
    BY WhatIsHeld DEF BudgetInv, Shape, Places, Settle, At, Stages
  <1>1. PICK consumed \in 0..work[w].cap : bytes' = bytes + consumed
    BY DEF Settle
  <1>2. PICK step \in {"releasing", "running"} : NotifyGate(w, step)
    BY DEF Settle
  <1>3. PICK stage \in Stages : stage = [work[w] EXCEPT !.cap = 0]
    BY <1>0 DEF Stages
  <1>4. stage.target = work[w].target /\ stage.cap = 0 /\ stage.active = work[w].active
    BY <1>0, <1>3 DEF Stages
  <1>5. Moved(w, step, stage)
    <2>1. Becomes(w, stage)
      BY <1>0, <1>3 DEF Settle, Becomes
    <2>2. step \in Steps
      BY DEF Steps
    <2>3. QED
      BY <1>0, <1>2, <2>1, <2>2, WorkerMoves
  <1>6. at'[w] = step /\ work'[w] = stage
    BY <1>5 DEF Moved
  <1>7. Shape'
    <2>1. bytes' \in Nat /\ reserved' \in Int
      BY <1>0, <1>1 DEF Shape
    <2>2. QED
      BY <1>0, <1>5, <2>1 DEF Shape, Moved, targets, run, past
  <1>8. Place(w)'
    BY <1>4, <1>6, GateAssumption DEF Place
  <1>9. Moves(w)
    <2>1. Passed(w) /\ Passed(w)' /\ (Reserving(w) <=> Reserving(w)')
      BY <1>0, <1>4, <1>6 DEF Reserving, Passed
    <2>2. /\ 0 = One(Passed(w)') - One(Passed(w))
          /\ 0 - 0 - 0 = One(Reserving(w)') - One(Reserving(w))
      BY <2>1 DEF One
    <2>3. reserved' = reserved + work'[w].cap - work[w].cap
      BY <1>0, <1>4, <1>6 DEF Shape
    <2>4. \A t \in Targets : Using(w, t)' <=> Using(w, t)
      BY <1>0, <1>4, <1>6 DEF Using, Passed
    <2>5. \A t \in Targets : targetUsed'[t] \in Int /\ targetUsed'[t] >= targetUsed[t]
      BY <1>0 DEF targets, Shape
    <2>6. \A t \in Targets :
           /\ targetInflight'[t] = targetInflight[t] + One(Using(w, t)') - One(Using(w, t))
           /\ targetUsed'[t] >= targetInflight'[t]
      BY <1>0, <2>4, <2>5, TargetsStay DEF targets
    <2>7. /\ requests' = requests + 0 /\ inflight' = inflight + 0
          /\ sent' = sent + 0 /\ reported' = reported + 0
      BY <1>0 DEF past, Shape
    <2>8. QED
      BY <1>0, <2>2, <2>3, <2>6, <2>7, MovesBy
  <1>10. WithinTotals'
    <2>1. bytes + reserved <= MaxBytes /\ bytes \in Int /\ reserved \in Int /\ MaxBytes \in Int
      BY <1>0, GateAssumption DEF BudgetInv, WithinTotals, Shape
    <2>2. (bytes + consumed) + (reserved - work[w].cap) <= MaxBytes
      BY <1>0, <2>1
    <2>3. bytes' + reserved' <= MaxBytes
      BY <1>0, <1>1, <2>2
    <2>4. QED
      BY <1>0, <2>3 DEF BudgetInv, WithinTotals, targets, past
  <1>11. QED
    BY <1>5, <1>7, <1>8, <1>9, <1>10, TakesSomething

-----------------------------------------------------------------------------
(* The theorems *)

LEMMA BudgetInit == Init => BudgetInv
  <1> SUFFICES ASSUME Init PROVE BudgetInv
    OBVIOUS
  <1> USE DEF Init
  <1>1. Fresh("basic", 0) \in Stages /\ Fresh("basic", 0).cap = 0
    BY DEF Fresh, Stages, Kinds
  <1>2. Shape
    <2>1. work \in [Workers -> Stages] /\ at \in [Workers -> Steps]
      BY <1>1 DEF Steps
    <2>2. targetInflight \in [Targets -> Int] /\ targetUsed \in [Targets -> Int]
      OBVIOUS
    <2>3. /\ requests \in Int /\ bytes \in Nat /\ reserved \in Int /\ inflight \in Int
          /\ sent \in Nat /\ reported \in Nat
      OBVIOUS
    <2>4. items \in Nat /\ limit \in 1..MaxInflight
      BY GateAssumption
    <2>5. stopped \in BOOLEAN /\ late \in BOOLEAN
      BY Zenon
    <2>6. QED
      BY <2>1, <2>2, <2>3, <2>4, <2>5 DEF Shape
  <1>3. Places
    BY <1>1, GateAssumption DEF Places, Place
  <1>4. {w \in Workers : Passed(w)} = {} /\ {w \in Workers : Reserving(w)} = {}
    BY DEF Passed, Reserving
  <1>5. Room = {}
    <2>1. \A w \in Workers, n \in 1..BodyCap : ~(n <= work[w].cap)
      BY <1>1, GateAssumption
    <2>2. QED
      BY <2>1 DEF Room
  <1>6. \A t \in Targets : {w \in Workers : Using(w, t)} = {}
    BY DEF Using, Passed
  <1>7. Ledger
    BY <1>4, <1>5, <1>6, FS_EmptySet DEF Ledger
  <1>8. WithinTotals
    BY GateAssumption DEF WithinTotals
  <1>9. QED
    BY <1>2, <1>3, <1>7, <1>8 DEF BudgetInv

LEMMA BudgetStep == BudgetInv /\ [Next]_vars => BudgetInv'
  <1> SUFFICES ASSUME BudgetInv, [Next]_vars PROVE BudgetInv'
    OBVIOUS
  <1>1. ASSUME UNCHANGED <<gate, targets, at, work, past>>, limit' = limit,
               items' \in Nat, stopped' \in BOOLEAN, late' \in BOOLEAN
        PROVE  BudgetInv'
    <2>1. Shape'
      BY <1>1 DEF BudgetInv, Shape, gate, targets, past
    <2>2. Places'
      BY <1>1 DEF BudgetInv, Places, Place
    <2>3. Ledger'
      BY <1>1 DEF BudgetInv, Ledger, Room, Passed, Reserving, Using, gate, targets, past
    <2>4. WithinTotals'
      BY <1>1 DEF BudgetInv, WithinTotals, gate, targets, past
    <2>5. QED
      BY <2>1, <2>2, <2>3, <2>4 DEF BudgetInv
  <1>2. ASSUME NEW w \in Workers, Step(w) \/ GiveUpWaiting(w)
        PROVE  BudgetInv'
    BY <1>2, QuietSteps, AcquireTargetKeeps, ReleaseTargetKeeps, AcquireKeeps, ReleaseKeeps,
       EnterKeeps, ReserveKeeps, SettleKeeps DEF Step
  <1>3. CASE Deadline
    BY <1>1, <1>3 DEF Deadline, BudgetInv, Shape
  <1>4. CASE UNCHANGED vars
    BY <1>1, <1>4 DEF vars, run, BudgetInv, Shape
  <1>5. QED
    BY <1>2, <1>3, <1>4 DEF Next

LEMMA BudgetInvHolds == Spec => []BudgetInv
  BY BudgetInit, BudgetStep, PTL DEF Spec

\* The counters of the gate and of the targets stay counters: nothing is given
\* back that was not taken.
THEOREM BudgetTypeCorrect == Spec => []TypeOK
  <1>1. ASSUME BudgetInv
        PROVE  TypeOK
    <2>1. Shape
      BY <1>1 DEF BudgetInv
    <2>2. IsFiniteSet({w \in Workers : Passed(w)}) /\ IsFiniteSet({w \in Workers : Reserving(w)})
      BY GateAssumption, FS_Subset
    <2>3. inflight \in Nat
      BY <1>1, <2>2, FS_CardinalityType DEF BudgetInv, Ledger
    <2>4. requests \in Nat
      BY <1>1, <2>1, <2>2, FS_CardinalityType DEF BudgetInv, Ledger, Shape
    <2>5. reserved \in Nat
      <3>1. IsFiniteSet(Room)
        <4>1. IsFiniteSet(Workers) /\ IsFiniteSet(1..BodyCap)
          BY GateAssumption, FS_Interval
        <4>2. IsFiniteSet(Workers \X (1..BodyCap))
          BY <4>1, FS_Product
        <4>3. QED
          BY <4>2, FS_Subset DEF Room
      <3>2. QED
        BY <1>1, <3>1, FS_CardinalityType DEF BudgetInv, Ledger
    <2>6. \A t \in Targets : targetInflight[t] \in Nat /\ targetUsed[t] \in Nat
      <3> TAKE t \in Targets
      <3>1. IsFiniteSet({w \in Workers : Using(w, t)})
        BY GateAssumption, FS_Subset
      <3>2. targetInflight[t] \in Nat
        BY <1>1, <3>1, FS_CardinalityType DEF BudgetInv, Ledger
      <3>3. targetUsed[t] \in Int /\ targetUsed[t] >= targetInflight[t]
        BY <1>1 DEF BudgetInv, Ledger, Shape
      <3>4. QED
        BY <3>2, <3>3
    <2>7. targetInflight \in [Targets -> Nat] /\ targetUsed \in [Targets -> Nat]
      BY <2>1, <2>6 DEF Shape
    <2>8. QED
      BY <2>1, <2>3, <2>4, <2>5, <2>7 DEF Shape, TypeOK, Stages
  <1>2. QED
    BY <1>1, BudgetInvHolds, PTL

\* The totals are bounds, whatever the workers reserve at the same time
\* (docstring of Reservation).
THEOREM TotalsAreBounds == Spec => []WithinTotals
  BY BudgetInvHolds, PTL DEF BudgetInv

\* What the gate and the targets count is what the stages in flight hold: every
\* way out of a stage gives back what it took.
THEOREM EverythingIsGivenBack == Spec => []BooksBalance
  <1>1. ASSUME BudgetInv
        PROVE  BooksBalance
    <2>1. reserved > 0 => \E w \in Workers : At(w, "io")
      <3>1. reserved = Cardinality(Room)
        BY <1>1 DEF BudgetInv, Ledger
      <3>2. SUFFICES ASSUME Room # {}
                     PROVE  \E w \in Workers : At(w, "io")
        BY <3>1, FS_EmptySet
      <3>3. PICK w \in Workers, n \in 1..BodyCap : n <= work[w].cap
        BY <3>2 DEF Room
      <3>4. work[w].cap # 0
        BY <1>1, <3>3, GateAssumption DEF BudgetInv, Shape, Stages
      <3>5. at[w] = "io"
        BY <1>1, <3>4 DEF BudgetInv, Places, Place
      <3>6. QED
        BY <3>5 DEF At
    <2>2. QED
      BY <1>1, <2>1 DEF BooksBalance, BudgetInv, Ledger, Reserving
  <1>2. QED
    BY <1>1, BudgetInvHolds, PTL

=============================================================================
