---------------------------- MODULE Schedule_proofs ----------------------------
(***************************************************************************)
(* Theorems about Schedule, for any number of users, intervals, stamps and *)
(* faults and any max_catch_up.  The invariant has three layers: types,    *)
(* times and executions (Base), which rows the tick has listed and holds   *)
(* and which jobs have rows (Rows), and what the calendar may still submit *)
(* by the last run that was saved (Calendar): every job of the calendar    *)
(* costs an interval of sched.last.                                        *)
(***************************************************************************)
EXTENDS Schedule, FiniteSetTheorems, WellFoundedInduction, TLAPS

-----------------------------------------------------------------------------
(* Numbers *)

\* Facts of the arithmetic the calendar needs.
LEMMA ProductGrows ==
    ASSUME NEW i \in Nat, NEW m \in Nat, NEW n \in Nat, m <= n
    PROVE  m * i \in Nat /\ m * i <= n * i /\ (m + 1) * i = m * i + i
  <1>1. PICK d \in Nat : n = m + d
    <2>1. n - m \in Nat /\ n = m + (n - m)
      OBVIOUS
    <2>2. QED
      BY <2>1
  <1>2. n * i = m * i + d * i /\ d * i \in Nat /\ m * i \in Nat
    BY <1>1
  <1>3. (m + 1) * i = m * i + i
    OBVIOUS
  <1>4. QED
    BY <1>2, <1>3

\* A number is at least its quotient times the divisor, and less than one more.
LEMMA Quotient ==
    ASSUME NEW i \in Nat, i > 0, NEW a \in Nat
    PROVE  (a \div i) \in Nat /\ (a \div i) * i <= a /\ a < ((a \div i) + 1) * i
  OBVIOUS

\* Fewer than n + 1 intervals are at most n.
LEMMA FewerOf ==
    ASSUME NEW i \in Nat, i > 0, NEW m \in Nat, NEW n \in Nat, m * i < (n + 1) * i
    PROVE  m <= n
  <1>1. SUFFICES ASSUME n + 1 <= m PROVE FALSE
    OBVIOUS
  <1>2. (n + 1) * i <= m * i /\ (n + 1) * i \in Nat /\ m * i \in Nat
    BY <1>1, ProductGrows
  <1>3. QED
    BY <1>2

\* First is the least element: the oldest row (rows are read in order of their stamps).
LEMMA LeastTime ==
    ASSUME NEW S \in SUBSET Nat, S # {}
    PROVE  First(S) \in S /\ \A y \in S : First(S) <= y
  <1> DEFINE Less == {ss \in Nat \X Nat : ss[1] < ss[2]}
  <1>1. IsWellFoundedOn(Less, Nat)
    BY NatLessThanWellFounded DEF OpToRel
  <1>2. PICK x \in S : \A y \in S : <<y, x>> \notin Less
    <2> HIDE DEF Less
    <2>1. QED
      BY <1>1, WFMin
  <1>3. ASSUME NEW y \in S, y < x PROVE FALSE
    <2>1. <<y, x>> \in Nat \X Nat /\ <<y, x>>[1] < <<y, x>>[2]
      BY <1>3
    <2>2. <<y, x>> \in Less
      BY <2>1, Zenon
    <2>3. QED
      BY <1>2, <2>2
  <1>4. \A y \in S : x <= y
    BY <1>3
  <1>5. QED
    BY <1>4 DEF First

\* The clock stays within the times, and an interval holds all of its instants.
LEMMA Clock ==
    /\ Interval \in Nat /\ Interval >= 2 /\ MaxUnits \in Nat /\ MaxStamps \in Nat
    /\ 0 \in Times /\ Times \subseteq Nat /\ IsFiniteSet(Times)
    /\ \A a \in 0..MaxUnits, b \in 0..MaxStamps :
         /\ a * Interval + b + 1 \in Times /\ a * Interval \in Nat
         /\ a * Interval + b + 1 < (a + 1) * Interval
         /\ (a + 1) * Interval = a * Interval + Interval
  <1>1. Interval \in Nat /\ Interval >= 2 /\ Interval = MaxStamps + 2 /\ MaxUnits \in Nat /\ MaxStamps \in Nat
    BY BoundsAssumption DEF Interval
  <1> DEFINE i == Interval
  <1>2. i \in Nat /\ i >= 2 /\ i = MaxStamps + 2
    BY <1>1
  <1> HIDE DEF i
  <1>3. (MaxUnits + 1) * i \in Nat /\ Times = 0..(MaxUnits + 1) * i
    BY <1>1, <1>2 DEF Times, i
  <1>4. 0 \in Times /\ Times \subseteq Nat /\ IsFiniteSet(Times)
    BY <1>3, FS_Interval
  <1>5. ASSUME NEW a \in 0..MaxUnits, NEW b \in 0..MaxStamps
        PROVE  /\ a * i + b + 1 \in Times /\ a * i \in Nat
               /\ a * i + b + 1 < (a + 1) * i /\ (a + 1) * i = a * i + i
    <2>1. a \in Nat /\ b \in Nat /\ a + 1 \in Nat /\ a + 1 <= MaxUnits + 1 /\ a <= MaxUnits /\ MaxUnits + 1 \in Nat
      BY <1>1
    <2>2. a * i \in Nat /\ (a + 1) * i = a * i + i /\ (a + 1) * i <= (MaxUnits + 1) * i
      BY <1>2, <2>1, ProductGrows
    <2>3. QED
      BY <1>1, <1>2, <1>3, <2>1, <2>2
  <1>6. QED
    BY <1>1, <1>4, <1>5 DEF i

-----------------------------------------------------------------------------
(* Types, and who has which job in hand *)

TickSteps == {"idle", "clearing", "deciding", "appending", "listing", "delivering",
              "submitting", "queueing", "recording"}
Ticks == [at : TickSteps, woke : BOOLEAN, view : States, todo : SUBSET Times, row : Times]
RunSteps == {"idle", "loading", "gated", "running", "ended", "told"}
RunHands == [at : RunSteps, read : States, row : Times]
CallHands == [at : {"idle", "pause", "resume", "run", "append"}, read : States, row : Times]

StoreOK ==
    /\ catchUp \in CatchUps /\ exists \in BOOLEAN /\ sched \in States
    /\ runs \in [Times -> RunStates] /\ job \in [Times -> JobStates]
ClockOK ==
    /\ unit \in 0..MaxUnits /\ used \in 0..MaxStamps /\ quiet \in BOOLEAN /\ wake \in BOOLEAN
    /\ calls \in 0..MaxCalls /\ faults \in 0..MaxFaults
HandsOK ==
    /\ tick \in Ticks /\ run \in RunHands /\ call \in [Users -> CallHands]
    /\ lock \in {"free", "tick", "run"}
    /\ lock = "tick" <=> tick.at # "idle"
    /\ lock = "run" <=> run.at # "idle"
HistoryOK ==
    /\ ran \in [Times -> 0..2] /\ asked \in SUBSET Times
    /\ stale \in BOOLEAN /\ wanted \in BOOLEAN
Typed == StoreOK /\ ClockOK /\ HandsOK /\ HistoryOK

\* A job is done as often as it was run, and nobody starts one that is done.
Once ==
    /\ \A s \in Times : ran[s] = IF job[s] = "done" THEN 1 ELSE 0
    /\ tick.at = "queueing" => job[tick.row] = "created"
    /\ tick.at = "recording" => job[tick.row] # "none"
    /\ run.at \in {"loading", "gated"} => job[run.row] \in {"queued", "cancelled"}
    /\ run.at = "running" => job[run.row] = "running"
    /\ run.at # "idle" => job[run.row] # "none"
    /\ \A s \in Times : job[s] = "running" => run.at = "running" /\ run.row = s

\* Now is a time of the calendar, and of the interval that runs.
LEMMA NowIs == ClockOK => Now \in Times /\ Now \in Nat /\ Now < (unit + 1) * Interval
  BY Clock DEF ClockOK, Now

\* What has nothing in hand is idle.
LEMMA Empty ==
    /\ Fresh \in States /\ NoTick \in Ticks /\ NoRun \in RunHands /\ NoCall \in CallHands
    /\ NoTick.at = "idle" /\ NoRun.at = "idle" /\ NoCall.at = "idle"
  BY Clock DEF Fresh, NoTick, NoRun, NoCall, States, Pauses, Ticks, TickSteps, RunHands, RunSteps, CallHands

\* Replacing one field of a state keeps the other (save_state writes both).
LEMMA StateRows ==
    \A st \in States : /\ st.last \in Times /\ st.paused \in Pauses
                       /\ \A p \in Pauses : LET r == [st EXCEPT !.paused = p] IN r \in States /\ r.last = st.last /\ r.paused = p
                       /\ \A t \in Times : LET r == [st EXCEPT !.last = t] IN r \in States /\ r.last = t /\ r.paused = st.paused
  BY DEF States

\* What a step of the tick changes of its record.
LEMMA TickRows ==
    ASSUME NEW t \in Ticks
    PROVE  /\ t.view \in States /\ t.todo \in SUBSET Times /\ t.row \in Times /\ t.at \in TickSteps /\ t.woke \in BOOLEAN
           /\ \A a \in TickSteps : [t EXCEPT !.at = a] \in Ticks
           /\ \A a \in TickSteps, v \in States : [t EXCEPT !.at = a, !.view = v] \in Ticks
           /\ \A a \in TickSteps, d \in SUBSET Times : [t EXCEPT !.at = a, !.todo = d] \in Ticks
           /\ \A d \in SUBSET Times : [t EXCEPT !.todo = d] \in Ticks
           /\ \A d \in SUBSET Times, s \in Times : [t EXCEPT !.todo = d, !.row = s] \in Ticks
           /\ \A a \in TickSteps, d \in SUBSET Times, s \in Times : [t EXCEPT !.todo = d, !.row = s, !.at = a] \in Ticks
  BY DEF Ticks

\* The moments of the calendar lie between the last run and now.
LEMMA MomentsAre ==
    ASSUME ClockOK, NEW last \in Times, last <= Now
    PROVE  /\ Overdue(last) \in Nat
           /\ Overdue(last) = 0 => Now < last + Interval
           /\ Moments(last) \subseteq {s \in Times : last + Interval <= s /\ s <= Now}
           /\ Overdue(last) = 1 => Moments(last) = {last + Interval}
  <1> DEFINE i == Interval
             q == Overdue(last)
  <1>1. i \in Nat /\ i > 0 /\ last \in Nat /\ Now \in Nat /\ Now \in Times /\ Now - last \in Nat /\ MaxCatchUp \in Nat \ {0}
    BY Clock, NowIs, BoundsAssumption
  <1>2. q \in Nat /\ q * i <= Now - last /\ Now - last < (q + 1) * i
    BY <1>1, Quotient DEF Overdue
  <1>3. Moments(last) = {last + k * i : k \in {k \in 1..q : k > q - MaxCatchUp}}
    BY DEF Moments
  <1>4. \A s \in 0..Now : s \in Times
    <2>1. (MaxUnits + 1) * Interval \in Nat
      BY Clock
    <2>2. QED
      BY <1>1, <2>1 DEF Times
  <1> HIDE DEF i, q
  <1>5. ASSUME NEW k \in 1..q PROVE last + i <= last + k * i /\ last + k * i \in 0..Now
    <2>1. k \in Nat /\ 1 <= k /\ k <= q /\ 1 * i = i
      BY <1>1, <1>2
    <2>2. k * i \in Nat /\ i <= k * i /\ k * i <= q * i
      BY <1>1, <1>2, <2>1, ProductGrows
    <2>3. QED
      BY <1>1, <1>2, <2>2
  <1>6. Moments(last) \subseteq {s \in Times : last + i <= s /\ s <= Now}
    BY <1>1, <1>3, <1>4, <1>5
  <1>7. q = 0 => Now < last + i
    BY <1>1, <1>2
  <1>8. q = 1 => Moments(last) = {last + i}
    <2>1. ASSUME q = 1 PROVE {k \in 1..q : k > q - MaxCatchUp} = {1}
      BY <1>1, <2>1
    <2>2. 1 * i = i
      BY <1>1
    <2>3. QED
      BY <1>3, <2>1, <2>2
  <1>9. QED
    BY <1>2, <1>6, <1>7, <1>8 DEF i, q

\* Nothing the state holds lies in the future.
Past ==
    /\ sched.last <= Now /\ tick.view.last <= Now /\ tick.row <= Now /\ run.read.last <= Now
    /\ \A s \in tick.todo : s <= Now
    /\ \A u \in Users : call[u].read.last <= Now /\ call[u].row <= Now
    /\ \A s \in Times : runs[s] # "none" \/ job[s] # "none" \/ s \in asked => s <= Now

Base == Typed /\ Past /\ Once

\* What the proofs below take from the types.
LEMMA BaseFacts ==
    ASSUME Base
    PROVE  /\ tick \in Ticks /\ tick.view \in States /\ tick.todo \in SUBSET Times /\ tick.row \in Times
           /\ run \in RunHands /\ run.read \in States /\ run.row \in Times /\ sched \in States
           /\ Now \in Times /\ Now \in Nat /\ Times \subseteq Nat
           /\ sched.last \in Nat /\ tick.view.last \in Nat /\ tick.view.last \in Times
           /\ tick.view.paused \in Pauses /\ sched.paused \in Pauses
           /\ \A u \in Users : call[u] \in CallHands /\ call[u].read \in States /\ call[u].row \in Times
                               /\ call[u].read.last \in Nat
           /\ tick.todo # {} => First(tick.todo) \in tick.todo
           /\ runs \in [Times -> RunStates] /\ job \in [Times -> JobStates] /\ ran \in [Times -> 0..2]
  <1>1. tick \in Ticks /\ run \in RunHands /\ call \in [Users -> CallHands] /\ sched \in States
        /\ runs \in [Times -> RunStates] /\ job \in [Times -> JobStates] /\ ran \in [Times -> 0..2]
    BY DEF Base, Typed, HandsOK, StoreOK, HistoryOK
  <1>2. Now \in Times /\ Now \in Nat /\ Times \subseteq Nat
    BY NowIs, Clock DEF Base, Typed
  <1>3. tick.todo \in SUBSET Times /\ tick.view \in States /\ tick.row \in Times
    BY <1>1 DEF Ticks
  <1>4. tick.todo # {} => First(tick.todo) \in tick.todo
    BY <1>2, <1>3, LeastTime
  <1>5. run.read \in States /\ run.row \in Times
    BY <1>1 DEF RunHands
  <1>6. \A u \in Users : call[u] \in CallHands /\ call[u].read \in States /\ call[u].row \in Times
    BY <1>1 DEF CallHands
  <1>7. QED
    BY <1>1, <1>2, <1>3, <1>4, <1>5, <1>6, StateRows

\* Time goes on, and what was past stays so.
LEMMA LaterStill ==
    ASSUME Base, unit' = unit \/ (unit' = unit + 1 /\ unit < MaxUnits),
           used' = used \/ (used' = used + 1 /\ used < MaxStamps)
    PROVE  /\ unit' \in 0..MaxUnits /\ used' \in 0..MaxStamps /\ Now' \in Nat /\ Now' \in Times /\ Now <= Now'
  <1>1. unit \in 0..MaxUnits /\ used \in 0..MaxStamps
    BY DEF Base, Typed, ClockOK
  <1>2. unit' \in 0..MaxUnits /\ used' \in 0..MaxStamps
    BY <1>1, Clock
  <1>3. \A m, n \in Nat : m <= n => m * Interval <= n * Interval /\ m * Interval \in Nat /\ n * Interval \in Nat
    BY Clock, ProductGrows
  <1>4. unit \in Nat /\ unit' \in Nat /\ unit <= unit' /\ used \in Nat /\ used' \in Nat /\ used <= used'
    BY <1>1, <1>2, Clock
  <1>5. unit * Interval <= unit' * Interval /\ unit * Interval \in Nat /\ unit' * Interval \in Nat
    BY <1>3, <1>4
  <1>6. Now <= Now' /\ Now' \in Nat
    BY <1>4, <1>5 DEF Now
  <1>7. Now' \in Times
    BY <1>2, Clock DEF Now
  <1>8. QED
    BY <1>2, <1>6, <1>7

\* A state saved by another leaves a well-typed state.
LEMMA SaveKeeps ==
    ASSUME Base, NEW st \in States, NEW read \in States, Save(st, read)
    PROVE  /\ sched' \in States /\ sched' \in {sched, st} /\ stale' \in BOOLEAN
           /\ ~stale' => ~stale /\ (exists => sched = read /\ sched' = st) /\ (~exists => sched' = sched)
  <1>1. sched' \in States /\ sched' \in {sched, st}
    BY DEF Save, Base, Typed, StoreOK
  <1>2. stale' \in BOOLEAN
    BY DEF Save, Stale, Base, Typed, HistoryOK
  <1>3. ~stale' => ~stale /\ ~Stale(read)
    BY DEF Save
  <1>4. QED
    BY <1>1, <1>2, <1>3 DEF Stale, Save

\* The steps of a tick, from the lock to its end, its errors and its death.
LEMMA TickBase ==
    ASSUME Base, Tick \/ SubmitFails \/ BreakTick
    PROVE  Base'
  <1>0. /\ tick \in Ticks /\ tick.view \in States /\ tick.todo \in SUBSET Times /\ tick.row \in Times
        /\ sched \in States /\ Now \in Times /\ Now \in Nat /\ Times \subseteq Nat
        /\ tick.view.last \in Nat /\ tick.view.last \in Times
        /\ tick.view.paused \in Pauses /\ sched.paused \in Pauses
        /\ tick.todo # {} => First(tick.todo) \in tick.todo
        /\ runs \in [Times -> RunStates] /\ job \in [Times -> JobStates]
        /\ lock \in {"free", "tick", "run"} /\ (lock = "tick" <=> tick.at # "idle") /\ (lock = "run" <=> run.at # "idle")
    BY BaseFacts DEF Base, Typed, HandsOK
  <1>1. ASSUME tick' \in Ticks, tick'.at # "idle", tick.at # "idle", UNCHANGED <<lock, run, call>>
        PROVE  HandsOK'
    BY <1>1 DEF Base, Typed, HandsOK
  \* It only turns to its next step.
  <1>2. ASSUME UNCHANGED <<catchUp, exists, sched, runs, job, clocks, quiet, lock, run, call, bounds, histories>>,
               wake' \in BOOLEAN, NEW a \in TickSteps \ {"idle", "queueing", "recording"},
               NEW d \in SUBSET Times, NEW r \in Times, \A s \in d : s <= Now, r <= Now,
               tick.at # "idle", tick' \in Ticks, tick'.at = a, tick'.todo = d, tick'.row = r,
               tick'.view \in {tick.view, sched}
        PROVE  Base'
    <2>1. Now' = Now
      BY <1>2 DEF Now, clocks
    <2>2. StoreOK' /\ ClockOK' /\ HistoryOK'
      BY <1>2 DEF Base, Typed, StoreOK, ClockOK, HistoryOK, clocks, bounds, histories
    <2>3. HandsOK'
      BY <1>1, <1>2
    <2>4. Past'
      BY <1>2, <2>1 DEF Base, Past, histories
    <2>5. Once'
      BY <1>2 DEF Base, Once, histories
    <2>6. QED
      BY <2>2, <2>3, <2>4, <2>5 DEF Base, Typed
  <1>3. CASE BeginTick
    <2>1. tick' \in Ticks /\ tick'.at = "clearing" /\ tick'.view = Fresh /\ tick'.todo = {} /\ tick'.row = 0
      <3>1. wake \in BOOLEAN
        BY DEF Base, Typed, ClockOK
      <3>2. QED
        BY <1>3, <3>1, Empty DEF BeginTick, NoTick, Ticks, TickSteps
    <2>2. Now' = Now /\ Fresh.last = 0
      BY <1>3 DEF BeginTick, Now, clocks, Fresh
    <2>3. Typed'
      BY <1>0, <1>3, <2>1 DEF BeginTick, Base, Typed, StoreOK, ClockOK, HandsOK, HistoryOK, store, clocks, bounds, histories
    <2>4. Past'
      BY <1>0, <1>3, <2>1, <2>2 DEF BeginTick, Base, Past, store, clocks, histories
    <2>5. Once'
      BY <1>0, <1>3, <2>1 DEF BeginTick, Base, Once, store, histories
    <2>6. QED
      BY <2>3, <2>4, <2>5 DEF Base
  <1>4. CASE LoadState
    <2>1. /\ tick' \in Ticks /\ tick'.at \in {"deciding", "listing"} /\ tick'.todo = tick.todo /\ tick'.row = tick.row
          /\ tick'.view = sched
      BY <1>0, <1>4 DEF LoadState, Ticks, TickSteps
    <2>2. QED
      BY <1>0, <1>2, <1>4, <2>1 DEF LoadState, store, TickSteps, Base, Past
  <1>5. CASE SkipPaused \/ ListRows \/ TakeRow
    <2>1. \A s \in Requested : s \in Times /\ s <= Now
      BY DEF Requested, Base, Past
    <2>2. /\ tick' \in Ticks /\ tick'.at \in {"listing", "delivering", "submitting"} /\ tick'.view = tick.view
          /\ tick'.todo \subseteq tick.todo \cup Requested
          /\ tick'.row = tick.row \/ (tick'.row \in tick.todo)
      <3>1. CASE SkipPaused
        BY <1>0, <3>1 DEF SkipPaused, Ticks, TickSteps
      <3>2. CASE ListRows
        BY <1>0, <2>1, <3>2 DEF ListRows, Listed, Ticks, TickSteps
      <3>3. CASE TakeRow
        <4> DEFINE s == First(tick.todo)
                   d == tick.todo \ {s}
        <4>1. s \in tick.todo /\ s \in Times /\ d \in SUBSET Times /\ d \subseteq tick.todo
          BY <1>0, <3>3 DEF TakeRow
        <4>2. PICK a \in {"delivering", "submitting"} : tick' = [tick EXCEPT !.todo = d, !.row = s, !.at = a]
          BY <3>3 DEF TakeRow
        <4> HIDE DEF s, d
        <4>3. QED
          BY <1>0, <4>1, <4>2 DEF Ticks, TickSteps
      <3>4. QED
        BY <1>5, <3>1, <3>2, <3>3
    <2>3. UNCHANGED <<catchUp, exists, sched, runs, job, clocks, quiet, lock, run, call, bounds, histories>>
          /\ wake' = wake /\ wake \in BOOLEAN /\ tick.at # "idle"
      BY <1>5 DEF SkipPaused, ListRows, TakeRow, store, Base, Typed, ClockOK
    <2>4. tick'.todo \in SUBSET Times /\ tick'.row \in Times /\ tick'.row <= Now /\ \A s \in tick'.todo : s <= Now
      BY <1>0, <2>1, <2>2 DEF Base, Past
    <2>5. QED
      BY <1>2, <2>2, <2>3, <2>4 DEF TickSteps
  <1>6. CASE LiftPause \/ PauseQuiet \/ NothingDue \/ SaveRuns
    <2>1. PICK st \in States, a \in {"deciding", "listing"} : SaveAndGo(st, a) /\ st.last <= Now /\ UNCHANGED clocks
      <3>1. CASE LiftPause \/ PauseQuiet
        <4>1. [tick.view EXCEPT !.paused = "no"] \in States /\ [tick.view EXCEPT !.paused = "quiet"] \in States
              /\ [tick.view EXCEPT !.paused = "no"].last = tick.view.last
              /\ [tick.view EXCEPT !.paused = "quiet"].last = tick.view.last
          BY <1>0, StateRows DEF Pauses
        <4>2. QED
          BY <3>1, <4>1 DEF LiftPause, PauseQuiet, Base, Past
      <3>2. CASE NothingDue
        BY <1>0, <3>2 DEF NothingDue, Base, Past
      <3>3. CASE SaveRuns
        <4>1. [tick.view EXCEPT !.last = tick.row] \in States /\ [tick.view EXCEPT !.last = tick.row].last = tick.row
          BY <1>0, StateRows
        <4>2. QED
          BY <3>3, <4>1 DEF SaveRuns, Base, Past
      <3>4. QED
        BY <1>6, <3>1, <3>2, <3>3
    <2>2. sched' \in States /\ sched' \in {sched, st} /\ stale' \in BOOLEAN
      BY <1>0, <2>1, SaveKeeps DEF SaveAndGo
    <2>3. /\ tick' \in Ticks /\ tick'.at = a /\ tick'.view = st /\ tick'.todo = tick.todo /\ tick'.row = tick.row
          /\ tick.at # "idle"
      <3>1. tick' = [tick EXCEPT !.at = a, !.view = st] /\ tick.at # "idle"
        BY <1>6, <2>1 DEF SaveAndGo, LiftPause, PauseQuiet, NothingDue, SaveRuns
      <3>2. QED
        BY <1>0, <3>1 DEF Ticks, TickSteps
    <2>4. UNCHANGED <<catchUp, exists, runs, job, quiet, wake, lock, run, call, bounds, ran, asked, wanted>> /\ Now' = Now
      BY <2>1 DEF SaveAndGo, Now, clocks
    <2>5. StoreOK' /\ ClockOK' /\ HistoryOK'
      BY <2>1, <2>2, <2>4 DEF Base, Typed, StoreOK, ClockOK, HistoryOK, clocks, bounds
    <2>6. HandsOK'
      BY <1>1, <2>3, <2>4
    <2>7. Past'
      BY <2>1, <2>2, <2>3, <2>4 DEF Base, Past
    <2>8. Once'
      BY <2>3, <2>4 DEF Base, Once
    <2>9. QED
      BY <2>5, <2>6, <2>7, <2>8 DEF Base, Typed
  <1>7. CASE RequestRuns
    <2>1. used' = used \/ (used' = used + 1 /\ used < MaxStamps)
      BY <1>7 DEF RequestRuns
    <2>2. used' \in 0..MaxStamps /\ Now' \in Nat /\ Now <= Now'
      BY <1>7, <2>1, LaterStill DEF RequestRuns
    <2>3. PICK d \in SUBSET Times : tick' = [tick EXCEPT !.at = "appending", !.todo = d] /\ \A s \in d : s <= Now
      <3>1. Moments(tick.view.last) \subseteq {s \in Times : tick.view.last + Interval <= s /\ s <= Now}
        BY <1>0, MomentsAre DEF Base, Typed, Past
      <3>2. CASE Merged
        <4>1. {Now} \in SUBSET Times /\ \A s \in {Now} : s <= Now
          BY <1>0
        <4>2. QED
          BY <1>7, <3>2, <4>1 DEF RequestRuns
      <3>3. CASE ~Merged
        <4>1. Moments(tick.view.last) \in SUBSET Times /\ \A s \in Moments(tick.view.last) : s <= Now
          BY <3>1
        <4>2. QED
          BY <1>7, <3>3, <4>1 DEF RequestRuns
      <3>4. QED
        BY <3>2, <3>3
    <2>4. tick' \in Ticks /\ tick'.at = "appending" /\ tick'.todo = d /\ tick'.view = tick.view /\ tick'.row = tick.row
      BY <1>0, <2>3 DEF Ticks, TickSteps
    <2>5. UNCHANGED <<catchUp, exists, sched, runs, job, unit, quiet, wake, lock, run, call, calls, faults, ran, asked, stale, wanted>>
          /\ tick.at # "idle"
      BY <1>7 DEF RequestRuns, store, bounds, histories
    <2>6. StoreOK' /\ ClockOK' /\ HistoryOK' /\ HandsOK'
      BY <1>1, <2>2, <2>4, <2>5 DEF Base, Typed, StoreOK, ClockOK, HistoryOK
    <2>7. Past'
      <3>1. \A n \in Nat : n <= Now => n <= Now'
        BY <1>0, <2>2
      <3>2. /\ sched.last \in Nat /\ tick.view.last \in Nat /\ tick.row \in Nat /\ run.read.last \in Nat
            /\ \A u \in Users : call[u].read.last \in Nat /\ call[u].row \in Nat
        BY BaseFacts, StateRows
      <3>3. QED
        BY <1>0, <2>3, <2>4, <2>5, <3>1, <3>2 DEF Base, Past
    <2>8. Once'
      BY <2>4, <2>5 DEF Base, Once
    <2>9. QED
      BY <2>6, <2>7, <2>8 DEF Base, Typed
  <1>8. CASE AppendRun
    <2> DEFINE s == First(tick.todo)
               d == tick.todo \ {s}
    <2>1. s \in tick.todo /\ s \in Times /\ s <= Now /\ d \in SUBSET Times /\ d \subseteq tick.todo
      BY <1>0, <1>8 DEF AppendRun, Base, Past
    <2>2. tick' = [tick EXCEPT !.todo = d, !.row = s] /\ runs' = [runs EXCEPT ![s] = "requested"]
      BY <1>8 DEF AppendRun
    <2> HIDE DEF s, d
    <2>3. tick' \in Ticks /\ tick'.at = "appending" /\ tick'.todo = d /\ tick'.view = tick.view /\ tick'.row = s
          /\ tick.at # "idle"
      BY <1>0, <1>8, <2>1, <2>2 DEF Ticks, TickSteps, AppendRun
    <2>4. UNCHANGED <<catchUp, exists, sched, job, unit, used, quiet, wake, lock, run, call, calls, faults, ran, asked, wanted>>
          /\ stale' \in BOOLEAN /\ Now' = Now
      BY <1>8 DEF AppendRun, clocks, bounds, Base, Typed, HistoryOK, Stale, Now
    <2>5. runs' \in [Times -> RunStates] /\ \A t \in Times : runs'[t] # "none" => runs[t] # "none" \/ t = s
      BY <1>0, <2>1, <2>2 DEF RunStates
    <2>6. StoreOK' /\ ClockOK' /\ HistoryOK' /\ HandsOK'
      BY <1>1, <2>3, <2>4, <2>5 DEF Base, Typed, StoreOK, ClockOK, HistoryOK
    <2>7. Past'
      BY <2>1, <2>3, <2>4, <2>5 DEF Base, Past
    <2>8. Once'
      BY <2>3, <2>4 DEF Base, Once
    <2>9. QED
      BY <2>6, <2>7, <2>8 DEF Base, Typed
  <1>9. CASE DropRow \/ RecordRow \/ SubmitFails
    <2>1. PICK s \in Times, state \in RunStates : (Decided(s, state) \/ UNCHANGED runs)
      <3>0. "failed" \in RunStates /\ "skipped" \in RunStates /\ "cancelled" \in RunStates
        BY DEF RunStates
      <3>1. CASE DropRow
        <4>1. First(tick.todo) \in Times
          BY <1>0, <3>1 DEF DropRow
        <4>2. QED
          BY <3>0, <3>1, <4>1 DEF DropRow
      <3>2. CASE RecordRow
        <4>1. run.at = "idle" /\ job[tick.row] \in JobStates \ {"running"}
          BY <1>0, <3>2 DEF RecordRow, Base, Once
        <4>2. job[tick.row] \in RunStates
          BY <4>1 DEF JobStates, RunStates
        <4>3. QED
          BY <1>0, <3>2, <4>2 DEF RecordRow
      <3>3. CASE SubmitFails
        BY <1>0, <3>0, <3>3 DEF SubmitFails
      <3>4. QED
        BY <1>9, <3>1, <3>2, <3>3
    <2>2. runs' \in [Times -> RunStates] /\ \A t \in Times : runs'[t] # "none" => runs[t] # "none"
      BY <1>0, <2>1 DEF Decided
    <2>3. UNCHANGED <<catchUp, exists, sched, job, unit, used, quiet, wake, lock, run, call, calls, ran, asked, stale, wanted>>
          /\ faults' \in 0..MaxFaults /\ Now' = Now /\ tick.at # "idle"
      BY <1>9, BoundsAssumption DEF DropRow, RecordRow, SubmitFails, Fault, clocks, bounds, histories, Base, Typed, ClockOK, Now
    <2>4. tick' \in Ticks /\ tick'.at = "delivering" /\ tick'.todo \subseteq tick.todo /\ tick'.view = tick.view /\ tick'.row = tick.row
      <3>1. CASE DropRow
        <4> DEFINE d == tick.todo \ {First(tick.todo)}
        <4>1. d \in SUBSET Times /\ d \subseteq tick.todo /\ tick' = [tick EXCEPT !.todo = d] /\ tick.at = "delivering"
          BY <1>0, <3>1 DEF DropRow
        <4> HIDE DEF d
        <4>2. QED
          BY <1>0, <4>1 DEF Ticks, TickSteps
      <3>2. CASE RecordRow \/ SubmitFails
        <4>1. tick' = [tick EXCEPT !.at = "delivering"]
          BY <3>2 DEF RecordRow, SubmitFails
        <4>2. QED
          BY <1>0, <4>1 DEF Ticks, TickSteps
      <3>3. QED
        BY <1>9, <3>1, <3>2
    <2>5. StoreOK' /\ ClockOK' /\ HistoryOK' /\ HandsOK'
      BY <1>1, <2>2, <2>3, <2>4 DEF Base, Typed, StoreOK, ClockOK, HistoryOK
    <2>6. Past'
      BY <2>2, <2>3, <2>4 DEF Base, Past
    <2>7. Once'
      BY <2>3, <2>4 DEF Base, Once
    <2>8. QED
      BY <2>5, <2>6, <2>7 DEF Base, Typed
  <1>10. CASE SubmitJob \/ QueueJob
    <2>1. /\ UNCHANGED <<catchUp, exists, sched, runs, unit, used, quiet, wake, lock, run, call, calls, faults, ran, asked, stale, wanted>>
          /\ tick.at # "idle" /\ Now' = Now /\ run.at = "idle"
      BY <1>0, <1>10 DEF SubmitJob, QueueJob, clocks, bounds, histories, Now
    <2>2. /\ tick' \in Ticks /\ tick'.todo = tick.todo /\ tick'.view = tick.view /\ tick'.row = tick.row
          /\ \/ tick'.at = "recording" /\ job' = job /\ job[tick.row] # "none"
             \/ tick'.at = "queueing" /\ job[tick.row] = "none" /\ job' = [job EXCEPT ![tick.row] = "created"]
             \/ tick'.at = "recording" /\ job[tick.row] = "created" /\ job' = [job EXCEPT ![tick.row] = "queued"]
      <3>1. PICK a \in {"recording", "queueing"} : tick' = [tick EXCEPT !.at = a]
        BY <1>10 DEF SubmitJob, QueueJob
      <3>2. tick' \in Ticks /\ tick'.todo = tick.todo /\ tick'.view = tick.view /\ tick'.row = tick.row /\ tick'.at = a
        BY <1>0, <3>1 DEF Ticks, TickSteps
      <3>3. QED
        BY <1>0, <1>10, <3>2 DEF SubmitJob, QueueJob, Made, Base, Once, Ticks
    <2>3. /\ job' \in [Times -> JobStates]
          /\ \A t \in Times : (job'[t] = "done") = (job[t] = "done")
          /\ \A t \in Times : job'[t] # "none" => job[t] # "none" \/ t = tick.row
          /\ tick'.at = "queueing" => job'[tick.row] = "created"
          /\ tick'.at = "recording" => job'[tick.row] # "none"
      BY <1>0, <2>2 DEF JobStates
    <2>4. StoreOK' /\ ClockOK' /\ HistoryOK' /\ HandsOK'
      BY <1>1, <2>1, <2>2, <2>3 DEF Base, Typed, StoreOK, ClockOK, HistoryOK
    <2>5. Past'
      BY <2>1, <2>2, <2>3 DEF Base, Past
    <2>6. Once'
      BY <2>1, <2>2, <2>3 DEF Base, Once
    <2>7. QED
      BY <2>4, <2>5, <2>6 DEF Base, Typed
  <1>11. CASE EndTick \/ BreakTick
    <2>1. /\ UNCHANGED <<catchUp, exists, sched, runs, job, unit, used, quiet, run, call, calls, ran, asked, stale, wanted>>
          /\ tick' = NoTick /\ lock' = "free" /\ tick.at # "idle" /\ run.at = "idle"
          /\ faults' \in 0..MaxFaults /\ Now' = Now /\ wake' \in BOOLEAN
      <3>1. tick.woke \in BOOLEAN /\ wake \in BOOLEAN /\ faults \in 0..MaxFaults /\ MaxFaults \in Nat
        BY <1>0, TickRows, BoundsAssumption DEF Base, Typed, ClockOK
      <3>2. CASE EndTick
        BY <1>0, <3>1, <3>2 DEF EndTick, store, clocks, bounds, histories, Now
      <3>3. CASE BreakTick
        <4>1. wake' \in BOOLEAN
          BY <3>1, <3>3 DEF BreakTick
        <4>2. faults' \in 0..MaxFaults
          BY <3>1, <3>3 DEF BreakTick, Fault
        <4>3. QED
          BY <1>0, <3>3, <4>1, <4>2 DEF BreakTick, store, clocks, histories, Now
      <3>4. QED
        BY <1>11, <3>2, <3>3
    <2>2. NoTick \in Ticks /\ NoTick.at = "idle" /\ NoTick.view = Fresh /\ NoTick.todo = {} /\ NoTick.row = 0 /\ Fresh.last = 0
      BY Empty DEF NoTick, Fresh
    <2>3. StoreOK' /\ ClockOK' /\ HistoryOK' /\ HandsOK'
      BY <2>1, <2>2 DEF Base, Typed, StoreOK, ClockOK, HistoryOK, HandsOK
    <2>4. Past'
      BY <1>0, <2>1, <2>2 DEF Base, Past
    <2>5. Once'
      BY <2>1, <2>2 DEF Base, Once
    <2>6. QED
      BY <2>3, <2>4, <2>5 DEF Base, Typed
  <1>12. QED
    BY <1>3, <1>4, <1>5, <1>6, <1>7, <1>8, <1>9, <1>10, <1>11 DEF Tick

\* The execution of one job.
LEMMA ExecutionBase ==
    ASSUME Base, Execution \/ BreakRun
    PROVE  Base'
  <1>0. /\ run \in RunHands /\ run.read \in States /\ run.row \in Times /\ sched \in States
        /\ Now \in Nat /\ runs \in [Times -> RunStates] /\ job \in [Times -> JobStates] /\ ran \in [Times -> 0..2]
        /\ lock \in {"free", "tick", "run"} /\ (lock = "tick" <=> tick.at # "idle") /\ (lock = "run" <=> run.at # "idle")
        /\ tick \in Ticks
    BY BaseFacts DEF Base, Typed, HandsOK
  <1>3. Ended \in RunHands /\ Ended.at = "ended" /\ Ended.row = run.row /\ Ended.read = sched
    <2> DEFINE v == sched
    <2>1. v \in States
      BY <1>0
    <2>2. Ended = [run EXCEPT !.at = "ended", !.read = v]
      BY DEF Ended
    <2> HIDE DEF v
    <2>3. Ended \in RunHands /\ Ended.at = "ended" /\ Ended.row = run.row /\ Ended.read = v
      BY <1>0, <2>1, <2>2 DEF RunHands, RunSteps
    <2>4. QED
      BY <2>3 DEF v
  \* The runner holds the lock before and after.
  <1>4. ASSUME run.at # "idle", tick' = tick, call' = call, lock' = lock, run' \in RunHands, run'.at # "idle"
        PROVE  HandsOK'
    BY <1>0, <1>4 DEF Base, Typed, HandsOK
  <1>5. CASE Take
    <2>1. PICK s \in Times : job[s] = "queued" /\ run' = [at |-> "loading", read |-> sched, row |-> s]
      BY <1>5 DEF Take
    <2>2. run' \in RunHands /\ run'.at = "loading" /\ run'.row = s /\ run'.read = sched
      BY <1>0, <2>1 DEF RunHands, RunSteps
    <2>3. UNCHANGED <<catchUp, exists, sched, runs, job, unit, used, quiet, wake, tick, call, calls, faults, ran, asked, stale, wanted>>
          /\ lock = "free" /\ lock' = "run" /\ Now' = Now
      BY <1>5 DEF Take, store, clocks, bounds, histories, Now
    <2>4. StoreOK' /\ ClockOK' /\ HistoryOK'
      BY <2>3 DEF Base, Typed, StoreOK, ClockOK, HistoryOK
    <2>5. HandsOK'
      BY <1>0, <2>2, <2>3 DEF Base, Typed, HandsOK
    <2>6. Past'
      BY <2>2, <2>3 DEF Base, Past
    <2>7. Once'
      BY <1>0, <2>1, <2>2, <2>3 DEF Base, Once
    <2>8. QED
      BY <2>4, <2>5, <2>6, <2>7 DEF Base, Typed
  <1>6. CASE Refuse \/ Start \/ Finish
    <2>1. /\ UNCHANGED <<catchUp, exists, sched, runs, unit, used, quiet, wake, lock, tick, call, calls, faults, asked, stale, wanted>>
          /\ run.at \in {"loading", "gated", "running"} /\ Now' = Now /\ tick.at = "idle"
      BY <1>0, <1>6 DEF Refuse, Start, Finish, clocks, bounds, histories, Now
    <2>2. /\ run' \in RunHands /\ run'.row = run.row /\ run'.read \in {run.read, sched}
          /\ \/ /\ run'.at = "ended" /\ ran' = ran /\ run.at # "running"
                /\ \/ job' = job /\ job[run.row] # "queued"
                   \/ \E st \in {"cancelled", "failed"} : job' = [job EXCEPT ![run.row] = st]
             \/ /\ run'.at = "running" /\ ran' = ran /\ run.at # "running"
                /\ job[run.row] = "queued" /\ job' = [job EXCEPT ![run.row] = "running"]
             \/ /\ run'.at = "ended" /\ ran' = [ran EXCEPT ![run.row] = @ + 1] /\ run.at = "running"
                /\ job' = [job EXCEPT ![run.row] = "done"]
      <3>1. CASE Refuse
        BY <1>3, <3>1 DEF Refuse, histories
      <3>2. CASE Start
        <4>1. [run EXCEPT !.at = "running"] \in RunHands /\ [run EXCEPT !.at = "running"].at = "running"
              /\ [run EXCEPT !.at = "running"].row = run.row /\ [run EXCEPT !.at = "running"].read = run.read
          BY <1>0 DEF RunHands, RunSteps
        <4>2. QED
          BY <1>3, <3>2, <4>1 DEF Start, histories
      <3>3. CASE Finish
        BY <1>3, <3>3 DEF Finish
      <3>4. QED
        BY <1>6, <3>1, <3>2, <3>3
    <2>3. /\ \A s \in Times : ran[s] = IF job[s] = "done" THEN 1 ELSE 0
          /\ run.at \in {"loading", "gated"} => job[run.row] \in {"queued", "cancelled"}
          /\ run.at = "running" => job[run.row] = "running"
          /\ \A s \in Times : job[s] = "running" => run.at = "running" /\ run.row = s
      BY DEF Base, Once
    <2>4. /\ job' \in [Times -> JobStates] /\ ran' \in [Times -> 0..2] /\ job'[run.row] # "none"
          /\ \A s \in Times : ran'[s] = IF job'[s] = "done" THEN 1 ELSE 0
          /\ \A s \in Times : job'[s] # "none" => job[s] # "none"
          /\ run'.at = "running" => job'[run.row] = "running"
          /\ \A s \in Times : job'[s] = "running" => run'.at = "running" /\ run.row = s
      BY <1>0, <2>1, <2>2, <2>3 DEF JobStates
    <2>5. StoreOK' /\ ClockOK' /\ HistoryOK'
      BY <2>1, <2>4 DEF Base, Typed, StoreOK, ClockOK, HistoryOK
    <2>6. HandsOK'
      BY <1>4, <2>1, <2>2
    <2>7. Past'
      BY <2>1, <2>2, <2>4 DEF Base, Past
    <2>8. Once'
      BY <2>1, <2>2, <2>4 DEF Base, Once
    <2>9. QED
      BY <2>5, <2>6, <2>7, <2>8 DEF Base, Typed
  <1>7. CASE Admit \/ SaveLedger
    <2>1. UNCHANGED <<catchUp, exists, runs, job, unit, used, quiet, wake, lock, tick, call, calls, faults, ran, asked, wanted>>
          /\ Now' = Now /\ run.at \in {"loading", "ended"} /\ Save(run.read, run.read)
      BY <1>7 DEF Admit, SaveLedger, clocks, bounds, Now
    <2>2. sched' \in States /\ sched' \in {sched, run.read} /\ stale' \in BOOLEAN
      BY <1>0, <2>1, SaveKeeps
    <2>3. run' \in RunHands /\ run'.row = run.row /\ run'.read = run.read
          /\ run'.at = IF run.at = "loading" THEN "gated" ELSE "told"
      BY <1>0, <1>7 DEF Admit, SaveLedger, RunHands, RunSteps
    <2>4. StoreOK' /\ ClockOK' /\ HistoryOK'
      BY <2>1, <2>2 DEF Base, Typed, StoreOK, ClockOK, HistoryOK
    <2>5. HandsOK'
      BY <1>4, <2>1, <2>3
    <2>6. Past'
      BY <2>1, <2>2, <2>3 DEF Base, Past
    <2>7. Once'
      BY <2>1, <2>3 DEF Base, Once
    <2>8. QED
      BY <2>4, <2>5, <2>6, <2>7 DEF Base, Typed
  <1>8. CASE RecordRun \/ BreakRun
    <2>1. UNCHANGED <<catchUp, exists, sched, unit, used, quiet, wake, tick, call, calls, ran, asked, stale, wanted>>
          /\ Now' = Now /\ run' = NoRun /\ lock' = "free" /\ run.at # "idle" /\ tick.at = "idle"
          /\ faults' \in 0..MaxFaults
      <3>1. faults \in 0..MaxFaults /\ MaxFaults \in Nat
        BY BoundsAssumption DEF Base, Typed, ClockOK
      <3>2. QED
        BY <1>0, <1>8, <3>1 DEF RecordRun, BreakRun, Fault, clocks, bounds, histories, Now
    <2>2. NoRun \in RunHands /\ NoRun.at = "idle" /\ NoRun.read = Fresh /\ Fresh.last = 0
      BY Empty DEF NoRun, Fresh
    <2>3. /\ \A s \in Times : job[s] = "running" => run.at = "running" /\ run.row = s
          /\ job[run.row] # "none"
      BY <2>1 DEF Base, Once
    <2>4. /\ runs' \in [Times -> RunStates] /\ job' \in [Times -> JobStates]
          /\ \A s \in Times : (job'[s] = "done") = (job[s] = "done")
          /\ \A s \in Times : job'[s] # "none" => job[s] # "none"
          /\ \A s \in Times : job'[s] # "running"
          /\ \A s \in Times : runs'[s] # "none" => runs[s] # "none" \/ job[s] # "none"
      <3>1. CASE RecordRun
        <4>1. job[run.row] \in RunStates
          BY <1>0, <2>3, <3>1 DEF RecordRun, JobStates, RunStates
        <4>2. QED
          BY <1>0, <2>3, <3>1, <4>1 DEF RecordRun
      <3>2. CASE BreakRun
        BY <1>0, <2>3, <3>2 DEF BreakRun, JobStates
      <3>3. QED
        BY <1>8, <3>1, <3>2
    <2>5. StoreOK' /\ ClockOK' /\ HistoryOK'
      BY <2>1, <2>4 DEF Base, Typed, StoreOK, ClockOK, HistoryOK
    <2>6. HandsOK'
      BY <1>0, <2>1, <2>2 DEF Base, Typed, HandsOK
    <2>7. Past'
      BY <1>0, <2>1, <2>2, <2>4 DEF Base, Past
    <2>8. Once'
      BY <2>1, <2>2, <2>4 DEF Base, Once
    <2>9. QED
      BY <2>5, <2>6, <2>7, <2>8 DEF Base, Typed
  <1>9. QED
    BY <1>5, <1>6, <1>7, <1>8 DEF Execution

\* What a command may do: it takes or leaves something in hand, asks for a run,
\* saves a state, or appends the row of the run it asked for.
CommandStep(u, c) ==
    /\ UNCHANGED <<catchUp, exists, job, unit, quiet, wake, lock, tick, run, faults, ran>>
    /\ call' = [call EXCEPT ![u] = c]
    /\ calls' \in 0..MaxCalls /\ used' \in {used, used + 1} /\ (used' = used \/ used < MaxStamps)
    /\ sched' \in States /\ sched'.last <= Now'
    /\ stale' \in BOOLEAN /\ wanted' \in BOOLEAN
    /\ asked' \in {asked, asked \cup {Now}}
    /\ runs' \in {runs, [runs EXCEPT ![call[u].row] = "requested"]}

\* Whatever a command does of these, the types and the past stay.
LEMMA CommandKeeps ==
    ASSUME Base, NEW u \in Users, NEW c \in CallHands, c.row <= Now', c.read.last <= Now', CommandStep(u, c)
    PROVE  Base'
  <1>0. /\ call \in [Users -> CallHands] /\ call[u].row \in Times /\ call[u].row <= Now /\ Now \in Nat /\ Now \in Times
        /\ runs \in [Times -> RunStates]
    BY BaseFacts DEF Base, Typed, HandsOK, Past
  <1>1. unit' = unit /\ used' \in 0..MaxStamps /\ Now' \in Nat /\ Now' \in Times /\ Now <= Now'
    BY LaterStill DEF CommandStep
  <1>2. runs' \in [Times -> RunStates] /\ \A s \in Times : runs'[s] # "none" => runs[s] # "none" \/ s = call[u].row
    BY <1>0 DEF CommandStep, RunStates
  <1>3. StoreOK' /\ ClockOK'
    BY <1>1, <1>2 DEF CommandStep, Base, Typed, StoreOK, ClockOK
  <1>4. HistoryOK' /\ HandsOK'
    BY <1>0 DEF CommandStep, Base, Typed, HistoryOK, HandsOK
  <1>5. Past'
    <2>1. \A n \in Nat : n <= Now => n <= Now'
      BY <1>0, <1>1
    <2>2. /\ tick.view.last \in Nat /\ tick.row \in Nat /\ run.read.last \in Nat /\ tick.todo \subseteq Nat
          /\ \A v \in Users : call[v].read.last \in Nat /\ call[v].row \in Nat
      BY BaseFacts, StateRows
    <2>3. \A v \in Users : call'[v].read.last <= Now' /\ call'[v].row <= Now'
      BY <1>0, <2>1, <2>2 DEF CommandStep, Base, Past
    <2>4. \A s \in Times : runs'[s] # "none" \/ job'[s] # "none" \/ s \in asked' => s <= Now'
      <3>1. Times \subseteq Nat
        BY Clock
      <3>2. \A s \in Times : runs'[s] # "none" \/ job'[s] # "none" \/ s \in asked' => s <= Now
        BY <1>0, <1>2 DEF CommandStep, Base, Past
      <3>3. QED
        BY <2>1, <3>1, <3>2
    <2>5. QED
      BY <2>1, <2>2, <2>3, <2>4 DEF CommandStep, Base, Past
  <1>6. Once'
    BY DEF CommandStep, Base, Once
  <1>7. QED
    BY <1>3, <1>4, <1>5, <1>6 DEF Base, Typed

\* The commands of users.
LEMMA CommandBase ==
    ASSUME Base, NEW u \in Users, Command(u)
    PROVE  Base'
  <1>0. /\ call[u] \in CallHands /\ call[u].read \in States /\ call[u].row \in Times /\ call[u].read.last \in Nat
        /\ sched \in States /\ sched.last \in Nat /\ Now \in Nat /\ Now \in Times
        /\ call \in [Users -> CallHands] /\ calls \in 0..MaxCalls /\ MaxCalls \in Nat
        /\ call[u].row <= Now /\ call[u].read.last <= Now /\ sched.last <= Now
        /\ stale \in BOOLEAN /\ wanted \in BOOLEAN
    BY BaseFacts, BoundsAssumption DEF Base, Typed, HandsOK, ClockOK, Past, HistoryOK
  <1>1. NoCall \in CallHands /\ NoCall.row = 0 /\ NoCall.read.last = 0 /\ 0 <= Now
    BY <1>0, Empty DEF NoCall, Fresh
  <1>2. CASE Ask(u)
    <2>1. PICK what \in {"pause", "resume", "run"} :
             call' = [call EXCEPT ![u] = [at |-> what, read |-> sched, row |-> 0]]
      BY <1>2 DEF Ask
    <2> DEFINE c == [at |-> what, read |-> sched, row |-> 0]
    <2>2. c \in CallHands /\ c.row = 0 /\ c.read.last = sched.last /\ call' = [call EXCEPT ![u] = c]
      BY <1>0, <2>1, Clock DEF CallHands
    <2> HIDE DEF c
    <2>3. Now' = Now
      BY <1>2 DEF Ask, Now, clocks
    <2>4. CommandStep(u, c)
      <3>1. calls' \in 0..MaxCalls
        BY <1>0, <1>2 DEF Ask, Called
      <3>2. used \in {used, used + 1}
        OBVIOUS
      <3>3. UNCHANGED <<catchUp, exists, sched, runs, job, unit, used, quiet, wake, lock, tick, run, faults,
                        ran, asked, stale, wanted>>
        BY <1>2 DEF Ask, store, clocks, histories
      <3>4. QED
        BY <1>0, <2>2, <2>3, <3>1, <3>2, <3>3 DEF CommandStep
    <2>5. QED
      BY <1>0, <1>1, <2>2, <2>3, <2>4, CommandKeeps
  <1>3. CASE Pause(u)
    <2> DEFINE st == [call[u].read EXCEPT !.paused = "user"]
    <2>1. st \in States /\ st.last = call[u].read.last
      BY <1>0, StateRows DEF Pauses
    <2>2. Save(st, call[u].read)
      BY <1>3 DEF Pause
    <2> HIDE DEF st
    <2>3. sched' \in States /\ sched' \in {sched, st} /\ stale' \in BOOLEAN
      BY <1>0, <2>1, <2>2, SaveKeeps
    <2>4. Now' = Now
      BY <1>3 DEF Pause, Now, clocks
    <2>5. sched'.last <= Now'
      BY <1>0, <2>1, <2>3, <2>4
    <2>6. CommandStep(u, NoCall)
      BY <1>0, <1>3, <2>3, <2>5 DEF Pause, CommandStep, clocks, bounds
    <2>7. QED
      BY <1>0, <1>1, <2>4, <2>6, CommandKeeps
  <1>4. CASE Resume(u)
    <2> DEFINE st == [call[u].read EXCEPT !.paused = "no"]
    <2>1. st \in States /\ st.last = call[u].read.last
      BY <1>0, StateRows DEF Pauses
    <2>2. Save(st, call[u].read) \/ UNCHANGED <<sched, stale>>
      BY <1>4 DEF Resume
    <2> HIDE DEF st
    <2>3. sched' \in States /\ sched' \in {sched, st} /\ stale' \in BOOLEAN
      BY <1>0, <2>1, <2>2, SaveKeeps
    <2>4. Now' = Now
      BY <1>4 DEF Resume, Now, clocks
    <2>5. sched'.last <= Now'
      BY <1>0, <2>1, <2>3, <2>4
    <2>6. CommandStep(u, NoCall)
      BY <1>0, <1>4, <2>3, <2>5 DEF Resume, CommandStep, clocks, bounds
    <2>7. QED
      BY <1>0, <1>1, <2>4, <2>6, CommandKeeps
  <1>5. CASE RunNow(u)
    <2>0. UNCHANGED <<catchUp, exists, runs, job, unit, quiet, wake, lock, tick, run, calls, faults, ran, wanted>>
      BY <1>5 DEF RunNow, bounds
    <2>1. CASE Blocked(call[u].read)
      <3>1. call' = [call EXCEPT ![u] = NoCall] /\ UNCHANGED <<sched, stale, used, asked>>
        BY <1>5, <2>1 DEF RunNow
      <3>2. Now' = Now
        BY <2>0, <3>1 DEF Now
      <3>3. CommandStep(u, NoCall)
        BY <1>0, <2>0, <3>1, <3>2 DEF CommandStep
      <3>4. QED
        BY <1>0, <1>1, <3>2, <3>3, CommandKeeps
    <2>2. CASE ~Blocked(call[u].read)
      <3>1. /\ used < MaxStamps /\ used' = used + 1
            /\ Save([call[u].read EXCEPT !.last = Now], call[u].read)
            /\ asked' = asked \cup {Now}
            /\ call' = [call EXCEPT ![u].at = "append", ![u].row = Now]
        BY <1>5, <2>2 DEF RunNow
      <3> DEFINE st == [call[u].read EXCEPT !.last = Now]
                 c == [call[u] EXCEPT !.at = "append", !.row = Now]
      <3>2. st \in States /\ st.last = Now /\ Save(st, call[u].read)
        BY <1>0, <3>1, StateRows
      <3>3. call' = [call EXCEPT ![u] = c]
        BY <1>0, <3>1
      <3>4. c \in CallHands /\ c.row = Now /\ c.read = call[u].read
        BY <1>0 DEF CallHands
      <3> HIDE DEF c, st
      <3>5. sched' \in States /\ sched' \in {sched, st} /\ stale' \in BOOLEAN
        BY <1>0, <3>2, SaveKeeps
      <3>6. Now <= Now' /\ Now' \in Nat
        BY <2>0, <3>1, LaterStill
      <3>7. sched'.last <= Now
        BY <1>0, <3>2, <3>5
      <3>8. sched'.last \in Nat
        BY <3>5, StateRows, Clock
      <3>9. sched'.last <= Now' /\ c.row <= Now' /\ c.read.last <= Now'
        BY <1>0, <3>4, <3>6, <3>7, <3>8
      <3>10. CommandStep(u, c)
        BY <1>0, <2>0, <3>1, <3>3, <3>5, <3>9 DEF CommandStep
      <3>11. QED
        BY <3>4, <3>9, <3>10, CommandKeeps
    <2>3. QED
      BY <2>1, <2>2
  <1>6. CASE AppendNow(u)
    <2>1. Now' = Now
      BY <1>6 DEF AppendNow, Now, clocks
    <2>2. CommandStep(u, NoCall)
      BY <1>0, <1>6, <2>1 DEF AppendNow, CommandStep, clocks, bounds, histories
    <2>3. QED
      BY <1>0, <1>1, <2>1, <2>2, CommandKeeps
  <1>7. QED
    BY <1>2, <1>3, <1>4, <1>5, <1>6 DEF Command

\* Time, and what is done from outside.
LEMMA OutsideBase ==
    ASSUME Base, Remove \/ CancelJob \/ Tock \/ Shift \/ Awake \/ UNCHANGED schedVars
    PROVE  Base'
  <1>0. calls \in 0..MaxCalls /\ MaxCalls \in Nat /\ exists \in BOOLEAN /\ quiet \in BOOLEAN /\ wake \in BOOLEAN
        /\ job \in [Times -> JobStates]
    BY BoundsAssumption DEF Base, Typed, ClockOK, StoreOK
  <1>1. /\ UNCHANGED <<catchUp, sched, runs, lock, tick, run, call, faults, ran, asked, stale, wanted, used>>
        /\ calls' \in 0..MaxCalls /\ exists' \in BOOLEAN /\ quiet' \in BOOLEAN /\ wake' \in BOOLEAN
        /\ unit' = unit \/ (unit' = unit + 1 /\ unit < MaxUnits)
        /\ job' = job \/ \E s \in Times : job[s] = "queued" /\ job' = [job EXCEPT ![s] = "cancelled"]
    <2>0. Called => calls' \in 0..MaxCalls
      BY <1>0 DEF Called
    <2>1. CASE Remove
      <3>1. Called /\ exists' \in BOOLEAN /\ UNCHANGED <<quiet, wake, unit, job>>
        BY <2>1 DEF Remove, clocks
      <3>2. UNCHANGED <<catchUp, sched, runs, lock, tick, run, call, faults, ran, asked, stale, wanted, used>>
        BY <2>1 DEF Remove, clocks, histories
      <3>3. QED
        BY <1>0, <2>0, <3>1, <3>2
    <2>2. CASE CancelJob
      <3>1. Called /\ UNCHANGED <<exists, quiet, wake, unit>>
            /\ \E s \in Times : job[s] = "queued" /\ job' = [job EXCEPT ![s] = "cancelled"]
        BY <2>2 DEF CancelJob, clocks
      <3>2. UNCHANGED <<catchUp, sched, runs, lock, tick, run, call, faults, ran, asked, stale, wanted, used>>
        BY <2>2 DEF CancelJob, clocks, histories
      <3>3. QED
        BY <1>0, <2>0, <3>1, <3>2
    <2>3. CASE Tock
      BY <1>0, <2>3 DEF Tock, store, bounds, histories
    <2>4. CASE Shift
      BY <1>0, <2>0, <2>4 DEF Shift, store, clocks, histories
    <2>5. CASE Awake
      BY <1>0, <2>0, <2>5 DEF Awake, store, clocks, histories
    <2>6. CASE UNCHANGED schedVars
      BY <1>0, <2>6 DEF schedVars, store, clocks, bounds, histories
    <2>7. QED
      BY <2>1, <2>2, <2>3, <2>4, <2>5, <2>6
  <1>2. unit' \in 0..MaxUnits /\ used' \in 0..MaxStamps /\ Now' \in Nat /\ Now <= Now'
    BY <1>1, LaterStill
  <1>3. /\ job' \in [Times -> JobStates]
        /\ \A s \in Times : job'[s] # job[s] => job[s] = "queued" /\ job'[s] = "cancelled"
    BY <1>0, <1>1 DEF JobStates
  <1>4. StoreOK' /\ ClockOK' /\ HandsOK' /\ HistoryOK'
    BY <1>1, <1>2, <1>3 DEF Base, Typed, StoreOK, ClockOK, HandsOK, HistoryOK
  <1>5. Past'
    <2>1. /\ sched.last \in Nat /\ tick.view.last \in Nat /\ tick.row \in Nat /\ run.read.last \in Nat /\ Now \in Nat
          /\ tick.todo \subseteq Nat /\ Times \subseteq Nat
          /\ \A v \in Users : call[v].read.last \in Nat /\ call[v].row \in Nat
      BY BaseFacts, StateRows
    <2>2. \A n \in Nat : n <= Now => n <= Now'
      BY <1>2, <2>1
    <2>3. \A s \in Times : job'[s] # "none" => job[s] # "none"
      BY <1>3
    <2>4. QED
      BY <1>1, <2>1, <2>2, <2>3 DEF Base, Past
  <1>6. Once'
    <2>1. run.row \in Times /\ tick.row \in Times
      BY BaseFacts
    <2>2. QED
      BY <1>1, <1>3, <2>1 DEF Base, Once
  <1>7. QED
    BY <1>4, <1>5, <1>6 DEF Base, Typed

\* A new schedule has no rows and no jobs.
LEMMA BaseInit == SchedInit => Base
  <1> SUFFICES ASSUME SchedInit PROVE Base
    OBVIOUS
  <1>1. 0 \in 0..MaxUnits /\ 0 \in 0..MaxStamps /\ 0 \in 0..MaxCalls /\ 0 \in 0..MaxFaults /\ 0 \in Times
    BY BoundsAssumption, Clock
  <1>2. sched \in States /\ sched.last = 0 /\ Fresh.last = 0
    BY <1>1 DEF SchedInit, States, Pauses, Fresh
  <1>3. StoreOK
    BY <1>2 DEF SchedInit, StoreOK, RunStates, JobStates
  <1>4. ClockOK
    BY <1>1 DEF SchedInit, ClockOK
  <1>5. HandsOK
    BY Empty DEF SchedInit, HandsOK
  <1>6. HistoryOK
    <2>1. ran = [s \in Times |-> 0] /\ asked = {}
      BY DEF SchedInit
    <2>2. stale \in BOOLEAN /\ wanted \in BOOLEAN
      BY Zenon DEF SchedInit
    <2>3. ran \in [Times -> 0..2] /\ asked \in SUBSET Times
      BY <2>1
    <2>4. QED
      BY <2>2, <2>3, Zenon DEF HistoryOK
  <1>7. Now = 1
    BY Clock DEF SchedInit, Now
  <1>8. Past
    BY <1>2, <1>7 DEF SchedInit, Past, NoTick, NoRun, NoCall
  <1>9. Once
    BY Empty DEF SchedInit, Once
  <1>10. QED
    BY <1>3, <1>4, <1>5, <1>6, <1>8, <1>9 DEF Base, Typed

\* Every step keeps types, past and executions.
LEMMA BaseStep == Base /\ [SchedNext]_schedVars => Base'
  <1> SUFFICES ASSUME Base, [SchedNext]_schedVars PROVE Base'
    OBVIOUS
  <1>1. CASE Tick \/ SubmitFails \/ BreakTick
    BY <1>1, TickBase
  <1>2. CASE Execution \/ BreakRun
    BY <1>2, ExecutionBase
  <1>3. CASE \E u \in Users : Command(u)
    BY <1>3, CommandBase
  <1>4. CASE Remove \/ CancelJob \/ Tock \/ Shift \/ Awake \/ UNCHANGED schedVars
    BY <1>4, OutsideBase
  <1>5. QED
    BY <1>1, <1>2, <1>3, <1>4 DEF SchedNext

\* Every state of the schedule, its rows and its jobs is one the code can hold,
\* and the lock is held by the tick, by the runner, or by nobody (lock_file).
THEOREM SchedTypeCorrect == SchedSpec => []SchedTypeOK
  <1>1. SchedInit => Base
    BY BaseInit
  <1>2. Base /\ [SchedNext]_schedVars => Base'
    BY BaseStep
  <1>3. Base => SchedTypeOK
    BY DEF Base, Typed, StoreOK, ClockOK, HandsOK, HistoryOK, SchedTypeOK, Ticks, TickSteps, RunHands,
           RunSteps, CallHands
  <1>4. QED
    BY <1>1, <1>2, <1>3, PTL DEF SchedSpec

\* No run is executed twice, whatever crashes, errors, cancellations and repeated
\* requests come between its row and the end of its job (submit_schedule, _execute).
THEOREM RunsAreExecutedOnce == SchedSpec => []RunOnce
  <1>1. SchedInit => Base
    BY BaseInit
  <1>2. Base /\ [SchedNext]_schedVars => Base'
    BY BaseStep
  <1>3. Base => RunOnce
    BY DEF Base, Once, RunOnce
  <1>4. QED
    BY <1>1, <1>2, <1>3, PTL DEF SchedSpec

-----------------------------------------------------------------------------
(* Rows and jobs *)

Delivery == {"delivering", "submitting", "queueing", "recording"}
InHand == {"submitting", "queueing", "recording"}

\* A job has a row, a row that waits for the tick is requested, the row in hand
\* is no longer among those that wait, and no job is newer than a row about to
\* be submitted.  A command appends the row of a run it has asked for.
JobsHaveRows == \A s \in Times : job[s] # "none" => runs[s] # "none"
TodoRequested == tick.at \in Delivery => \A s \in tick.todo : runs[s] = "requested"
RowInHand == tick.at \in InHand => tick.row \notin tick.todo /\ runs[tick.row] # "none"
NewestInHand == tick.at = "submitting" /\ ~catchUp => \A s \in Times : job[s] # "none" => s <= tick.row
AskedFirst == \A u \in Users : call[u].at = "append" => call[u].row \in asked
Rows == JobsHaveRows /\ TodoRequested /\ RowInHand /\ NewestInHand /\ AskedFirst

\* What no step does to a row or a job, but to the ones named.
Appended(s) == (AppendRun /\ s = First(tick.todo)) \/ s \in asked
RowsGrow ==
    \A s \in Times : /\ runs[s] # "none" => runs'[s] # "none"
                     /\ runs'[s] # "none" => runs[s] # "none" \/ Appended(s)
                     /\ runs'[s] = "requested" => runs[s] = "requested" \/ Appended(s)
JobsGrow ==
    \A s \in Times : /\ job[s] # "none" => job'[s] # "none"
                     /\ job'[s] # "none" => job[s] # "none" \/ (SubmitJob /\ s = tick.row)

\* A row decided as another state than none.
LEMMA DecidedRows ==
    ASSUME runs \in [Times -> RunStates], NEW s \in Times, NEW state \in RunStates \ {"none", "requested"},
           Decided(s, state)
    PROVE  /\ RowsGrow /\ \A t \in Times : t # s => runs'[t] = runs[t]
  BY DEF Decided, RowsGrow, RunStates

\* A tick adds only the row it appends and only the job it submits.
LEMMA TickRowEffects ==
    ASSUME Base, Rows, Tick \/ SubmitFails \/ BreakTick
    PROVE  RowsGrow /\ JobsGrow
  <1>0. /\ runs \in [Times -> RunStates] /\ job \in [Times -> JobStates] /\ tick.todo \in SUBSET Times /\ tick.row \in Times
        /\ tick.todo # {} => First(tick.todo) \in tick.todo
    BY BaseFacts
  <1>1. ASSUME runs' = runs PROVE RowsGrow
    BY <1>1 DEF RowsGrow
  <1>2. ASSUME job' = job PROVE JobsGrow
    BY <1>2 DEF JobsGrow
  <1>3. CASE BeginTick \/ LoadState \/ SkipPaused \/ RequestRuns \/ ListRows \/ TakeRow \/ EndTick \/ BreakTick
    <2>1. runs' = runs /\ job' = job
      BY <1>3 DEF BeginTick, LoadState, SkipPaused, RequestRuns, ListRows, TakeRow, EndTick, BreakTick, store
    <2>2. QED
      BY <1>1, <1>2, <2>1
  <1>4. CASE LiftPause \/ PauseQuiet \/ NothingDue \/ SaveRuns
    <2>1. runs' = runs /\ job' = job
      BY <1>4 DEF LiftPause, PauseQuiet, NothingDue, SaveRuns, SaveAndGo
    <2>2. QED
      BY <1>1, <1>2, <2>1
  <1>5. CASE AppendRun
    <2> DEFINE s == First(tick.todo)
    <2>1. s \in Times /\ job' = job /\ runs' = [runs EXCEPT ![s] = "requested"]
      BY <1>0, <1>5 DEF AppendRun
    <2>2. Appended(s)
      BY <1>5 DEF Appended
    <2> HIDE DEF s
    <2>3. RowsGrow
      BY <1>0, <2>1, <2>2 DEF RowsGrow
    <2>4. QED
      BY <1>2, <2>1, <2>3
  <1>6. CASE DropRow
    <2> DEFINE s == First(tick.todo)
    <2>1. s \in Times /\ job' = job
      BY <1>0, <1>6 DEF DropRow
    <2>2. PICK state \in {"skipped", "cancelled"} : Decided(s, state)
      BY <1>6 DEF DropRow
    <2> HIDE DEF s
    <2>3. RowsGrow
      BY <1>0, <2>1, <2>2, DecidedRows DEF RunStates
    <2>4. QED
      BY <1>2, <2>1, <2>3
  <1>7. CASE SubmitJob
    <2>1. runs' = runs /\ (job' = job \/ job' = [job EXCEPT ![tick.row] = "created"])
      BY <1>7 DEF SubmitJob
    <2>2. JobsGrow
      BY <1>0, <1>7, <2>1 DEF JobsGrow, JobStates
    <2>3. QED
      BY <1>1, <2>1, <2>2
  <1>8. CASE QueueJob
    <2>1. runs' = runs /\ job' = [job EXCEPT ![tick.row] = "queued"] /\ job[tick.row] # "none"
      BY <1>8 DEF QueueJob, Base, Once
    <2>2. JobsGrow
      BY <1>0, <2>1 DEF JobsGrow
    <2>3. QED
      BY <1>1, <2>1, <2>2
  <1>9. CASE RecordRow
    <2>1. job' = job /\ job[tick.row] # "none" /\ Decided(tick.row, job[tick.row])
      BY <1>9 DEF RecordRow, Base, Once
    <2>2. job[tick.row] \in JobStates
      BY <1>0
    <2>3. RowsGrow
      BY <1>0, <2>1, <2>2 DEF Decided, RowsGrow, JobStates
    <2>4. QED
      BY <1>2, <2>1, <2>3
  <1>10. CASE SubmitFails
    <2>1. job' = job /\ (runs' = runs \/ Decided(tick.row, "failed"))
      BY <1>10 DEF SubmitFails
    <2>2. RowsGrow
      BY <1>0, <1>1, <2>1, DecidedRows DEF RunStates
    <2>3. QED
      BY <1>2, <2>1, <2>2
  <1>11. QED
    BY <1>3, <1>4, <1>5, <1>6, <1>7, <1>8, <1>9, <1>10 DEF Tick

\* No step forgets a row or a job, and none but the tick submits one.
LEMMA RowEffects ==
    ASSUME Base, Rows, [SchedNext]_schedVars
    PROVE  RowsGrow /\ JobsGrow /\ catchUp' = catchUp /\ asked \subseteq asked'
  <1>0. /\ runs \in [Times -> RunStates] /\ job \in [Times -> JobStates] /\ run.row \in Times
        /\ \A u \in Users : call[u].row \in Times
    BY BaseFacts
  <1>1. ASSUME runs' = runs PROVE RowsGrow
    BY <1>1 DEF RowsGrow
  <1>2. ASSUME job' = job PROVE JobsGrow
    BY <1>2 DEF JobsGrow
  <1>3. ASSUME Tick \/ SubmitFails \/ BreakTick PROVE RowsGrow /\ JobsGrow /\ catchUp' = catchUp /\ asked' = asked
    <2>1. catchUp' = catchUp /\ asked' = asked
      <3>1. CASE BeginTick \/ LoadState \/ SkipPaused \/ RequestRuns \/ ListRows \/ TakeRow \/ EndTick \/ BreakTick
        BY <3>1 DEF BeginTick, LoadState, SkipPaused, RequestRuns, ListRows, TakeRow, EndTick, BreakTick, histories
      <3>2. CASE LiftPause \/ PauseQuiet \/ NothingDue \/ SaveRuns
        BY <3>2 DEF LiftPause, PauseQuiet, NothingDue, SaveRuns, SaveAndGo
      <3>3. CASE AppendRun \/ DropRow \/ SubmitJob \/ QueueJob \/ RecordRow \/ SubmitFails
        BY <3>3 DEF AppendRun, DropRow, SubmitJob, QueueJob, RecordRow, SubmitFails, histories
      <3>4. QED
        BY <1>3, <3>1, <3>2, <3>3 DEF Tick
    <2>2. QED
      BY <1>3, <2>1, TickRowEffects
  <1>4. CASE Take \/ Refuse \/ Admit \/ Start \/ Finish \/ SaveLedger \/ BreakRun
    <2>1. runs' = runs /\ catchUp' = catchUp /\ asked' = asked
      BY <1>4 DEF Take, Refuse, Admit, Start, Finish, SaveLedger, BreakRun, store, histories
    <2>2. \A s \in Times : job'[s] = "none" <=> job[s] = "none"
      <3>1. run.at # "idle" => job[run.row] # "none"
        BY DEF Base, Once
      <3>2. CASE Take \/ Admit \/ SaveLedger
        BY <3>2 DEF Take, Admit, SaveLedger, store
      <3>3. CASE Refuse
        BY <1>0, <3>1, <3>3 DEF Refuse
      <3>4. CASE Start
        BY <1>0, <3>1, <3>4 DEF Start
      <3>5. CASE Finish
        BY <1>0, <3>1, <3>5 DEF Finish
      <3>6. CASE BreakRun
        BY <1>0, <3>1, <3>6 DEF BreakRun
      <3>7. QED
        BY <1>4, <3>2, <3>3, <3>4, <3>5, <3>6
    <2>3. JobsGrow
      BY <2>2 DEF JobsGrow
    <2>4. QED
      BY <1>1, <2>1, <2>3
  <1>5. CASE RecordRun
    <2>1. job' = job /\ catchUp' = catchUp /\ asked' = asked /\ runs' = [runs EXCEPT ![run.row] = job[run.row]]
          /\ run.at # "idle"
      BY <1>5 DEF RecordRun, histories
    <2>2. job[run.row] \in JobStates /\ job[run.row] # "none" /\ runs[run.row] # "none"
      BY <1>0, <2>1 DEF Base, Once, Rows, JobsHaveRows
    <2>3. RowsGrow
      BY <1>0, <2>1, <2>2 DEF RowsGrow, JobStates
    <2>4. QED
      BY <1>2, <2>1, <2>3
  <1>6. CASE \E u \in Users : Command(u)
    <2>1. PICK u \in Users : Command(u)
      BY <1>6
    <2>2. job' = job /\ catchUp' = catchUp /\ asked \subseteq asked'
          /\ (runs' = runs \/ (call[u].at = "append" /\ runs' = [runs EXCEPT ![call[u].row] = "requested"]))
      BY <2>1 DEF Command, Ask, Pause, Resume, RunNow, AppendNow, store, histories
    <2>3. call[u].at = "append" => Appended(call[u].row)
      BY DEF Rows, AskedFirst, Appended
    <2>4. RowsGrow
      BY <1>0, <1>1, <2>2, <2>3 DEF RowsGrow
    <2>5. QED
      BY <1>2, <2>2, <2>4
  <1>7. CASE Remove \/ CancelJob \/ Tock \/ Shift \/ Awake \/ UNCHANGED schedVars
    <2>1. runs' = runs /\ catchUp' = catchUp /\ asked' = asked
      BY <1>7 DEF Remove, CancelJob, Tock, Shift, Awake, schedVars, store, histories
    <2>2. job' = job \/ \E s \in Times : job[s] = "queued" /\ job' = [job EXCEPT ![s] = "cancelled"]
      BY <1>7 DEF Remove, CancelJob, Tock, Shift, Awake, schedVars, store
    <2>3. JobsGrow
      BY <1>0, <2>2 DEF JobsGrow
    <2>4. QED
      BY <1>1, <2>1, <2>3
  <1>8. QED
    BY <1>3, <1>4, <1>5, <1>6, <1>7 DEF SchedNext, Execution

\* The steps that are not the tick's leave its rows as they are.
LEMMA OtherRows ==
    ASSUME Base, Rows, Execution \/ BreakRun \/ (\E u \in Users : Command(u))
                       \/ Remove \/ CancelJob \/ Tock \/ Shift \/ Awake \/ UNCHANGED schedVars
    PROVE  /\ tick' = tick
           /\ tick.at = "idle" \/ \A s \in Times : runs[s] = "requested" => runs'[s] = "requested"
  <1>0. /\ runs \in [Times -> RunStates] /\ \A u \in Users : call[u].row \in Times
        /\ lock \in {"free", "tick", "run"} /\ (lock = "tick" <=> tick.at # "idle") /\ (lock = "run" <=> run.at # "idle")
    BY BaseFacts DEF Base, Typed, HandsOK
  <1>1. CASE Execution \/ BreakRun
    BY <1>0, <1>1 DEF Execution, Take, Refuse, Admit, Start, Finish, SaveLedger, RecordRun, BreakRun
  <1>2. CASE \E u \in Users : Command(u)
    <2>1. PICK u \in Users : Command(u)
      BY <1>2
    <2>2. tick' = tick /\ (runs' = runs \/ runs' = [runs EXCEPT ![call[u].row] = "requested"])
      BY <2>1 DEF Command, Ask, Pause, Resume, RunNow, AppendNow, store
    <2>3. QED
      BY <1>0, <2>2
  <1>3. CASE Remove \/ CancelJob \/ Tock \/ Shift \/ Awake \/ UNCHANGED schedVars
    BY <1>3 DEF Remove, CancelJob, Tock, Shift, Awake, schedVars, store
  <1>4. QED
    BY <1>1, <1>2, <1>3

\* run_now notes the run before it appends the row.
LEMMA AskedFirstStep ==
    ASSUME Base, Rows, [SchedNext]_schedVars
    PROVE  AskedFirst'
  <1>0. call \in [Users -> CallHands] /\ asked \subseteq asked'
    BY RowEffects DEF Base, Typed, HandsOK
  <1>1. ASSUME call' = call PROVE AskedFirst'
    BY <1>0, <1>1 DEF Rows, AskedFirst
  <1>2. CASE Tick \/ SubmitFails \/ BreakTick
    <2>1. CASE BeginTick \/ LoadState \/ SkipPaused \/ RequestRuns \/ ListRows \/ TakeRow \/ EndTick \/ BreakTick
      BY <1>1, <2>1 DEF BeginTick, LoadState, SkipPaused, RequestRuns, ListRows, TakeRow, EndTick, BreakTick
    <2>2. CASE LiftPause \/ PauseQuiet \/ NothingDue \/ SaveRuns
      BY <1>1, <2>2 DEF LiftPause, PauseQuiet, NothingDue, SaveRuns, SaveAndGo
    <2>3. CASE AppendRun \/ DropRow \/ SubmitJob \/ QueueJob \/ RecordRow \/ SubmitFails
      BY <1>1, <2>3 DEF AppendRun, DropRow, SubmitJob, QueueJob, RecordRow, SubmitFails
    <2>4. QED
      BY <1>2, <2>1, <2>2, <2>3 DEF Tick
  <1>3. CASE Execution \/ BreakRun
    BY <1>1, <1>3 DEF Execution, Take, Refuse, Admit, Start, Finish, SaveLedger, RecordRun, BreakRun
  <1>4. CASE \E u \in Users : Command(u)
    <2>1. PICK u \in Users : Command(u)
      BY <1>4
    <2>2. \A v \in Users : v # u => call'[v] = call[v]
      BY <1>0, <2>1 DEF Command, Ask, Pause, Resume, RunNow, AppendNow
    <2>3. call'[u].at = "append" => call'[u].row \in asked'
      <3>1. CASE Ask(u)
        <4>1. PICK what \in {"pause", "resume", "run"} :
                 call' = [call EXCEPT ![u] = [at |-> what, read |-> sched, row |-> 0]]
          BY <3>1 DEF Ask
        <4>2. QED
          BY <1>0, <4>1
      <3>2. CASE Pause(u) \/ Resume(u) \/ AppendNow(u)
        BY <1>0, <3>2, Empty DEF Pause, Resume, AppendNow
      <3>3. CASE RunNow(u)
        BY <1>0, <3>3, Empty DEF RunNow, CallHands
      <3>4. QED
        BY <2>1, <3>1, <3>2, <3>3 DEF Command
    <2>4. QED
      BY <1>0, <2>2, <2>3 DEF Rows, AskedFirst
  <1>5. CASE Remove \/ CancelJob \/ Tock \/ Shift \/ Awake \/ UNCHANGED schedVars
    BY <1>1, <1>5 DEF Remove, CancelJob, Tock, Shift, Awake, schedVars
  <1>6. QED
    BY <1>2, <1>3, <1>4, <1>5 DEF SchedNext

\* The tick lists what is requested, and takes a row no newer one replaced.
LEMMA TickRowsKept ==
    ASSUME Base, Rows, Tick \/ SubmitFails \/ BreakTick
    PROVE  TodoRequested' /\ RowInHand' /\ NewestInHand'
  <1>0. /\ tick \in Ticks /\ tick.todo \in SUBSET Times /\ tick.row \in Times
        /\ tick.todo # {} => First(tick.todo) \in tick.todo
        /\ runs \in [Times -> RunStates] /\ Times \subseteq Nat
    BY BaseFacts
  <1>1. RowsGrow /\ JobsGrow /\ catchUp' = catchUp
    BY RowEffects DEF SchedNext
  <1>2. ASSUME tick'.at \notin Delivery PROVE TodoRequested' /\ RowInHand' /\ NewestInHand'
    BY <1>2 DEF TodoRequested, RowInHand, NewestInHand, Delivery, InHand
  <1>3. CASE BeginTick \/ LoadState \/ SkipPaused \/ RequestRuns \/ AppendRun \/ EndTick \/ BreakTick
    <2>1. tick'.at \notin Delivery
      BY <1>0, <1>3, Empty DEF BeginTick, LoadState, SkipPaused, RequestRuns, AppendRun, EndTick, BreakTick, NoTick,
         Ticks, Delivery
    <2>2. QED
      BY <1>2, <2>1
  <1>4. CASE LiftPause \/ PauseQuiet \/ NothingDue \/ SaveRuns
    <2>1. tick'.at \notin Delivery
      BY <1>0, <1>4 DEF LiftPause, PauseQuiet, NothingDue, SaveRuns, SaveAndGo, Ticks, Delivery
    <2>2. QED
      BY <1>2, <2>1
  <1>5. CASE ListRows
    <2>1. tick'.at = "delivering" /\ tick'.todo = Requested /\ runs' = runs
      BY <1>0, <1>5 DEF ListRows, Listed, store, Ticks
    <2>2. QED
      BY <2>1 DEF Requested, TodoRequested, RowInHand, NewestInHand, InHand
  <1>6. CASE DropRow
    <2> DEFINE s == First(tick.todo)
    <2>1. s \in Times /\ tick'.at = "delivering" /\ tick'.todo = tick.todo \ {s} /\ tick.at \in Delivery
      BY <1>0, <1>6 DEF DropRow, Ticks, Delivery
    <2>2. PICK state \in {"skipped", "cancelled"} : Decided(s, state)
      BY <1>6 DEF DropRow
    <2> HIDE DEF s
    <2>3. \A t \in Times : t # s => runs'[t] = runs[t]
      BY <1>0, <2>1, <2>2, DecidedRows DEF RunStates
    <2>4. QED
      BY <1>0, <2>1, <2>3 DEF Rows, TodoRequested, RowInHand, NewestInHand, InHand
  <1>7. CASE TakeRow
    <2> DEFINE s == First(tick.todo)
               d == tick.todo \ {s}
    <2>1. s \in tick.todo /\ s \in Times /\ d \in SUBSET Times /\ s \notin d /\ runs' = runs /\ job' = job
          /\ tick.at \in Delivery
      BY <1>0, <1>7 DEF TakeRow, store, Delivery
    <2>2. PICK a \in {"delivering", "submitting"} : tick' = [tick EXCEPT !.todo = d, !.row = s, !.at = a]
      BY <1>7 DEF TakeRow
    <2>3. ~catchUp => \A t \in Times : t > s => runs[t] = "none"
      BY <1>7 DEF TakeRow, Replaced
    <2> HIDE DEF s, d
    <2>4. tick'.todo = d /\ tick'.row = s /\ tick'.at = a
      BY <1>0, <2>2 DEF Ticks
    <2>5. d \subseteq tick.todo
      BY DEF d
    <2>6. runs[s] = "requested" /\ \A t \in d : runs[t] = "requested"
      BY <2>1, <2>5 DEF Rows, TodoRequested
    <2>7. ~catchUp => \A t \in Times : job[t] # "none" => t <= s
      BY <1>0, <2>1, <2>3 DEF Rows, JobsHaveRows
    <2>8. QED
      BY <1>1, <2>1, <2>4, <2>6, <2>7 DEF TodoRequested, RowInHand, NewestInHand
  <1>8. CASE SubmitJob \/ QueueJob
    <2>1. tick.at \in InHand /\ tick'.at \in {"queueing", "recording"} /\ tick'.todo = tick.todo /\ tick'.row = tick.row
          /\ runs' = runs
      BY <1>0, <1>8 DEF SubmitJob, QueueJob, InHand, Ticks
    <2>2. QED
      BY <2>1 DEF Rows, TodoRequested, RowInHand, NewestInHand, InHand, Delivery
  <1>9. CASE RecordRow \/ SubmitFails
    <2>1. tick.at \in InHand /\ tick'.at = "delivering" /\ tick'.todo = tick.todo
      BY <1>0, <1>9 DEF RecordRow, SubmitFails, InHand, Ticks
    <2>2. \A t \in Times : t # tick.row => runs'[t] = runs[t]
      BY <1>0, <1>9 DEF RecordRow, SubmitFails, Decided
    <2>3. QED
      BY <1>0, <2>1, <2>2 DEF Rows, TodoRequested, RowInHand, NewestInHand, InHand, Delivery
  <1>10. QED
    BY <1>3, <1>4, <1>5, <1>6, <1>7, <1>8, <1>9 DEF Tick

\* Every step keeps rows and jobs together.
LEMMA RowsStep == Base /\ Rows /\ [SchedNext]_schedVars => Rows'
  <1> SUFFICES ASSUME Base, Rows, [SchedNext]_schedVars PROVE Rows'
    OBVIOUS
  <1>1. RowsGrow /\ JobsGrow /\ catchUp' = catchUp
    BY RowEffects
  <1>2. JobsHaveRows'
    <2>1. SubmitJob => runs[tick.row] # "none"
      BY DEF SubmitJob, Rows, RowInHand, InHand
    <2>2. QED
      BY <1>1, <2>1 DEF Rows, JobsHaveRows, RowsGrow, JobsGrow
  <1>3. AskedFirst'
    BY AskedFirstStep
  <1>4. CASE Tick \/ SubmitFails \/ BreakTick
    BY <1>2, <1>3, <1>4, TickRowsKept DEF Rows
  <1>5. CASE ~(Tick \/ SubmitFails \/ BreakTick)
    <2>1. /\ tick' = tick
          /\ tick.at = "idle" \/ \A s \in Times : runs[s] = "requested" => runs'[s] = "requested"
      BY <1>5, OtherRows DEF SchedNext
    <2>2. tick.todo \in SUBSET Times /\ tick.row \in Times
      BY BaseFacts
    <2>3. TodoRequested'
      BY <2>1, <2>2 DEF Rows, TodoRequested, Delivery
    <2>4. RowInHand'
      BY <1>1, <2>1, <2>2 DEF Rows, RowInHand, RowsGrow
    <2>5. NewestInHand'
      BY <1>1, <1>5, <2>1 DEF Rows, NewestInHand, JobsGrow, Tick
    <2>6. QED
      BY <1>2, <1>3, <2>3, <2>4, <2>5 DEF Rows
  <1>6. QED
    BY <1>4, <1>5

\* Nothing is requested at first.
LEMMA RowsInit == SchedInit => Rows
  <1> SUFFICES ASSUME SchedInit PROVE Rows
    OBVIOUS
  <1>1. tick.at = "idle" /\ (\A u \in Users : call[u].at = "idle") /\ \A s \in Times : job[s] = "none"
    BY Empty DEF SchedInit
  <1>2. QED
    BY <1>1 DEF Rows, JobsHaveRows, TodoRequested, RowInHand, NewestInHand, AskedFirst, Delivery, InHand

\* The rows of every reachable state.
LEMMA RowsAlways == SchedSpec => [](Base /\ Rows)
  <1>1. SchedInit => Base /\ Rows
    BY BaseInit, RowsInit
  <1>2. (Base /\ Rows) /\ [SchedNext]_schedVars => (Base /\ Rows)'
    BY BaseStep, RowsStep
  <1>3. QED
    BY <1>1, <1>2, PTL DEF SchedSpec

\* Without catch-up no job is submitted for a run older than one already
\* submitted, for any number of commands, crashes and rows left behind (_tick).
THEOREM JobsComeInOrder == SchedSpec => NoOldAfterNewer
  <1> DEFINE Newer == ~catchUp => \A s \in Submitted' \ Submitted : \A t \in Submitted : t < s
  <1>1. Base /\ Rows /\ [SchedNext]_schedVars => Newer
    <2> SUFFICES ASSUME Base, Rows, [SchedNext]_schedVars, ~catchUp,
                        NEW s \in Submitted' \ Submitted, NEW t \in Submitted
                 PROVE  t < s
      OBVIOUS
    <2>1. s \in Times /\ t \in Times /\ job'[s] # "none" /\ job[s] = "none" /\ job[t] # "none" /\ Times \subseteq Nat
      BY Clock DEF Submitted
    <2>2. SubmitJob /\ s = tick.row
      BY <2>1, RowEffects DEF JobsGrow
    <2>3. tick.at = "submitting"
      BY <2>2 DEF SubmitJob
    <2>4. t <= s
      BY <2>1, <2>2, <2>3 DEF Rows, NewestInHand
    <2>5. QED
      BY <2>1, <2>4
  <1>2. QED
    <2> HIDE DEF Newer
    <2>1. SchedSpec => [](Base /\ Rows)
      BY RowsAlways
    <2>2. SchedSpec => [][Newer]_schedVars
      BY <1>1, <2>1, PTL DEF SchedSpec
    <2>3. QED
      BY <2>2 DEF Newer, NoOldAfterNewer

-----------------------------------------------------------------------------
(* What the calendar has submitted, by the state it kept *)

\* The jobs of the calendar, and whether the state allows for one more.
Counted == Submitted \ asked
Many == Cardinality(Counted)
Covered == (Many + 1) * Interval <= sched.last
Kept == ~catchUp /\ ~stale

\* The newest row of all, when the calendar requested it and it has no job.
Waiting(t) ==
    /\ runs[t] = "requested" /\ t \notin asked /\ job[t] = "none"
    /\ \A s \in Times : s > t => runs[s] = "none"

\* Every job of the calendar has cost an interval; a row that is left is paid
\* for, or lies an interval beyond the last run that was saved.
Paid == Kept => Many * Interval <= sched.last
LeftOver == Kept /\ exists => \A t \in Times : Waiting(t) => Covered \/ t >= sched.last + Interval
LeftToTick ==
    Kept /\ exists /\ tick.at \in {"listing", "delivering"} /\ tick.view.paused = "no" =>
        \A t \in Times : Waiting(t) => Covered
PaidInHand ==
    Kept /\ tick.at \in InHand =>
        /\ tick.at = "submitting" /\ job[tick.row] = "none" /\ tick.row \notin asked => Covered
        /\ \A t \in Times : t > tick.row /\ runs[t] # "none" => t \in asked
OneToAppend ==
    ~catchUp /\ tick.at = "appending" =>
        /\ tick.view.paused = "no"
        /\ \E t \in Times : t >= tick.view.last + Interval /\ (tick.todo = {t} \/ (tick.todo = {} /\ tick.row = t))
Calendar == Paid /\ LeftOver /\ LeftToTick /\ PaidInHand /\ OneToAppend

Held == Base /\ Rows /\ Calendar

\* An occurrence is due when an interval has passed since the last run.
LEMMA DueSince ==
    ASSUME ClockOK, NEW last \in Times, last <= Now, Overdue(last) > 0
    PROVE  last + Interval <= Now
  <1> DEFINE i == Interval
             q == Overdue(last)
  <1>1. i \in Nat /\ i > 0 /\ last \in Nat /\ Now \in Nat /\ Now - last \in Nat
    BY Clock, NowIs
  <1>2. q \in Nat /\ q * i <= Now - last /\ 1 <= q
    BY <1>1, Quotient DEF Overdue
  <1> HIDE DEF i, q
  <1>3. q * i \in Nat /\ 1 * i <= q * i /\ 1 * i = i
    BY <1>1, <1>2, ProductGrows
  <1>4. QED
    BY <1>1, <1>2, <1>3 DEF i

\* The jobs of the calendar are finitely many.
LEMMA CountedIs ==
    /\ IsFiniteSet(Counted) /\ Many \in Nat /\ Many * Interval \in Nat /\ (Many + 1) * Interval = Many * Interval + Interval
  <1>1. IsFiniteSet(Counted) /\ Many \in Nat
    BY Clock, FS_Subset, FS_CardinalityType DEF Counted, Submitted, Many
  <1>2. QED
    BY <1>1, Clock, ProductGrows

\* Only a job that is not asked for counts, and one at a time.
LEMMA CountedGrows ==
    ASSUME Base, Rows, [SchedNext]_schedVars
    PROVE  /\ Many' \in Nat /\ Many' <= Many + 1
           /\ Many' <= Many \/ (SubmitJob /\ job[tick.row] = "none" /\ tick.row \notin asked /\ job'[tick.row] # "none")
  <1>1. JobsGrow /\ asked \subseteq asked'
    BY RowEffects
  <1>2. IsFiniteSet(Counted) /\ Many \in Nat /\ Many = Cardinality(Counted) /\ tick.row \in Times
    BY CountedIs, BaseFacts DEF Many
  <1>3. IsFiniteSet(Counted') /\ Many' \in Nat /\ Many' = Cardinality(Counted')
    BY Clock, FS_Subset, FS_CardinalityType DEF Counted, Submitted, Many
  <1>4. \A s \in Counted' : s \in Counted \/ (SubmitJob /\ s = tick.row /\ job[tick.row] = "none" /\ tick.row \notin asked /\ job'[tick.row] # "none")
    BY <1>1 DEF JobsGrow, Counted, Submitted
  <1>5. CASE Counted' \subseteq Counted
    BY <1>2, <1>3, <1>5, FS_Subset
  <1>6. CASE ~(Counted' \subseteq Counted)
    <2>1. SubmitJob /\ job[tick.row] = "none" /\ tick.row \notin asked /\ job'[tick.row] # "none"
      BY <1>4, <1>6
    <2>2. Counted' \subseteq Counted \cup {tick.row} /\ tick.row \notin Counted
      BY <1>4, <2>1 DEF Counted, Submitted
    <2>3. IsFiniteSet(Counted \cup {tick.row}) /\ Cardinality(Counted \cup {tick.row}) = Many + 1
      BY <1>2, <2>2, FS_AddElement
    <2>4. QED
      BY <1>2, <1>3, <2>1, <2>2, <2>3, FS_Subset
  <1>7. QED
    BY <1>5, <1>6

\* The last run moves to the row that the tick appended, or to the run that is
\* asked for now.
LastMoves ==
    /\ ~stale /\ (exists' => exists)
    /\ \/ sched'.last = sched.last
       \/ exists /\ SaveRuns /\ sched = tick.view /\ sched'.last = tick.row
       \/ sched'.last = Now /\ sched.last <= Now

\* Every save from a state that is still current moves the last run on.
LEMMA LastMovesOn ==
    ASSUME Base, [SchedNext]_schedVars, ~stale'
    PROVE  LastMoves
  <1>0. /\ sched \in States /\ sched.last \in Nat /\ sched.last <= Now /\ tick \in Ticks /\ tick.view \in States /\ tick.row \in Times
        /\ run.read \in States /\ \A u \in Users : call[u].read \in States
        /\ Now \in Times
    BY BaseFacts DEF Base, Past
  <1>1. ASSUME UNCHANGED <<exists, sched, stale>> PROVE LastMoves
    BY <1>1 DEF LastMoves
  <1>2. ASSUME NEW st \in States, NEW read \in States, Save(st, read), exists' = exists
        PROVE  ~stale /\ (exists => sched = read /\ sched' = st) /\ (~exists => sched' = sched)
    BY <1>2, SaveKeeps
  \* One that keeps the last run.
  <1>3. ASSUME NEW st \in States, NEW read \in States, Save(st, read), exists' = exists, st.last = read.last
        PROVE  LastMoves
    BY <1>2, <1>3 DEF LastMoves
  <1>4. CASE Tick \/ SubmitFails \/ BreakTick
    <2>1. CASE BeginTick \/ LoadState \/ SkipPaused \/ RequestRuns \/ ListRows \/ TakeRow \/ EndTick \/ BreakTick
      BY <1>1, <2>1 DEF BeginTick, LoadState, SkipPaused, RequestRuns, ListRows, TakeRow, EndTick, BreakTick, store,
         histories
    <2>2. CASE LiftPause \/ PauseQuiet \/ NothingDue
      <3>1. PICK p \in Pauses : Save([tick.view EXCEPT !.paused = p], tick.view) \/ Save(tick.view, tick.view)
        BY <2>2 DEF LiftPause, PauseQuiet, NothingDue, SaveAndGo, Pauses
      <3>2. exists' = exists
        BY <2>2 DEF LiftPause, PauseQuiet, NothingDue, SaveAndGo
      <3> DEFINE st == [tick.view EXCEPT !.paused = p]
      <3>3. st \in States /\ st.last = tick.view.last
        BY <1>0, StateRows
      <3> HIDE DEF st
      <3>4. Save(st, tick.view) \/ Save(tick.view, tick.view)
        BY <3>1 DEF st
      <3>5. QED
        BY <1>0, <1>3, <3>2, <3>3, <3>4
    <2>3. CASE SaveRuns
      <3> DEFINE st == [tick.view EXCEPT !.last = tick.row]
      <3>1. st \in States /\ st.last = tick.row /\ Save(st, tick.view) /\ exists' = exists
        BY <1>0, <2>3, StateRows DEF SaveRuns, SaveAndGo
      <3> HIDE DEF st
      <3>2. ~stale /\ (exists => sched = tick.view /\ sched' = st) /\ (~exists => sched' = sched)
        BY <1>0, <1>2, <3>1
      <3>3. QED
        BY <2>3, <3>1, <3>2 DEF LastMoves
    <2>4. CASE AppendRun
      <3>1. ~stale /\ exists' = exists /\ sched' = sched
        BY <2>4 DEF AppendRun
      <3>2. QED
        BY <3>1 DEF LastMoves
    <2>5. CASE DropRow \/ SubmitJob \/ QueueJob \/ RecordRow \/ SubmitFails
      BY <1>1, <2>5 DEF DropRow, SubmitJob, QueueJob, RecordRow, SubmitFails, histories
    <2>6. QED
      BY <1>4, <2>1, <2>2, <2>3, <2>4, <2>5 DEF Tick
  <1>5. CASE Execution \/ BreakRun
    <2>1. CASE Take \/ Refuse \/ Start \/ Finish \/ RecordRun \/ BreakRun
      BY <1>1, <2>1 DEF Take, Refuse, Start, Finish, RecordRun, BreakRun, store, histories
    <2>2. CASE Admit \/ SaveLedger
      <3>1. Save(run.read, run.read) /\ exists' = exists
        BY <2>2 DEF Admit, SaveLedger
      <3>2. QED
        BY <1>0, <1>3, <3>1
    <2>3. QED
      BY <1>5, <2>1, <2>2 DEF Execution
  <1>6. CASE \E u \in Users : Command(u)
    <2>1. PICK u \in Users : Command(u)
      BY <1>6
    <2>2. CASE UNCHANGED <<exists, sched, stale>>
      BY <1>1, <2>2
    <2>3. CASE Pause(u) \/ Resume(u)
      <3>1. exists' = exists
        BY <2>3 DEF Pause, Resume
      <3>2. UNCHANGED <<sched, stale>> \/ \E p \in Pauses : Save([call[u].read EXCEPT !.paused = p], call[u].read)
        BY <2>3 DEF Pause, Resume, Pauses
      <3>3. CASE UNCHANGED <<sched, stale>>
        BY <2>2, <3>1, <3>3
      <3>4. CASE \E p \in Pauses : Save([call[u].read EXCEPT !.paused = p], call[u].read)
        <4>1. PICK p \in Pauses : Save([call[u].read EXCEPT !.paused = p], call[u].read)
          BY <3>4
        <4> DEFINE st == [call[u].read EXCEPT !.paused = p]
        <4>2. st \in States /\ st.last = call[u].read.last /\ Save(st, call[u].read)
          BY <1>0, <4>1, StateRows
        <4> HIDE DEF st
        <4>3. QED
          BY <1>0, <1>3, <3>1, <4>2
      <3>5. QED
        BY <3>2, <3>3, <3>4
    <2>4. CASE RunNow(u)
      <3>1. exists' = exists
        BY <2>4 DEF RunNow
      <3>2. UNCHANGED <<sched, stale>> \/ Save([call[u].read EXCEPT !.last = Now], call[u].read)
        BY <2>4 DEF RunNow
      <3> DEFINE st == [call[u].read EXCEPT !.last = Now]
      <3>3. st \in States /\ st.last = Now
        BY <1>0, StateRows
      <3>4. UNCHANGED <<sched, stale>> \/ Save(st, call[u].read)
        BY <3>2
      <3> HIDE DEF st
      <3>5. Save(st, call[u].read) => ~stale /\ (exists => sched = call[u].read /\ sched' = st) /\ (~exists => sched' = sched)
        BY <1>0, <1>2, <3>1, <3>3
      <3>6. QED
        BY <1>0, <1>1, <3>1, <3>3, <3>4, <3>5 DEF LastMoves
    <2>5. CASE Ask(u) \/ AppendNow(u)
      BY <1>1, <2>5 DEF Ask, AppendNow, store, histories
    <2>6. QED
      BY <2>1, <2>3, <2>4, <2>5 DEF Command
  <1>7. CASE Remove \/ CancelJob \/ Tock \/ Shift \/ Awake \/ UNCHANGED schedVars
    <2>1. sched' = sched /\ stale' = stale /\ (exists' => exists)
      BY <1>7 DEF Remove, CancelJob, Tock, Shift, Awake, schedVars, store, histories
    <2>2. QED
      BY <2>1 DEF LastMoves
  <1>8. QED
    BY <1>4, <1>5, <1>6, <1>7 DEF SchedNext

\* The same, with the numbers.
LEMMA LastGrows ==
    ASSUME Base, [SchedNext]_schedVars, ~stale'
    PROVE  LastMoves /\ sched.last \in Nat /\ sched'.last \in Nat
  <1>1. LastMoves
    BY LastMovesOn
  <1>2. sched \in States /\ sched' \in States
    BY BaseStep DEF Base, Typed, StoreOK
  <1>3. QED
    BY <1>1, <1>2, StateRows, Clock

\* What held before a step after which the state is still nobody else's.
LEMMA KeptSoFar ==
    ASSUME Held, [SchedNext]_schedVars, Kept'
    PROVE  /\ Kept /\ (exists' => exists) /\ sched.last \in Nat /\ sched'.last \in Nat /\ sched.last <= sched'.last
           /\ \/ sched'.last = sched.last
              \/ exists /\ SaveRuns /\ sched.last + Interval <= sched'.last
              \/ sched'.last = Now
           /\ \A t \in Times : Waiting(t)' => Waiting(t) \/ (AppendRun /\ t = First(tick.todo))
           /\ Many' <= Many /\ Covered => Covered'
  <1>1. RowsGrow /\ JobsGrow /\ catchUp' = catchUp /\ asked \subseteq asked'
    BY RowEffects DEF Held
  <1>2. LastMoves /\ sched.last \in Nat /\ sched'.last \in Nat
    BY LastGrows DEF Held, Kept
  <1>3. Kept /\ (exists' => exists)
    BY <1>1, <1>2 DEF LastMoves, Kept
  <1>4. Interval \in Nat /\ Many \in Nat /\ Many' \in Nat /\ Times \subseteq Nat /\ tick.row \in Times
    BY Clock, CountedIs, CountedGrows, BaseFacts DEF Held
  <1>5. SaveRuns /\ sched = tick.view => sched.last + Interval <= tick.row
    <2>1. SUFFICES ASSUME SaveRuns, sched = tick.view PROVE sched.last + Interval <= tick.row
      OBVIOUS
    <2>2. tick.at = "appending" /\ tick.todo = {}
      BY <2>1 DEF SaveRuns
    <2>3. PICK t \in Times : t >= tick.view.last + Interval /\ (tick.todo = {t} \/ (tick.todo = {} /\ tick.row = t))
      BY <1>3, <2>2 DEF Held, Calendar, OneToAppend, Kept
    <2>4. tick.row = t
      BY <2>2, <2>3
    <2>5. QED
      BY <1>2, <1>4, <2>1, <2>3, <2>4
  <1>6. /\ sched.last <= sched'.last
        /\ \/ sched'.last = sched.last
           \/ exists /\ SaveRuns /\ sched.last + Interval <= sched'.last
           \/ sched'.last = Now
    BY <1>2, <1>4, <1>5 DEF LastMoves
  <1>7. ASSUME NEW t \in Times, Waiting(t)' PROVE Waiting(t) \/ (AppendRun /\ t = First(tick.todo))
    <2>1. runs'[t] = "requested" /\ t \notin asked' /\ job'[t] = "none" /\ \A s \in Times : s > t => runs'[s] = "none"
      BY <1>7 DEF Waiting
    <2>2. t \notin asked /\ job[t] = "none" /\ \A s \in Times : s > t => runs[s] = "none"
      BY <1>1, <2>1 DEF JobsGrow, RowsGrow
    <2>3. runs[t] = "requested" \/ (AppendRun /\ t = First(tick.todo))
      BY <1>1, <2>1, <2>2 DEF RowsGrow, Appended
    <2>4. QED
      BY <2>2, <2>3 DEF Waiting
  <1>8. ASSUME Many' <= Many, Covered PROVE Covered'
    <2>1. (Many' + 1) * Interval <= (Many + 1) * Interval /\ (Many' + 1) * Interval \in Nat /\ (Many + 1) * Interval \in Nat
      <3>1. Many' + 1 \in Nat /\ Many + 1 \in Nat /\ Many' + 1 <= Many + 1
        BY <1>4, <1>8 DEF Many
      <3> DEFINE m == Many' + 1
                 n == Many + 1
      <3> HIDE DEF m, n
      <3>2. m \in Nat /\ n \in Nat /\ m <= n
        BY <3>1 DEF m, n
      <3>3. m * Interval <= n * Interval /\ m * Interval \in Nat /\ n * Interval \in Nat
        BY <1>4, <3>2, ProductGrows
      <3>4. QED
        BY <3>3 DEF m, n
    <2>2. (Many + 1) * Interval <= sched.last /\ Interval' = Interval
      BY <1>8 DEF Covered, Interval
    <2>3. (Many' + 1) * Interval <= sched'.last
      BY <1>2, <1>6, <2>1, <2>2
    <2>4. QED
      BY <2>2, <2>3 DEF Covered
  <1>9. QED
    BY <1>2, <1>3, <1>6, <1>7, <1>8

\* An interval more pays for one job more.
LEMMA AnIntervalPays ==
    ASSUME Held, [SchedNext]_schedVars, Kept', Many' <= Many, sched.last + Interval <= sched'.last
    PROVE  Covered'
  <1>1. Kept /\ sched.last \in Nat /\ sched'.last \in Nat
    BY KeptSoFar
  <1>2. /\ Interval \in Nat /\ Many \in Nat /\ Many' \in Nat /\ Many * Interval \in Nat
        /\ (Many + 1) * Interval = Many * Interval + Interval
    BY Clock, CountedIs, CountedGrows DEF Held
  <1>3. Many * Interval <= sched.last
    BY <1>1 DEF Held, Calendar, Paid
  <1>4. Many' + 1 \in Nat /\ Many + 1 \in Nat /\ Many' + 1 <= Many + 1
    BY <1>2 DEF Many
  <1> DEFINE m == Many' + 1
             n == Many + 1
  <1>5. m \in Nat /\ n \in Nat /\ m <= n
    BY <1>4
  <1> HIDE DEF m, n
  <1>6. m * Interval <= n * Interval /\ m * Interval \in Nat /\ n * Interval \in Nat
    BY <1>2, <1>5, ProductGrows
  <1>7. m * Interval <= (Many + 1) * Interval
    BY <1>6 DEF n
  <1>8. m * Interval <= sched'.last
    BY <1>1, <1>2, <1>3, <1>6, <1>7
  <1>9. QED
    BY <1>8 DEF Covered, m, Interval

\* A job the calendar submits is paid for when its row is taken.
LEMMA PaidStep ==
    ASSUME Held, [SchedNext]_schedVars
    PROVE  Paid'
  <1>1. SUFFICES ASSUME Kept' PROVE (Many' * Interval <= sched.last')
    BY DEF Paid, Interval
  <1>2. /\ Kept /\ sched.last \in Nat /\ sched'.last \in Nat /\ sched.last <= sched'.last
    BY <1>1, KeptSoFar
  <1>3. Interval \in Nat /\ Many \in Nat /\ Many' \in Nat /\ Many * Interval \in Nat /\ (Many + 1) * Interval = Many * Interval + Interval
    BY Clock, CountedIs, CountedGrows DEF Held
  <1>4. \A m, n \in Nat : m <= n => m * Interval <= n * Interval /\ m * Interval \in Nat /\ n * Interval \in Nat
    BY <1>3, ProductGrows
  <1>5. CASE Many' <= Many
    <2>1. Many' * Interval <= Many * Interval /\ Many' * Interval \in Nat
      BY <1>3, <1>4, <1>5
    <2>2. Many * Interval <= sched.last
      BY <1>2 DEF Held, Calendar, Paid
    <2>3. QED
      BY <1>2, <1>3, <2>1, <2>2 DEF Many
  <1>6. CASE ~(Many' <= Many)
    <2>1. SubmitJob /\ job[tick.row] = "none" /\ tick.row \notin asked /\ Many' <= Many + 1
      BY <1>6, CountedGrows DEF Held
    <2>2. tick.at = "submitting"
      BY <2>1 DEF SubmitJob
    <2>3. Covered
      BY <1>2, <2>1, <2>2 DEF Held, Calendar, PaidInHand, InHand
    <2>4. Many' * Interval <= (Many + 1) * Interval /\ Many' * Interval \in Nat
      <3>1. Many + 1 \in Nat
        BY <1>3
      <3>2. QED
        BY <1>3, <1>4, <2>1, <3>1
    <2>5. QED
      BY <1>2, <1>3, <2>3, <2>4 DEF Covered, Many
  <1>7. QED
    BY <1>5, <1>6

\* The row in hand was the newest; no row of the calendar came after it.
LEMMA NoneSubmittedWaits ==
    ASSUME Held, [SchedNext]_schedVars, Kept', NEW t \in Times, Waiting(t)'
    PROVE  Many' <= Many
  <1>1. SUFFICES ASSUME SubmitJob, job'[tick.row] # "none" PROVE FALSE
    BY CountedGrows DEF Held
  <1>2. Kept /\ (Waiting(t) \/ AppendRun)
    BY KeptSoFar
  <1>3. tick.at = "submitting" /\ tick.row \in Times /\ tick.row \in Nat /\ t \in Nat
    BY <1>1, BaseFacts DEF SubmitJob, Held
  <1>4. Waiting(t) /\ job'[t] = "none"
    BY <1>2, <1>3 DEF AppendRun, Waiting
  <1>5. \A s \in Times : s > tick.row /\ runs[s] # "none" => s \in asked
    BY <1>2, <1>3 DEF Held, Calendar, PaidInHand, InHand
  <1>6. runs[tick.row] # "none"
    BY <1>3 DEF Held, Rows, RowInHand, InHand
  <1>7. runs[t] = "requested" /\ t \notin asked /\ \A s \in Times : s > t => runs[s] = "none"
    BY <1>4 DEF Waiting
  <1>8. ~(tick.row > t) /\ ~(t > tick.row)
    BY <1>3, <1>5, <1>6, <1>7
  <1>9. t = tick.row
    BY <1>3, <1>8
  <1>10. QED
    BY <1>1, <1>4, <1>9

\* A row that a crash leaves behind is paid for, or lies an interval ahead.
LEMMA LeftOverStep ==
    ASSUME Held, [SchedNext]_schedVars
    PROVE  LeftOver'
  <1>1. SUFFICES ASSUME Kept', exists', NEW t \in Times, Waiting(t)'
                 PROVE  Covered' \/ t >= sched'.last + Interval
    BY DEF LeftOver, Interval, Times
  <1>2. Many' <= Many
    BY <1>1, NoneSubmittedWaits
  <1>3. /\ Kept /\ exists /\ sched.last \in Nat /\ sched'.last \in Nat /\ sched.last <= sched'.last
        /\ \/ sched'.last = sched.last
           \/ SaveRuns /\ sched.last + Interval <= sched'.last
           \/ sched'.last = Now
        /\ Waiting(t) \/ (AppendRun /\ t = First(tick.todo))
        /\ Covered => Covered'
    BY <1>1, <1>2, KeptSoFar
  <1>4. /\ Interval \in Nat /\ Many \in Nat /\ Many' \in Nat /\ Many * Interval \in Nat
        /\ (Many + 1) * Interval = Many * Interval + Interval /\ t \in Nat /\ Now \in Nat
    BY Clock, CountedIs, CountedGrows, BaseFacts DEF Held
  <1>5. Many * Interval <= sched.last
    BY <1>3 DEF Held, Calendar, Paid
  <1>6. sched.last + Interval <= sched'.last => Covered'
    BY <1>1, <1>2, AnIntervalPays
  <1>7. CASE Waiting(t)
    <2>1. Covered \/ t >= sched.last + Interval
      BY <1>3, <1>7 DEF Held, Calendar, LeftOver
    <2>2. t <= Now
      BY <1>7 DEF Waiting, Held, Base, Past
    <2>3. CASE Covered
      BY <1>3, <2>3
    <2>4. CASE t >= sched.last + Interval
      BY <1>3, <1>4, <1>6, <2>2, <2>4
    <2>5. QED
      BY <2>1, <2>3, <2>4
  <1>8. CASE AppendRun /\ t = First(tick.todo)
    <2>1. tick.at = "appending" /\ tick.todo # {} /\ sched' = sched /\ ~Stale(tick.view)
      BY <1>1, <1>8 DEF AppendRun, Kept
    <2>2. sched = tick.view
      BY <1>3, <2>1 DEF Stale
    <2>3. PICK s \in Times : s >= tick.view.last + Interval /\ (tick.todo = {s} \/ (tick.todo = {} /\ tick.row = s))
      BY <1>3, <2>1 DEF Held, Calendar, OneToAppend, Kept
    <2>4. tick.todo = {s} /\ First(tick.todo) \in tick.todo
      BY <2>1, <2>3, BaseFacts DEF Held
    <2>5. t = s
      BY <1>8, <2>4
    <2>6. QED
      BY <2>1, <2>2, <2>3, <2>5
  <1>9. QED
    BY <1>3, <1>7, <1>8

\* The row that the tick takes or leaves is paid for.
LEMMA TakenIsPaid ==
    ASSUME Held, Kept, TakeRow, tick'.at = "submitting"
    PROVE  /\ tick'.row \in Times /\ tick.view.paused = "no"
           /\ job[tick'.row] = "none" /\ tick'.row \notin asked => Covered
           /\ \A t \in Times : t > tick'.row => runs[t] = "none"
  <1>0. tick \in Ticks /\ tick.todo \in SUBSET Times /\ (tick.todo # {} => First(tick.todo) \in tick.todo)
    BY BaseFacts DEF Held
  <1> DEFINE s == First(tick.todo)
             d == tick.todo \ {s}
  <1>1. s \in tick.todo /\ s \in Times /\ d \in SUBSET Times /\ exists /\ tick.at = "delivering" /\ ~Replaced(s)
    BY <1>0 DEF TakeRow
  <1>2. tick' = [tick EXCEPT !.todo = d, !.row = s, !.at = IF Blocked(tick.view) THEN "delivering" ELSE "submitting"]
    BY DEF TakeRow
  <1>3. \A t \in Times : t > s => runs[t] = "none"
    BY <1>1 DEF Replaced, Kept
  <1> HIDE DEF s, d
  <1>4. tick'.row = s /\ ~Blocked(tick.view)
    BY <1>0, <1>2 DEF Ticks
  <1>5. tick.view.paused = "no"
    BY <1>4 DEF Blocked
  <1>6. runs[s] = "requested"
    BY <1>1 DEF Held, Rows, TodoRequested, Delivery
  <1>7. job[s] = "none" /\ s \notin asked => Covered
    BY <1>1, <1>3, <1>5, <1>6 DEF Held, Calendar, LeftToTick, Waiting
  <1>8. QED
    BY <1>1, <1>3, <1>4, <1>5, <1>7

\* When a tick reaches the rows, the newest one left is paid for.
LEMMA LeftToTickStep ==
    ASSUME Held, [SchedNext]_schedVars
    PROVE  LeftToTick'
  <1>1. SUFFICES ASSUME Kept', exists', tick'.at \in {"listing", "delivering"}, tick'.view.paused = "no",
                        NEW t \in Times, Waiting(t)'
                 PROVE  Covered'
    BY DEF LeftToTick, Times, Interval
  <1>2. /\ Kept /\ exists /\ (Waiting(t) \/ (AppendRun /\ t = First(tick.todo)))
        /\ Covered => Covered'
        /\ sched.last \in Nat /\ sched'.last \in Nat
    BY <1>1, NoneSubmittedWaits, KeptSoFar
  <1>3. /\ tick \in Ticks /\ tick.view \in States /\ tick.todo \in SUBSET Times /\ tick.row \in Times /\ tick.row \in Nat
        /\ t \in Nat /\ Now \in Nat /\ Interval \in Nat /\ tick.view.last \in Times
    BY BaseFacts, Clock DEF Held
  <1>4. ASSUME tick.at \in {"listing", "delivering"}, tick.view.paused = "no" PROVE Covered'
    <2>1. Waiting(t)
      BY <1>2, <1>4 DEF AppendRun
    <2>2. QED
      BY <1>2, <1>4, <2>1 DEF Held, Calendar, LeftToTick
  <1>5. CASE tick' = tick
    BY <1>1, <1>4, <1>5
  <1>6. CASE BeginTick \/ RequestRuns \/ AppendRun \/ SubmitJob \/ QueueJob \/ EndTick \/ BreakTick
    <2>1. tick'.at \notin {"listing", "delivering"}
      BY <1>3, <1>6, Empty DEF BeginTick, RequestRuns, AppendRun, SubmitJob, QueueJob, EndTick, BreakTick, NoTick, Ticks
    <2>2. QED
      BY <1>1, <2>1
  <1>7. CASE LoadState
    BY <1>1, <1>2, <1>3, <1>7 DEF LoadState, Ticks
  <1>8. CASE SkipPaused
    BY <1>1, <1>3, <1>8 DEF SkipPaused, Ticks
  <1>9. CASE LiftPause
    BY <1>1, <1>3, <1>9 DEF LiftPause, SaveAndGo, Ticks
  <1>10. CASE PauseQuiet
    <2> DEFINE v == [tick.view EXCEPT !.paused = "quiet"]
    <2>1. v.paused = "quiet" /\ tick' = [tick EXCEPT !.at = "listing", !.view = v]
      BY <1>3, <1>10, StateRows DEF PauseQuiet, SaveAndGo, Pauses
    <2> HIDE DEF v
    <2>2. tick'.view = v
      BY <1>3, <2>1 DEF Ticks
    <2>3. QED
      BY <1>1, <2>1, <2>2
  <1>11. CASE NothingDue
    <2>1. Overdue(tick.view.last) = 0 /\ Save(tick.view, tick.view) /\ tick.at = "deciding"
      BY <1>11 DEF NothingDue, SaveAndGo
    <2>2. Now < tick.view.last + Interval
      BY <1>3, <2>1, MomentsAre DEF Held, Base, Typed, Past
    <2>3. sched = tick.view
      BY <1>1, <1>2, <1>3, <2>1, SaveKeeps DEF Held, Kept
    <2>4. Waiting(t)
      BY <1>2, <2>1 DEF AppendRun
    <2>5. Covered \/ t >= sched.last + Interval
      BY <1>2, <2>4 DEF Held, Calendar, LeftOver
    <2>6. t <= Now
      BY <2>4 DEF Waiting, Held, Base, Past
    <2>7. QED
      BY <1>2, <1>3, <2>2, <2>3, <2>5, <2>6
  <1>12. CASE SaveRuns
    <2>1. ~SubmitJob
      BY <1>12 DEF SaveRuns, SubmitJob
    <2>2. tick.at = "appending" /\ tick.todo = {} /\ Save([tick.view EXCEPT !.last = tick.row], tick.view)
      BY <1>12 DEF SaveRuns, SaveAndGo
    <2> DEFINE st == [tick.view EXCEPT !.last = tick.row]
    <2>3. st \in States /\ st.last = tick.row
      BY <1>3, StateRows
    <2>4. Save(st, tick.view)
      BY <2>2
    <2> HIDE DEF st
    <2>5. sched = tick.view /\ sched' = st
      BY <1>1, <1>2, <1>3, <2>3, <2>4, SaveKeeps DEF Held, Kept
    <2>6. PICK s \in Times : s >= tick.view.last + Interval /\ (tick.todo = {s} \/ (tick.todo = {} /\ tick.row = s))
      BY <1>2, <2>2 DEF Held, Calendar, OneToAppend, Kept
    <2>7. sched.last + Interval <= sched'.last
      BY <1>2, <1>3, <2>2, <2>3, <2>5, <2>6
    <2>8. Many' <= Many
      BY <1>1, NoneSubmittedWaits
    <2>9. QED
      BY <1>1, <2>7, <2>8, AnIntervalPays
  <1>13. CASE ListRows
    BY <1>1, <1>3, <1>4, <1>13 DEF ListRows, Ticks
  <1>14. CASE DropRow \/ TakeRow
    <2>1. tick.at = "delivering" /\ tick'.view = tick.view
      BY <1>3, <1>14 DEF DropRow, TakeRow, Ticks
    <2>2. QED
      BY <1>1, <1>4, <2>1
  <1>15. CASE RecordRow \/ SubmitFails
    <2>1. tick.at \in InHand
      BY <1>15 DEF RecordRow, SubmitFails, InHand
    <2>2. Waiting(t)
      BY <1>2, <2>1 DEF AppendRun, InHand
    <2>3. runs[t] = "requested" /\ t \notin asked /\ job[t] = "none" /\ \A s \in Times : s > t => runs[s] = "none"
      BY <2>2 DEF Waiting
    <2>4. runs[tick.row] # "none" /\ \A s \in Times : s > tick.row /\ runs[s] # "none" => s \in asked
      BY <1>2, <2>1 DEF Held, Rows, RowInHand, Calendar, PaidInHand
    <2>5. ~(tick.row > t) /\ ~(t > tick.row)
      BY <1>3, <2>3, <2>4
    <2>6. t = tick.row
      BY <1>3, <2>5
    <2>7. tick.at = "submitting"
      BY <2>1, <2>3, <2>6 DEF InHand, Held, Base, Once
    <2>8. Covered
      BY <1>2, <2>1, <2>3, <2>6, <2>7 DEF Held, Calendar, PaidInHand
    <2>9. QED
      BY <1>2, <2>8
  <1>16. CASE ~(Tick \/ SubmitFails \/ BreakTick)
    BY <1>5, <1>16, OtherRows DEF SchedNext, Held
  <1>17. QED
    BY <1>6, <1>7, <1>8, <1>9, <1>10, <1>11, <1>12, <1>13, <1>14, <1>15, <1>16 DEF Tick

\* The row in hand is the newest, and paid for, until its job is made.
LEMMA PaidInHandStep ==
    ASSUME Held, [SchedNext]_schedVars
    PROVE  PaidInHand'
  <1>1. SUFFICES ASSUME Kept', tick'.at \in InHand
                 PROVE  /\ tick'.at = "submitting" /\ job'[tick'.row] = "none" /\ tick'.row \notin asked' => Covered'
                        /\ \A t \in Times : t > tick'.row /\ runs'[t] # "none" => t \in asked'
    BY DEF PaidInHand, InHand, Times, Interval
  <1>2. /\ Kept /\ (Many' <= Many /\ Covered => Covered') /\ RowsGrow /\ JobsGrow /\ asked \subseteq asked'
    BY <1>1, KeptSoFar, RowEffects DEF Held
  <1>3. tick \in Ticks /\ tick.view \in States
    BY BaseFacts DEF Held
  <1>4. Many' <= Many \/ SubmitJob
    BY CountedGrows DEF Held
  <1>5. CASE tick' = tick
    <2>1. ~AppendRun /\ (tick.at = "submitting" => ~SubmitJob)
      <3>1. tick.at \in InHand
        BY <1>1, <1>5
      <3>2. SubmitJob => tick'.at \in {"queueing", "recording"}
        BY <1>3 DEF SubmitJob, Ticks
      <3>3. QED
        BY <1>5, <3>1, <3>2 DEF AppendRun, InHand
    <2>2. \A t \in Times : runs'[t] # "none" => runs[t] # "none" \/ t \in asked
      BY <1>2, <2>1 DEF RowsGrow, Appended
    <2>3. tick.row \in Times
      BY BaseFacts DEF Held
    <2>4. job'[tick.row] = "none" => job[tick.row] = "none"
      BY <1>2, <2>3 DEF JobsGrow
    <2>5. QED
      BY <1>1, <1>2, <1>4, <1>5, <2>1, <2>2, <2>4 DEF Held, Calendar, PaidInHand
  <1>6. CASE TakeRow
    <2>1. tick'.at = "submitting"
      BY <1>1, <1>3, <1>6 DEF TakeRow, Ticks, InHand
    <2>2. runs' = runs /\ job' = job /\ ~SubmitJob
      BY <1>6 DEF TakeRow, store, SubmitJob
    <2>3. /\ job[tick'.row] = "none" /\ tick'.row \notin asked => Covered
          /\ \A t \in Times : t > tick'.row => runs[t] = "none"
      BY <1>2, <1>6, <2>1, TakenIsPaid
    <2>4. QED
      BY <1>2, <1>4, <2>2, <2>3
  <1>7. CASE SubmitJob \/ QueueJob
    <2>1. tick.at \in InHand /\ tick'.row = tick.row /\ tick'.at # "submitting" /\ ~AppendRun
      BY <1>3, <1>7 DEF SubmitJob, QueueJob, InHand, Ticks, AppendRun
    <2>2. \A t \in Times : runs'[t] # "none" => runs[t] # "none" \/ t \in asked
      BY <1>2, <2>1 DEF RowsGrow, Appended
    <2>3. QED
      BY <1>2, <2>1, <2>2 DEF Held, Calendar, PaidInHand
  <1>8. CASE ~(TakeRow \/ SubmitJob \/ QueueJob) /\ (Tick \/ SubmitFails \/ BreakTick)
    <2>1. tick'.at \notin InHand
      <3>1. CASE BeginTick \/ LoadState \/ SkipPaused \/ RequestRuns \/ AppendRun \/ EndTick \/ BreakTick
        BY <1>3, <3>1, Empty DEF BeginTick, LoadState, SkipPaused, RequestRuns, AppendRun, EndTick, BreakTick, NoTick,
           Ticks, InHand
      <3>2. CASE LiftPause \/ PauseQuiet \/ NothingDue \/ SaveRuns
        BY <1>3, <3>2 DEF LiftPause, PauseQuiet, NothingDue, SaveRuns, SaveAndGo, Ticks, InHand
      <3>3. CASE ListRows \/ DropRow \/ RecordRow \/ SubmitFails
        BY <1>3, <3>3 DEF ListRows, DropRow, RecordRow, SubmitFails, Ticks, InHand
      <3>4. QED
        BY <1>8, <3>1, <3>2, <3>3 DEF Tick
    <2>2. QED
      BY <1>1, <2>1
  <1>9. CASE ~(Tick \/ SubmitFails \/ BreakTick)
    BY <1>5, <1>9, OtherRows DEF SchedNext, Held
  <1>10. QED
    BY <1>6, <1>7, <1>8, <1>9

\* Without catch-up the tick requests one run, an interval or more after the last.
LEMMA OneToAppendStep ==
    ASSUME Held, [SchedNext]_schedVars
    PROVE  OneToAppend'
  <1>1. SUFFICES ASSUME ~catchUp', tick'.at = "appending"
                 PROVE  /\ tick'.view.paused = "no"
                        /\ \E t \in Times : /\ t >= tick'.view.last + Interval
                                            /\ tick'.todo = {t} \/ (tick'.todo = {} /\ tick'.row = t)
    BY DEF OneToAppend, Times, Interval
  <1>2. /\ tick \in Ticks /\ tick.view \in States /\ tick.todo \in SUBSET Times /\ tick.row \in Times
        /\ tick.view.last \in Times /\ tick.view.last <= Now /\ Now \in Times /\ Now \in Nat /\ tick.view.last \in Nat
        /\ Interval \in Nat /\ ClockOK /\ ~catchUp
        /\ tick.todo # {} => First(tick.todo) \in tick.todo
    BY <1>1, BaseFacts, RowEffects, Clock DEF Held, Base, Past, Typed
  <1>3. CASE tick' = tick
    BY <1>1, <1>2, <1>3 DEF Held, Calendar, OneToAppend
  <1>4. CASE RequestRuns
    <2>1. tick.view.paused = "no" /\ Overdue(tick.view.last) > 0
      BY <1>4 DEF RequestRuns
    <2>2. PICK todo \in {{Now}, Moments(tick.view.last)} :
             /\ tick' = [tick EXCEPT !.at = "appending", !.todo = todo]
             /\ todo = {Now} \/ ~Merged
      BY <1>4 DEF RequestRuns
    <2>3. tick'.view = tick.view /\ tick'.todo = todo
      BY <1>2, <2>2 DEF Ticks
    <2>4. CASE todo = {Now}
      <3>1. tick.view.last + Interval <= Now
        BY <1>2, <2>1, DueSince
      <3>2. QED
        BY <1>2, <2>1, <2>3, <2>4, <3>1
    <2>5. CASE todo # {Now}
      <3>1. todo = Moments(tick.view.last) /\ ~(Overdue(tick.view.last) > 1)
        BY <1>2, <2>2, <2>5 DEF Merged
      <3>2. Overdue(tick.view.last) \in Nat /\ Moments(tick.view.last) \subseteq Times
            /\ (Overdue(tick.view.last) = 1 => Moments(tick.view.last) = {tick.view.last + Interval})
        BY <1>2, MomentsAre
      <3>3. todo = {tick.view.last + Interval} /\ tick.view.last + Interval \in Times
        BY <2>1, <3>1, <3>2
      <3>4. tick.view.last + Interval >= tick.view.last + Interval
        BY <1>2
      <3>5. QED
        BY <2>1, <2>3, <3>3, <3>4
    <2>6. QED
      BY <2>4, <2>5
  <1>5. CASE AppendRun
    <2> DEFINE s == First(tick.todo)
               d == tick.todo \ {s}
    <2>1. tick.at = "appending" /\ s \in tick.todo /\ s \in Times /\ d \in SUBSET Times
          /\ tick' = [tick EXCEPT !.todo = d, !.row = s]
      BY <1>2, <1>5 DEF AppendRun
    <2>2. PICK t \in Times : t >= tick.view.last + Interval /\ (tick.todo = {t} \/ (tick.todo = {} /\ tick.row = t))
      BY <1>2, <2>1 DEF Held, Calendar, OneToAppend
    <2>3. s = t /\ d = {}
      BY <2>1, <2>2
    <2> HIDE DEF s, d
    <2>4. tick'.view = tick.view /\ tick'.todo = d /\ tick'.row = s
      BY <1>2, <2>1 DEF Ticks
    <2>5. tick.view.paused = "no"
      BY <1>2, <2>1 DEF Held, Calendar, OneToAppend
    <2>6. QED
      BY <2>2, <2>3, <2>4, <2>5
  <1>6. CASE ~(RequestRuns \/ AppendRun) /\ (Tick \/ SubmitFails \/ BreakTick)
    <2>1. tick'.at # "appending"
      <3>1. CASE BeginTick \/ LoadState \/ SkipPaused \/ EndTick \/ BreakTick
        BY <1>2, <3>1, Empty DEF BeginTick, LoadState, SkipPaused, EndTick, BreakTick, NoTick, Ticks
      <3>2. CASE LiftPause \/ PauseQuiet \/ NothingDue \/ SaveRuns
        BY <1>2, <3>2 DEF LiftPause, PauseQuiet, NothingDue, SaveRuns, SaveAndGo, Ticks
      <3>3. CASE ListRows \/ DropRow \/ TakeRow \/ SubmitJob \/ QueueJob \/ RecordRow \/ SubmitFails
        BY <1>2, <3>3 DEF ListRows, DropRow, TakeRow, SubmitJob, QueueJob, RecordRow, SubmitFails, Ticks
      <3>4. QED
        BY <1>6, <3>1, <3>2, <3>3 DEF Tick
    <2>2. QED
      BY <1>1, <2>1
  <1>7. CASE ~(Tick \/ SubmitFails \/ BreakTick)
    BY <1>3, <1>7, OtherRows DEF SchedNext, Held
  <1>8. QED
    BY <1>4, <1>5, <1>6, <1>7

\* The invariant of the calendar holds at first.
LEMMA HeldInit == SchedInit => Held
  <1> SUFFICES ASSUME SchedInit PROVE Held
    OBVIOUS
  <1>1. Base /\ Rows
    BY BaseInit, RowsInit
  <1>2. tick.at = "idle" /\ sched.last = 0 /\ (\A s \in Times : job[s] = "none" /\ runs[s] = "none")
    BY Empty DEF SchedInit
  <1>3. Many = 0 /\ Interval \in Nat
    <2>1. Counted = {}
      BY <1>2 DEF Counted, Submitted
    <2>2. QED
      BY <2>1, FS_EmptySet, Clock DEF Many
  <1>4. Paid
    BY <1>2, <1>3 DEF Paid
  <1>5. LeftOver /\ LeftToTick /\ PaidInHand /\ OneToAppend
    BY <1>2 DEF LeftOver, LeftToTick, PaidInHand, OneToAppend, Waiting, InHand
  <1>6. QED
    BY <1>1, <1>4, <1>5 DEF Held, Calendar

\* The invariant of the calendar is inductive.
LEMMA HeldStep == Held /\ [SchedNext]_schedVars => Held'
  <1> SUFFICES ASSUME Held, [SchedNext]_schedVars PROVE Held'
    OBVIOUS
  <1>1. Base' /\ Rows'
    BY BaseStep, RowsStep DEF Held
  <1>2. Paid' /\ LeftOver' /\ LeftToTick' /\ PaidInHand' /\ OneToAppend'
    BY PaidStep, LeftOverStep, LeftToTickStep, PaidInHandStep, OneToAppendStep
  <1>3. QED
    BY <1>1, <1>2 DEF Held, Calendar

\* Without catch-up the calendar submits no more jobs than intervals have passed,
\* as long as no state was saved over one that another had changed (_tick_one).
THEOREM CalendarIsNotExceeded == SchedSpec => []NoExtraRuns
  <1>1. SchedInit => Held
    BY HeldInit
  <1>2. Held /\ [SchedNext]_schedVars => Held'
    BY HeldStep
  <1>3. Held => NoExtraRuns
    <2>1. SUFFICES ASSUME Held, Kept PROVE Many <= unit
      BY DEF NoExtraRuns, Kept, Many, Counted
    <2>2. Many * Interval <= sched.last /\ sched.last <= Now /\ sched.last \in Nat
      BY <2>1, BaseFacts DEF Held, Calendar, Paid, Base, Past
    <2>3. Now \in Nat /\ Now < (unit + 1) * Interval
      BY <2>1, NowIs DEF Held, Base, Typed
    <2>4. Many \in Nat /\ Many * Interval \in Nat /\ unit \in Nat /\ Interval \in Nat /\ Interval > 0
      BY <2>1, CountedIs, Clock DEF Held, Base, Typed, ClockOK
    <2>5. (unit + 1) * Interval \in Nat
      BY <2>4
    <2>6. Many * Interval < (unit + 1) * Interval
      BY <2>2, <2>3, <2>4, <2>5
    <2>7. QED
      BY <2>4, <2>6, FewerOf
  <1>4. QED
    BY <1>1, <1>2, <1>3, PTL DEF SchedSpec

=============================================================================
