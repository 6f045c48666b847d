-------------------------- MODULE Publication_proofs --------------------------
(***************************************************************************)
(* Theorems about Publication, for any number of exporters, readers,       *)
(* generations and faults.  The invariant is built in three layers: whose  *)
(* generation is whose (Owned), that the active generation stays on disk   *)
(* (Readable), and how far the exchange of the compatibility files is in   *)
(* each step of a publication, with what a rollback would give back        *)
(* (Exchanged).                                                            *)
(***************************************************************************)
EXTENDS Publication, FiniteSetTheorems, TLAPS

-----------------------------------------------------------------------------
(* Types *)


Works == [at : Steps, kind : Kinds, gen : 0..MaxGens, staged : SUBSET Names, saved : SUBSET Names,
          installed : SUBSET Names, seen : SUBSET Gens, victims : SUBSET Gens, won : BOOLEAN]

DiskOK ==
    /\ kinds \in KindSets
    /\ made \in 0..MaxGens /\ dirs \subseteq 1..made
    /\ files \in [Gens -> SUBSET Names]
    /\ changed \in [Gens -> 0..clock] /\ clock \in Nat
    /\ active \in 0..made /\ diagnostic \in 0..made
RootOK ==
    /\ root \in [Names -> 0..MaxGens] /\ temp \in [Names -> 0..MaxGens]
    /\ backup \in [Names -> 0..MaxGens]
ExportOK == work \in [Exporters -> Works] /\ torn \in BOOLEAN /\ faults \in 0..MaxFaults
ReadersOK ==
    /\ thread \in [Threads -> [at : {"idle", "pinned", "loading"}, gen : 0..MaxGens, stamp : BOOLEAN]]
    /\ shown \in [gen : 0..MaxGens, stamp : BOOLEAN, verified : BOOLEAN]

\* PubTypeOK in parts.
Typed == DiskOK /\ RootOK /\ ExportOK /\ ReadersOK

\* The steps, spelled out for the leaves that choose one.
LEMMA StepsAre ==
    Steps = {"idle", "writing", "staging", "saving", "installing", "pointing", "listing",
             "pruning", "undoing", "cleaning"} /\ "idle" \in Steps
  BY DEF Steps

\* The ranges generations are in, and that they grow with "made".
LEMMA Ranges ==
    /\ MaxGens \in Nat /\ 0 \in 0..MaxGens /\ Gens \subseteq 0..MaxGens
    /\ \A m \in 0..MaxGens : m \in Nat /\ 1..m \subseteq Gens /\ 0..m \subseteq 0..MaxGens /\ m \in 0..m
    /\ \A m \in 0..MaxGens : m < MaxGens =>
         /\ m + 1 \in Gens /\ m + 1 \in 0..MaxGens /\ m + 1 \in 1..m + 1
         /\ 1..m \subseteq 1..m + 1 /\ 0..m \subseteq 0..m + 1
  <1>1. MaxGens \in Nat
    BY KeepAssumption
  <1>2. QED
    BY <1>1 DEF Gens

\* The fields of a work record, and the records a change of step makes.
LEMMA WorkTyped ==
    /\ NoWork \in Works
    /\ \A u \in Works : /\ \A s \in Steps : [u EXCEPT !.at = s] \in Works
                        /\ u.gen \in 0..MaxGens /\ u.kind \in Kinds /\ u.at \in Steps
                        /\ u.staged \subseteq Names /\ u.saved \subseteq Names
                        /\ u.installed \subseteq Names /\ u.seen \subseteq Gens
                        /\ u.victims \subseteq Gens /\ u.won \in BOOLEAN
  <1>1. NoWork \in Works
    BY Ranges DEF NoWork, Works, Steps, Kinds
  <1>2. \A u \in Works, s \in Steps : [u EXCEPT !.at = s] \in Works
    BY DEF Works
  <1>3. QED
    BY <1>1, <1>2 DEF Works

\* The record an export begins with.
LEMMA BeginTyped ==
    ASSUME NEW k \in Kinds, NEW g \in 0..MaxGens
    PROVE  [NoWork EXCEPT !.at = "writing", !.kind = k, !.gen = g] \in Works
  <1>1. "writing" \in Steps /\ "idle" \in Steps
    BY DEF Steps
  <1>2. \A u \in Works : [u EXCEPT !.at = "writing", !.kind = k, !.gen = g] \in Works
    BY <1>1 DEF Works
  <1>3. QED
    BY <1>2, WorkTyped

\* Go keeps the work of every exporter well typed.
LEMMA GoTyped ==
    ASSUME ExportOK, NEW e \in Exporters, NEW s \in Steps, Go(e, s)
    PROVE  work' \in [Exporters -> Works]
  <1>1. work[e] \in Works
    BY DEF ExportOK
  <1>2. (IF s = "idle" THEN NoWork ELSE [work[e] EXCEPT !.at = s]) \in Works
    BY <1>1, WorkTyped
  <1>3. QED
    BY <1>2 DEF Go, ExportOK

\* The count of faults stays within its bound.
LEMMA FaultTyped ==
    ASSUME ExportOK, Fault \/ UNCHANGED faults
    PROVE  faults' \in 0..MaxFaults
  BY KeepAssumption DEF ExportOK, Fault

\* Touch keeps the times of change behind the clock.
LEMMA TouchTyped ==
    ASSUME changed \in [Gens -> 0..clock], clock \in Nat, NEW g \in Gens, Touch(g)
    PROVE  changed' \in [Gens -> 0..clock'] /\ clock' \in Nat
  <1>1. clock' = clock + 1 /\ clock + 1 \in 0..clock + 1 /\ 0..clock \subseteq 0..clock + 1
    BY DEF Touch
  <1>2. QED
    BY <1>1 DEF Touch

\* remove_generation keeps the disk well typed.
LEMMA DeleteTyped ==
    ASSUME DiskOK, NEW gone, Delete(gone), UNCHANGED <<kinds, made, clock, active, diagnostic>>
    PROVE  DiskOK'
  <1>1. 0 \in 0..clock /\ {} \in SUBSET Names
    BY DEF DiskOK
  <1>2. files' \in [Gens -> SUBSET Names] /\ changed' \in [Gens -> 0..clock]
    BY <1>1 DEF Delete, DiskOK
  <1>3. QED
    BY <1>2 DEF Delete, DiskOK

\* The next file is one of those left (the order of write_generation and of the
\* root files).
LEMMA FirstIs ==
    /\ \A some : First(some) \in Names
    /\ \A done \in SUBSET Names : done # Names => First(Left(done)) \in Left(done)
    /\ \A some \in SUBSET Names : some # {} => First(some) \in some
  BY DEF First, Names, Left

\* The steps that change the directories.
LEMMA DirsTyped ==
    ASSUME Typed, NEW e \in Exporters,
           (\E kind \in Kinds : Begin(e, kind)) \/ WriteFile(e) \/ Abandon(e)
    PROVE  Typed'
  <1> USE DEF Typed
  <1>0. work[e] \in Works /\ Gen(e) \in 0..MaxGens /\ work[e].kind \in Kinds
    BY WorkTyped DEF ExportOK, Gen
  <1>1. ASSUME NEW kind \in Kinds, Begin(e, kind) PROVE Typed'
    <2>0. made < MaxGens /\ made \in 0..MaxGens /\ made + 1 \in Gens /\ made + 1 \in 0..MaxGens
      BY <1>1, Ranges DEF Begin, DiskOK
    <2>1. [NoWork EXCEPT !.at = "writing", !.kind = kind, !.gen = made + 1] \in Works
      BY <2>0, BeginTyped
    <2>2. ExportOK'
      BY <1>1, <2>1 DEF Begin, ExportOK
    <2>3. DiskOK'
      <3>1. Touch(made + 1) /\ made' = made + 1 /\ dirs' = dirs \cup {made + 1}
            /\ UNCHANGED <<kinds, files, active, diagnostic>>
        BY <1>1 DEF Begin, pointers
      <3>2. changed' \in [Gens -> 0..clock'] /\ clock' \in Nat
        BY <2>0, <3>1, TouchTyped DEF DiskOK
      <3>3. dirs' \subseteq 1..made' /\ active' \in 0..made' /\ diagnostic' \in 0..made'
        BY <2>0, <3>1, Ranges DEF DiskOK
      <3>4. QED
        BY <2>0, <3>1, <3>2, <3>3 DEF DiskOK
    <2>4. QED
      BY <1>1, <2>2, <2>3 DEF Begin, RootOK, ReadersOK, rootFiles, reader
  <1>2. CASE WriteFile(e)
    <2>1. Gen(e) \in Gens
      BY <1>2, Ranges DEF WriteFile, DiskOK
    <2>2. ExportOK'
      <3>1. Written(work[e].kind) \in Steps
        BY DEF Written, Steps
      <3>2. work' \in [Exporters -> Works]
        BY <1>2, <3>1, GoTyped DEF WriteFile, ExportOK
      <3>3. QED
        BY <1>2, <3>2 DEF WriteFile, ExportOK
    <2>3. DiskOK'
      <3>1. files' \in [Gens -> SUBSET Names]
        BY <1>2, <2>1, FirstIs DEF WriteFile, DiskOK
      <3>2. changed' \in [Gens -> 0..clock'] /\ clock' \in Nat
        BY <1>2, <2>1, TouchTyped DEF WriteFile, DiskOK
      <3>3. QED
        BY <1>2, <3>1, <3>2 DEF WriteFile, DiskOK, pointers
    <2>4. QED
      BY <1>2, <2>2, <2>3 DEF WriteFile, RootOK, ReadersOK, rootFiles, reader
  <1>3. CASE Abandon(e)
    <2>1. ExportOK'
      BY <1>3, GoTyped, FaultTyped, StepsAre DEF Abandon, ExportOK
    <2>2. DiskOK'
      BY <1>3, DeleteTyped DEF Abandon, pointers
    <2>3. QED
      BY <1>3, <2>1, <2>2 DEF Abandon, RootOK, ReadersOK, rootFiles, reader
  <1>4. QED
    BY <1>1, <1>2, <1>3

\* The steps that change the files of the export root.
LEMMA RootTyped ==
    ASSUME Typed, NEW e \in Exporters,
           Stage(e) \/ Save(e) \/ AllSaved(e) \/ Install(e) \/ Undo(e) \/ UndoFails(e) \/ CleanUp(e)
    PROVE  Typed'
  <1> USE DEF Typed
  <1>0. /\ work[e] \in Works /\ Gen(e) \in 0..MaxGens /\ 0 \in 0..MaxGens
        /\ work[e].staged \subseteq Names /\ work[e].saved \subseteq Names
        /\ work[e].installed \subseteq Names
    BY WorkTyped, KeepAssumption DEF ExportOK, Gen
  <1>1. DiskOK' /\ ReadersOK'
    BY DEF Stage, Save, AllSaved, Install, Undo, UndoFails, CleanUp, DiskOK, ReadersOK, disk,
           pointers, reader
  <1>2. RootOK'
    <2>1. CASE Stage(e)
      BY <1>0, <2>1, FirstIs DEF Stage, RootOK
    <2>2. CASE Save(e)
      BY <1>0, <2>2, FirstIs DEF Save, RootOK
    <2>3. CASE AllSaved(e)
      BY <2>3 DEF AllSaved, RootOK, rootFiles
    <2>4. CASE Install(e)
      BY <1>0, <2>4, FirstIs DEF Install, RootOK
    <2>5. CASE Undo(e) \/ UndoFails(e)
      <3>1. \A n \in Names : Undone(e, n) \in 0..MaxGens
        BY <1>0 DEF Undone, RootOK
      <3>2. QED
        BY <1>0, <2>5, <3>1 DEF Undo, UndoFails, RootOK
    <2>6. CASE CleanUp(e)
      BY <1>0, <2>6 DEF CleanUp, RootOK
    <2>7. QED
      BY <2>1, <2>2, <2>3, <2>4, <2>5, <2>6
  <1>3. ExportOK'
    <2>1. CASE Stage(e)
      <3>1. PICK n \in Names, s \in Steps : work' = [work EXCEPT ![e].staged = @ \cup {n}, ![e].at = s]
        BY <1>0, <2>1, FirstIs DEF Stage, Works, Steps
      <3> DEFINE u == [work[e] EXCEPT !.staged = @ \cup {n}, !.at = s]
      <3>2. u \in Works
        BY <1>0, <3>1 DEF Works
      <3>3. work' = [work EXCEPT ![e] = u]
        BY <3>1 DEF ExportOK
      <3> HIDE DEF u
      <3>4. QED
        BY <2>1, <3>2, <3>3 DEF Stage, ExportOK
    <2>2. CASE Save(e)
      <3>1. PICK n \in Names : work' = [work EXCEPT ![e].saved = @ \cup {n}]
        BY <2>2, FirstIs DEF Save
      <3>2. QED
        BY <1>0, <2>2, <3>1 DEF Save, ExportOK, Works
    <2>3. CASE Install(e)
      <3>1. PICK n \in Names, s \in Steps : work' = [work EXCEPT ![e].installed = @ \cup {n}, ![e].at = s]
        BY <1>0, <2>3, FirstIs DEF Install, Works, Steps
      <3> DEFINE u == [work[e] EXCEPT !.installed = @ \cup {n}, !.at = s]
      <3>2. u \in Works
        BY <1>0, <3>1 DEF Works
      <3>3. work' = [work EXCEPT ![e] = u]
        BY <3>1 DEF ExportOK
      <3> HIDE DEF u
      <3>4. QED
        BY <2>3, <3>2, <3>3 DEF Install, ExportOK
    <2>4. CASE AllSaved(e) \/ Undo(e) \/ UndoFails(e) \/ CleanUp(e)
      <3>1. \E s \in Steps : Go(e, s)
        BY <2>4 DEF AllSaved, Undo, UndoFails, CleanUp, Steps
      <3>2. torn' \in BOOLEAN /\ (Fault \/ UNCHANGED faults)
        BY <2>4 DEF AllSaved, Undo, UndoFails, CleanUp, ExportOK
      <3>3. QED
        BY <3>1, <3>2, GoTyped, FaultTyped DEF ExportOK
    <2>5. QED
      BY <2>1, <2>2, <2>3, <2>4
  <1>4. QED
    BY <1>1, <1>2, <1>3

\* The steps that change the pointers or only the work of the exporter.
LEMMA WorkOnlyTyped ==
    ASSUME Typed, NEW e \in Exporters, Gen(e) \in 0..made,
           MovePointer(e) \/ List(e) \/ SortByTime(e) \/ Prune(e) \/ Pruned(e) \/ Fail(e) \/ Die(e)
    PROVE  Typed'
  <1> USE DEF Typed
  <1>0. /\ work[e] \in Works /\ Gen(e) \in 0..MaxGens
        /\ dirs \subseteq Gens
    BY WorkTyped, Ranges DEF ExportOK, DiskOK, Gen
  <1>1. RootOK' /\ ReadersOK'
    BY DEF MovePointer, List, SortByTime, Prune, Pruned, Fail, Die, RootOK, ReadersOK, rootFiles,
           reader
  <1>2. torn' \in BOOLEAN /\ faults' \in 0..MaxFaults
    <2>1. Fault \/ UNCHANGED faults
      BY DEF MovePointer, List, SortByTime, Prune, Pruned, Fail, Die
    <2>2. torn' \in BOOLEAN
      BY DEF MovePointer, List, SortByTime, Prune, Pruned, Fail, Die, ExportOK
    <2>3. QED
      BY <2>1, <2>2, FaultTyped
  <1>3. work' \in [Exporters -> Works]
    <2>0. \A u \in Works, seen \in SUBSET Gens : [u EXCEPT !.seen = seen] \in Works
      BY DEF Works
    <2>1. \A u \in Works, s \in Steps, some \in SUBSET Gens, won \in BOOLEAN :
             /\ [u EXCEPT !.victims = some] \in Works
             /\ [u EXCEPT !.at = s, !.victims = some] \in Works
             /\ [u EXCEPT !.at = s, !.won = won] \in Works
      BY DEF Works
    <2>2. "listing" \in Steps /\ "pruning" \in Steps /\ "cleaning" \in Steps
          /\ Raised(e) \in Steps
      BY DEF Steps, Raised
    <2>3. CASE MovePointer(e)
      BY <1>0, <2>2, <2>3, WorkTyped DEF MovePointer, ExportOK
    <2>4. CASE List(e)
      BY <1>0, <2>0, <2>4 DEF List, ExportOK
    <2>5. CASE SortByTime(e)
      <3>1. CASE work[e].seen \subseteq dirs
        <4>1. Victims(work[e].seen, Gen(e)) \in SUBSET Gens
          BY <1>0, WorkTyped DEF Victims
        <4> DEFINE u == [work[e] EXCEPT !.at = "pruning", !.victims = Victims(work[e].seen, Gen(e))]
        <4>2. u \in Works
          BY <1>0, <2>1, <2>2, <4>1
        <4>3. work' = [work EXCEPT ![e] = u]
          BY <2>5, <3>1 DEF SortByTime, ExportOK
        <4> HIDE DEF u
        <4>4. QED
          BY <4>2, <4>3 DEF ExportOK
      <3>2. CASE ~(work[e].seen \subseteq dirs)
        BY <2>2, <2>5, <3>2, GoTyped DEF SortByTime
      <3>3. QED
        BY <3>1, <3>2
    <2>6. CASE Prune(e)
      <3>1. PICK g : work' = [work EXCEPT ![e].victims = @ \ {g}]
        BY <2>6 DEF Prune
      <3>2. work[e].victims \ {g} \in SUBSET Gens
        BY <1>0, WorkTyped
      <3>3. QED
        BY <1>0, <2>1, <3>1, <3>2, StepsAre DEF ExportOK
    <2>7. CASE Pruned(e)
      BY <1>0, <2>1, <2>2, <2>7, WorkTyped DEF Pruned, ExportOK
    <2>8. CASE Fail(e)
      BY <2>2, <2>8, GoTyped DEF Fail
    <2>9. CASE Die(e)
      BY <2>9, WorkTyped DEF Die, ExportOK
    <2>10. QED
      BY <2>3, <2>4, <2>5, <2>6, <2>7, <2>8, <2>9
  <1>4. DiskOK'
    <2>1. CASE MovePointer(e)
      <3>1. QED
        BY <1>0, <2>1 DEF MovePointer, DiskOK, disk
    <2>2. CASE Prune(e)
      <3>1. PICK g : Delete({g})
        BY <2>2 DEF Prune
      <3>2. QED
        BY <2>2, <3>1, DeleteTyped DEF Prune, pointers
    <2>3. CASE List(e) \/ SortByTime(e) \/ Pruned(e) \/ Fail(e) \/ Die(e)
      BY <2>3 DEF List, SortByTime, Pruned, Fail, Die, DiskOK, disk, pointers
    <2>4. QED
      BY <2>1, <2>2, <2>3
  <1>5. QED
    BY <1>1, <1>2, <1>3, <1>4 DEF ExportOK

\* The steps of a reader (Exports.load).
LEMMA ReaderTyped ==
    ASSUME Typed, NEW t \in Threads, Reader(t)
    PROVE  Typed'
  <1> USE DEF Typed
  <1>1. DiskOK' /\ RootOK' /\ ExportOK'
    BY DEF Reader, ReadPointer, Enter, Load, DiskOK, RootOK, ExportOK, disk, pointers, rootFiles
  <1>2. active \in 0..MaxGens
    BY Ranges DEF DiskOK
  <1>3. ReadersOK'
    <2>1. CASE ReadPointer(t)
      BY <1>2, <2>1 DEF ReadPointer, ReadersOK
    <2>2. CASE Enter(t)
      <3> DEFINE stamp == files[thread[t].gen] = Names
                 on == [thread[t] EXCEPT !.at = "loading", !.stamp = stamp]
                 off == [thread[t] EXCEPT !.at = "idle"]
      <3>1. on \in [at : {"idle", "pinned", "loading"}, gen : 0..MaxGens, stamp : BOOLEAN]
            /\ off \in [at : {"idle", "pinned", "loading"}, gen : 0..MaxGens, stamp : BOOLEAN]
        BY DEF ReadersOK
      <3>2. thread' = [thread EXCEPT ![t] = on] \/ thread' = [thread EXCEPT ![t] = off]
        BY <2>2 DEF Enter, ReadersOK
      <3> HIDE DEF on, off
      <3>3. QED
        BY <2>2, <3>1, <3>2 DEF Enter, ReadersOK
    <2>3. CASE Load(t)
      BY <2>3 DEF Load, ReadersOK
    <2>4. QED
      BY <2>1, <2>2, <2>3 DEF Reader
  <1>4. QED
    BY <1>1, <1>3

\* The initial state is well typed.
LEMMA TypedInit == PubInit => Typed
  <1>1. 0 \in 0..MaxGens /\ 0 \in Nat /\ 0 \in 0..0 /\ {} \subseteq 1..0 /\ MaxFaults \in Nat
    BY KeepAssumption
  <1>2. SUFFICES ASSUME PubInit PROVE Typed
    OBVIOUS
  <1>3. DiskOK
    BY <1>1, <1>2 DEF PubInit, DiskOK
  <1>4. RootOK
    BY <1>1, <1>2 DEF PubInit, RootOK
  <1>5. ExportOK
    <2>1. work \in [Exporters -> Works]
      BY <1>2, WorkTyped DEF PubInit
    <2>2. torn \in BOOLEAN
      BY <1>2 DEF PubInit
    <2>3. faults = 0 /\ 0 \in 0..MaxFaults
      BY <1>1, <1>2 DEF PubInit
    <2>4. QED
      BY <2>1, <2>2, <2>3 DEF ExportOK
  <1>6. ReadersOK
    BY <1>1, <1>2 DEF PubInit, ReadersOK
  <1>7. QED
    BY <1>3, <1>4, <1>5, <1>6 DEF Typed


-----------------------------------------------------------------------------
(* Whose generation is whose *)

Idling == \A e \in Exporters : At(e, "idle") => work[e] = NoWork

\* An exporter works on a generation of its own.
Own ==
    \A e \in Exporters : ~At(e, "idle") =>
        /\ Gen(e) \in 1..made /\ work[e].kind \in kinds
        /\ At(e, "writing") => Gen(e) # active
        /\ \A f \in Exporters \ {e} : ~At(f, "idle") => Gen(f) # Gen(e)

\* Only the publisher goes on after the files are written.
OtherWork == \A e \in Others : work[e].at \in {"idle", "writing"}

Writing ==
    \A e \in Exporters : At(e, "writing") =>
        /\ files[Gen(e)] \in {{}, {"rows"}}
        /\ work[e] = [NoWork EXCEPT !.at = "writing", !.kind = work[e].kind, !.gen = Gen(e)]
        /\ work[e].kind = "selection" <=> e \in Others

DirsOf == \A g \in Gens : g \notin dirs => files[g] = {}

Owned == Typed /\ Idling /\ Own /\ OtherWork /\ Writing /\ DirsOf

\* The fields of an idle exporter.
LEMMA NoWorkIs ==
    /\ NoWork.at = "idle" /\ NoWork.gen = 0 /\ NoWork.kind = "selection" /\ NoWork.won = FALSE
    /\ NoWork.staged = {} /\ NoWork.saved = {} /\ NoWork.installed = {} /\ NoWork.victims = {}
    /\ NoWork.seen = {}
  BY DEF NoWork

\* Go changes the step of one exporter, or ends its work, and nothing else.
LEMMA GoMoves ==
    ASSUME Typed, NEW e \in Exporters, NEW s \in Steps, Go(e, s)
    PROVE  /\ \A f \in Exporters : f # e => work'[f] = work[f]
           /\ s = "idle" => work'[e] = NoWork
           /\ s # "idle" => /\ work'[e] = [work[e] EXCEPT !.at = s] /\ work'[e].at = s
                            /\ work'[e].gen = Gen(e) /\ work'[e].kind = work[e].kind
                            /\ work'[e].staged = work[e].staged /\ work'[e].saved = work[e].saved
                            /\ work'[e].installed = work[e].installed
                            /\ work'[e].seen = work[e].seen
                            /\ work'[e].victims = work[e].victims /\ work'[e].won = work[e].won
  BY WorkTyped DEF Go, Gen, Typed, ExportOK, Works

\* The steps of an exporter that keep what it works on.
SameJob(e) ==
    /\ \A f \in Exporters : f # e => work'[f] = work[f]
    /\ work'[e] \in Works
    /\ work'[e].gen = work[e].gen /\ work'[e].kind = work[e].kind /\ work'[e].won = work[e].won
    /\ work'[e].seen = work[e].seen /\ work'[e].victims = work[e].victims

\* Stage, Install and Save add a file to one field of the work.
LEMMA StageMoves ==
    ASSUME Typed, NEW e \in Exporters, Stage(e)
    PROVE  LET n == First(Left(work[e].staged))
           IN  /\ n \in Names /\ SameJob(e)
               /\ work'[e].at = IF n = "status" THEN "saving" ELSE "staging"
               /\ work'[e].staged = work[e].staged \cup {n}
               /\ work'[e].saved = work[e].saved /\ work'[e].installed = work[e].installed
  <1> DEFINE n == First(Left(work[e].staged))
             some == work[e].staged \cup {n}
             s == IF n = "status" THEN "saving" ELSE "staging"
  <1>0. work \in [Exporters -> Works] /\ work[e] \in Works /\ work[e].at = "staging"
    BY DEF Typed, ExportOK, Stage, At
  <1>1. n \in Names /\ some \subseteq Names /\ s \in Steps
    <2>1. n \in Names
      BY FirstIs
    <2>2. work[e].staged \subseteq Names
      BY <1>0, WorkTyped
    <2>3. QED
      BY <2>1, <2>2 DEF Steps
  <1>2. work' = [work EXCEPT ![e] = [work[e] EXCEPT !.staged = some, !.at = s]]
    BY <1>0 DEF Stage
  <1> HIDE DEF n, some, s
  <1>3. LET u == [work[e] EXCEPT !.staged = some, !.at = s]
        IN  /\ u \in Works /\ u.gen = work[e].gen /\ u.kind = work[e].kind /\ u.won = work[e].won
            /\ u.seen = work[e].seen /\ u.victims = work[e].victims
            /\ u.at = s /\ u.staged = some /\ u.saved = work[e].saved /\ u.installed = work[e].installed
    BY <1>0, <1>1 DEF Works
  <1>4. QED
    BY <1>0, <1>1, <1>2, <1>3 DEF SameJob, n, some, s

LEMMA InstallMoves ==
    ASSUME Typed, NEW e \in Exporters, Install(e)
    PROVE  LET n == First(Left(work[e].installed))
           IN  /\ n \in Names /\ SameJob(e)
               /\ work'[e].at = IF n = "status" THEN "pointing" ELSE "installing"
               /\ work'[e].installed = work[e].installed \cup {n}
               /\ work'[e].saved = work[e].saved /\ work'[e].staged = work[e].staged
  <1> DEFINE n == First(Left(work[e].installed))
             some == work[e].installed \cup {n}
             s == IF n = "status" THEN "pointing" ELSE "installing"
  <1>0. work \in [Exporters -> Works] /\ work[e] \in Works /\ work[e].at = "installing"
    BY DEF Typed, ExportOK, Install, At
  <1>1. n \in Names /\ some \subseteq Names /\ s \in Steps
    <2>1. n \in Names
      BY FirstIs
    <2>2. work[e].installed \subseteq Names
      BY <1>0, WorkTyped
    <2>3. QED
      BY <2>1, <2>2 DEF Steps
  <1>2. work' = [work EXCEPT ![e] = [work[e] EXCEPT !.installed = some, !.at = s]]
    BY <1>0 DEF Install
  <1> HIDE DEF n, some, s
  <1>3. LET u == [work[e] EXCEPT !.installed = some, !.at = s]
        IN  /\ u \in Works /\ u.gen = work[e].gen /\ u.kind = work[e].kind /\ u.won = work[e].won
            /\ u.seen = work[e].seen /\ u.victims = work[e].victims
            /\ u.at = s /\ u.installed = some /\ u.saved = work[e].saved /\ u.staged = work[e].staged
    BY <1>0, <1>1 DEF Works
  <1>4. QED
    BY <1>0, <1>1, <1>2, <1>3 DEF SameJob, n, some, s

LEMMA SaveMoves ==
    ASSUME Typed, NEW e \in Exporters, Save(e)
    PROVE  LET n == First(Present)
           IN  /\ n \in Present /\ n \in Names /\ SameJob(e)
               /\ work[e].at = "saving" /\ work'[e].at = "saving"
               /\ work'[e].saved = work[e].saved \cup {n}
               /\ work'[e].staged = work[e].staged /\ work'[e].installed = work[e].installed
  <1> DEFINE n == First(Present)
             some == work[e].saved \cup {n}
  <1>0. work \in [Exporters -> Works] /\ work[e] \in Works /\ work[e].at = "saving"
        /\ Present \in SUBSET Names /\ Present # {}
    BY DEF Typed, ExportOK, Save, At, Present
  <1>1. n \in Names /\ n \in Present /\ some \subseteq Names
    BY <1>0, FirstIs, WorkTyped
  <1>2. work' = [work EXCEPT ![e] = [work[e] EXCEPT !.saved = some]]
    BY <1>0 DEF Save
  <1> HIDE DEF n, some
  <1>3. LET u == [work[e] EXCEPT !.saved = some]
        IN  /\ u \in Works /\ u.gen = work[e].gen /\ u.kind = work[e].kind /\ u.won = work[e].won
            /\ u.seen = work[e].seen /\ u.victims = work[e].victims
            /\ u.at = work[e].at /\ u.saved = some /\ u.installed = work[e].installed
            /\ u.staged = work[e].staged
    BY <1>0, <1>1 DEF Works
  <1>4. QED
    BY <1>0, <1>1, <1>2, <1>3 DEF SameJob, n, some

\* What a step of an exporter makes of its own work, and that it leaves the
\* work of the others alone.
LEMMA OwnersMove ==
    ASSUME Typed, NEW e \in Exporters, Exporter(e)
    PROVE  /\ \A f \in Exporters : f # e => work'[f] = work[f]
           /\ work[e] \in Works /\ work'[e] \in Works
           /\ \/ \E kind \in Kinds : Begin(e, kind)
              \/ work'[e] = NoWork /\ made' = made /\ ~At(e, "idle")
              \/ /\ ~At(e, "idle") /\ made' = made
                 /\ work'[e].gen = Gen(e) /\ work'[e].kind = work[e].kind
                 /\ work'[e].at \in Publishing \/ (WriteFile(e) /\ UNCHANGED work)
           /\ kinds' = kinds /\ (active' = active \/ (At(e, "pointing") /\ active' = Gen(e)))
  <1>0. work \in [Exporters -> Works] /\ work[e] \in Works
    BY DEF Typed, ExportOK
  <1>1. CASE \E kind \in Kinds : Begin(e, kind)
    <2>1. PICK kind \in Kinds : Begin(e, kind)
      BY <1>1
    <2>2. [NoWork EXCEPT !.at = "writing", !.kind = kind, !.gen = made + 1] \in Works
      BY <2>1, BeginTyped, Ranges DEF Begin, Typed, DiskOK
    <2>3. QED
      BY <1>0, <1>1, <2>1, <2>2 DEF Begin, pointers
  <1>2. CASE \E s \in Publishing \cup {"idle"} : Go(e, s) /\ ~At(e, "idle") /\ kinds' = kinds /\ made' = made
                          /\ UNCHANGED pointers
    BY <1>0, <1>2, GoMoves, WorkTyped, StepsAre, GoTyped DEF Publishing, pointers, Typed
  <1>3. CASE WriteFile(e)
    <2>1. CASE UNCHANGED work
      BY <1>0, <1>3, <2>1 DEF WriteFile, At, Gen, pointers
    <2>2. CASE Go(e, Written(work[e].kind))
      BY <1>2, <1>3, <2>2 DEF WriteFile, Written, Publishing, Steps, At
    <2>3. QED
      BY <1>3, <2>1, <2>2 DEF WriteFile
  <1>4. CASE Abandon(e) \/ AllSaved(e) \/ Fail(e) \/ Undo(e) \/ UndoFails(e) \/ CleanUp(e)
    BY <1>2, <1>4 DEF Abandon, AllSaved, Fail, Undo, UndoFails, CleanUp, Raised, Publishing, Steps, At, disk
  <1>5. CASE Stage(e)
    <2>1. /\ ~At(e, "idle") /\ made' = made /\ kinds' = kinds /\ active' = active
      BY <1>5 DEF Stage, At, pointers, disk
    <2>2. SameJob(e) /\ work'[e].at \in Publishing
      BY <1>5, StageMoves DEF Publishing, Steps
    <2>3. QED
      BY <1>0, <2>1, <2>2 DEF SameJob, Gen
  <1>6. CASE Save(e)
    BY <1>0, <1>6, SaveMoves DEF Save, SameJob, At, Gen, Publishing, Steps, pointers, disk
  <1>7. CASE Install(e)
    <2>1. /\ ~At(e, "idle") /\ made' = made /\ kinds' = kinds /\ active' = active
      BY <1>7 DEF Install, At, pointers, disk
    <2>2. SameJob(e) /\ work'[e].at \in Publishing
      BY <1>7, InstallMoves DEF Publishing, Steps
    <2>3. QED
      BY <1>0, <2>1, <2>2 DEF SameJob, Gen
  <1>8. CASE MovePointer(e)
    BY <1>0, <1>8 DEF MovePointer, At, Gen, Works, Publishing, Steps, disk
  <1>9. CASE List(e)
    BY <1>0, <1>9, Ranges DEF List, At, Gen, Works, Publishing, Steps, pointers, disk, Typed, DiskOK
  <1>10. CASE SortByTime(e)
    <2>1. CASE Go(e, Raised(e))
      BY <1>2, <1>10, <2>1 DEF SortByTime, Raised, Publishing, Steps, At, disk
    <2>2. CASE work' = [work EXCEPT ![e].at = "pruning", ![e].victims = Victims(work[e].seen, Gen(e))]
      <3>1. Victims(work[e].seen, Gen(e)) \in SUBSET Gens
        BY <1>0, WorkTyped DEF Victims
      <3>2. QED
        BY <1>0, <1>10, <2>2, <3>1 DEF SortByTime, At, Gen, Works, Publishing, Steps, pointers, disk
    <2>3. QED
      BY <1>10, <2>1, <2>2 DEF SortByTime
  <1>11. CASE Prune(e)
    BY <1>0, <1>11 DEF Prune, At, Gen, Works, Publishing, Steps, pointers
  <1>12. CASE Pruned(e)
    <2>1. work'[e] = IF work[e].kind = "published" THEN [work[e] EXCEPT !.at = "cleaning", !.won = TRUE]
                                                   ELSE NoWork
      BY <1>0, <1>12 DEF Pruned
    <2>2. CASE work[e].kind = "published"
      BY <1>0, <1>12, <2>1, <2>2 DEF Pruned, At, Gen, Works, Publishing, Steps, pointers, disk
    <2>3. CASE work[e].kind # "published"
      BY <1>0, <1>12, <2>1, <2>3, WorkTyped DEF Pruned, At, pointers, disk
    <2>4. QED
      BY <2>2, <2>3
  <1>13. CASE Die(e)
    BY <1>0, <1>13, WorkTyped DEF Die, At, pointers, disk
  <1>14. QED
    BY <1>1, <1>3, <1>4, <1>5, <1>6, <1>7, <1>8, <1>9, <1>10, <1>11, <1>12, <1>13 DEF Exporter

\* Nobody owns anything at first.
LEMMA OwnedInit == PubInit => Owned
  <1> SUFFICES ASSUME PubInit PROVE Owned
    OBVIOUS
  <1>1. Typed
    BY TypedInit
  <1>2. \A e \in Exporters : work[e] = NoWork /\ At(e, "idle") /\ ~At(e, "writing")
    BY NoWorkIs DEF PubInit, At
  <1>3. Idling /\ Own /\ Writing
    BY <1>2 DEF Idling, Own, Writing
  <1>4. OtherWork
    BY <1>2 DEF OtherWork, At, Exporters
  <1>5. DirsOf
    BY DEF PubInit, DirsOf
  <1>6. QED
    BY <1>1, <1>3, <1>4, <1>5 DEF Owned

\* Every step keeps the state well typed.
LEMMA TypedStep == Owned /\ [PubNext]_pubVars => Typed'
  <1> SUFFICES ASSUME Owned, [PubNext]_pubVars PROVE Typed'
    OBVIOUS
  <1>0. Typed
    BY DEF Owned
  <1>1. ASSUME NEW e \in Exporters, Exporter(e) PROVE Typed'
    <2>1. Gen(e) \in 0..made
      <3>1. CASE At(e, "idle")
        BY <3>1, <1>0, Ranges, NoWorkIs DEF Owned, Idling, Gen, Typed, DiskOK
      <3>2. CASE ~At(e, "idle")
        BY <3>2, <1>0, Ranges DEF Owned, Own, Typed, DiskOK
      <3>3. QED
        BY <3>1, <3>2
    <2>2. QED
      BY <1>0, <1>1, <2>1, DirsTyped, RootTyped, WorkOnlyTyped DEF Exporter
  <1>2. ASSUME NEW t \in Threads, Reader(t) PROVE Typed'
    BY <1>0, <1>2, ReaderTyped
  <1>3. CASE UNCHANGED pubVars
    BY <1>0, <1>3 DEF pubVars, disk, pointers, rootFiles, reader, Typed, DiskOK, RootOK, ExportOK, ReadersOK
  <1>4. QED
    BY <1>1, <1>2, <1>3 DEF PubNext

\* The files of a generation are changed by its writer and by who removes it,
\* and a directory that is gone is empty.
LEMMA FilesMove ==
    ASSUME Owned, NEW e \in Exporters, Exporter(e)
    PROVE  /\ \/ files' = files
              \/ WriteFile(e) /\ Gen(e) \in Gens
                 /\ files' = [files EXCEPT ![Gen(e)] = @ \cup {First(Left(files[Gen(e)]))}]
              \/ \E gone : Delete(gone) /\ \/ Abandon(e) /\ gone = {Gen(e)}
                                           \/ Prune(e) /\ gone \subseteq work[e].victims
           /\ DirsOf'
  <1>0. Typed /\ DirsOf
    BY DEF Owned
  <1>1. CASE UNCHANGED <<files, dirs>>
    BY <1>0, <1>1 DEF DirsOf
  <1>2. CASE \E kind \in Kinds : Begin(e, kind)
    BY <1>0, <1>2 DEF Begin, DirsOf
  <1>3. CASE WriteFile(e)
    <2>1. Gen(e) \in Gens /\ Gen(e) \in dirs
      BY <1>0, <1>3, Ranges DEF WriteFile, Typed, DiskOK
    <2>2. QED
      BY <1>0, <1>3, <2>1 DEF WriteFile, DirsOf, Typed, DiskOK
  <1>4. CASE Abandon(e)
    BY <1>0, <1>4 DEF Abandon, Delete, DirsOf
  <1>5. CASE Prune(e)
    <2>1. PICK g \in work[e].victims : Delete({g})
      BY <1>5 DEF Prune
    <2>2. DirsOf'
      BY <1>0, <2>1 DEF Delete, DirsOf
    <2>3. QED
      BY <1>5, <2>1, <2>2
  <1>6. QED
    BY <1>1, <1>2, <1>3, <1>4, <1>5
       DEF Exporter, Stage, Save, AllSaved, Install, MovePointer, List, SortByTime, Pruned, Fail,
           Undo, UndoFails, CleanUp, Die, disk

\* Every step keeps exporters apart: Begin takes a new name, and no other step
\* changes a name.
LEMMA OwnedStep == Owned /\ [PubNext]_pubVars => Owned'
  <1> SUFFICES ASSUME Owned, [PubNext]_pubVars PROVE Owned'
    OBVIOUS
  <1>0. Typed' /\ Typed
    BY TypedStep DEF Owned
  <1>1. ASSUME UNCHANGED <<kinds, made, dirs, files, active, work>> PROVE Owned'
    BY <1>0, <1>1 DEF Owned, Idling, Own, OtherWork, Writing, DirsOf, At, Gen
  <1>2. ASSUME NEW e \in Exporters, Exporter(e) PROVE Owned'
    <2>0. /\ \A f \in Exporters : f # e => work'[f] = work[f]
          /\ kinds' = kinds /\ (active' = active \/ (At(e, "pointing") /\ active' = Gen(e)))
      BY <1>0, <1>2, OwnersMove
    <2>1. CASE \E kind \in Kinds : Begin(e, kind)
      <3>1. PICK kind \in Kinds : Begin(e, kind)
        BY <2>1
      <3>2. /\ made' = made + 1 /\ made \in 0..MaxGens /\ made \in Nat /\ made < MaxGens /\ active \in 0..made
            /\ files' = files /\ active' = active /\ dirs' = dirs \cup {made + 1} /\ dirs \subseteq 1..made
            /\ kind \in kinds /\ (kind = "selection" <=> e \in Others)
            /\ made + 1 \in Gens
        BY <1>0, <3>1, Ranges DEF Begin, pointers, Typed, DiskOK
      <3>3. work'[e] = [NoWork EXCEPT !.at = "writing", !.kind = kind, !.gen = made + 1]
        BY <1>0, <3>1 DEF Begin, Typed, ExportOK
      <3>4. work'[e].at = "writing" /\ work'[e].kind = kind /\ work'[e].gen = made + 1
        BY <3>3 DEF NoWork
      <3>5. \A f \in Exporters : ~At(f, "idle") => Gen(f) \in 1..made /\ Gen(f) # made + 1
        BY <3>2 DEF Owned, Own
      <3>6. Idling'
        BY <2>0, <3>4 DEF Owned, Idling, At
      <3>7. Own'
        BY <2>0, <3>2, <3>4, <3>5 DEF Owned, Own, At, Gen
      <3>8. OtherWork'
        BY <2>0, <3>4 DEF Owned, OtherWork, Exporters
      <3>9. files[made + 1] = {}
        BY <3>2 DEF Owned, DirsOf
      <3>10. Writing'
        BY <2>0, <3>2, <3>3, <3>4, <3>9 DEF Owned, Writing, At, Gen
      <3>11. DirsOf'
        BY <1>2, FilesMove
      <3>12. QED
        BY <1>0, <3>6, <3>7, <3>8, <3>10, <3>11 DEF Owned
    <2>2. CASE ~\E kind \in Kinds : Begin(e, kind)
      <3>1. /\ made' = made /\ ~At(e, "idle")
            /\ \/ work'[e] = NoWork
               \/ /\ work'[e].gen = Gen(e) /\ work'[e].kind = work[e].kind
                  /\ work'[e].at \in Publishing \/ (WriteFile(e) /\ UNCHANGED work)
        BY <1>0, <1>2, <2>2, OwnersMove
      <3>2. Idling'
        BY <2>0, <3>1, NoWorkIs DEF Owned, Idling, At, Publishing, WriteFile
      <3>3. Own'
        BY <2>0, <3>1, NoWorkIs DEF Owned, Own, At, Gen, Publishing, WriteFile
      <3>4. OtherWork'
        <4>1. CASE e \in Others
          <5>1. work[e].at = "writing"
            BY <3>1, <4>1 DEF Owned, OtherWork, At
          <5>2. WriteFile(e) \/ Abandon(e) \/ Die(e)
            BY <1>2, <2>2, <5>1 DEF Exporter, Stage, Save, AllSaved, Install, MovePointer, List, SortByTime, Prune, Pruned, Fail,
                 Undo, UndoFails, CleanUp, At
          <5>3. work[e].kind = "selection"
            BY <1>2, <4>1, <5>1 DEF Owned, Writing, At
          <5>4. work'[e] = NoWork \/ work'[e] = work[e]
            <6>1. CASE WriteFile(e)
              BY <1>0, <5>3, <6>1, GoMoves, StepsAre DEF WriteFile, Written
            <6>2. CASE Abandon(e)
              BY <1>0, <6>2, GoMoves, StepsAre DEF Abandon
            <6>3. CASE Die(e)
              BY <1>0, <6>3 DEF Die, Typed, ExportOK
            <6>4. QED
              BY <5>2, <6>1, <6>2, <6>3
          <5>5. QED
            BY <2>0, <5>4, NoWorkIs DEF Owned, OtherWork, Exporters
        <4>2. CASE e \notin Others
          BY <2>0, <4>2 DEF Owned, OtherWork, Exporters
        <4>3. QED
          BY <4>1, <4>2
      <3>5. Writing'
        <4>1. SUFFICES ASSUME NEW f \in Exporters, At(f, "writing")'
                       PROVE  /\ files'[Gen(f)'] \in {{}, {"rows"}}
                              /\ work'[f] = [NoWork EXCEPT !.at = "writing", !.kind = work'[f].kind, !.gen = Gen(f)']
                              /\ work'[f].kind = "selection" <=> f \in Others
          BY DEF Writing
        <4>2. work'[f] = work[f] /\ At(f, "writing") /\ Gen(f)' = Gen(f) /\ (f = e => WriteFile(e))
          BY <2>0, <3>1, <4>1, NoWorkIs DEF At, Gen, Publishing
        <4>3. files'[Gen(f)] \in {{}, {"rows"}}
          <5>1. files[Gen(f)] \in {{}, {"rows"}} /\ Gen(f) \in Gens
            BY <1>0, <4>2, Ranges DEF Owned, Writing, Own, At, Typed, DiskOK
          <5>2. CASE files' = files
            BY <5>1, <5>2
          <5>3. CASE \E gone : Delete(gone)
            BY <5>1, <5>3 DEF Delete
          <5>4. CASE WriteFile(e) /\ files' = [files EXCEPT ![Gen(e)] = @ \cup {First(Left(files[Gen(e)]))}]
            <6>1. CASE f = e
              <7>1. Cardinality(Left(files[Gen(e)])) # 1
                <8>1. ~Go(e, Written(work[e].kind))
                  BY <1>0, <4>2, <5>4, <6>1, GoMoves, NoWorkIs DEF WriteFile, Written, Steps, At
                <8>2. QED
                  BY <5>4, <8>1 DEF WriteFile
              <7>2. Cardinality({"status"}) = 1
                BY FS_Singleton
              <7>3. files[Gen(e)] # {"rows"}
                <8>1. Left({"rows"}) = {"status"}
                  BY DEF Left, Names
                <8>2. QED
                  BY <7>1, <7>2, <8>1
              <7>4. First(Left({})) = "rows"
                BY DEF First, Left, Names
              <7>5. QED
                BY <1>0, <5>1, <5>4, <6>1, <7>3, <7>4 DEF Typed, DiskOK
            <6>2. CASE f # e
              <7>1. Gen(f) # Gen(e)
                BY <3>1, <4>2, <6>2 DEF Owned, Own, At
              <7>2. QED
                BY <1>0, <5>1, <5>4, <7>1 DEF Typed, DiskOK
            <6>3. QED
              BY <6>1, <6>2
          <5>5. QED
            BY <1>2, <5>2, <5>3, <5>4, FilesMove
        <4>4. QED
          BY <4>2, <4>3 DEF Owned, Writing, Gen
      <3>6. QED
        BY <1>0, <1>2, <3>2, <3>3, <3>4, <3>5, FilesMove DEF Owned
    <2>3. QED
      BY <2>1, <2>2
  <1>3. CASE \E t \in Threads : Reader(t)
    BY <1>1, <1>3 DEF Reader, ReadPointer, Enter, Load, disk, pointers
  <1>4. CASE UNCHANGED pubVars
    BY <1>1, <1>4 DEF pubVars, disk, pointers
  <1>5. QED
    BY <1>2, <1>3, <1>4 DEF PubNext

\* An exporter without the lock touches no file but those of its own generation.
LEMMA OthersMove ==
    ASSUME Owned, NEW e \in Others, Exporter(e)
    PROVE  /\ work'[Publisher] = work[Publisher]
           /\ UNCHANGED <<kinds, active, root, temp, backup, torn>>
           /\ \A g \in Gens : files'[g] # files[g] => At(e, "writing") /\ g = Gen(e)
  <1>0. e \in Exporters /\ Publisher \in Exporters /\ e # Publisher /\ Typed
    BY ExportersAssumption DEF Exporters, Owned
  <1>1. work[e].at \in {"idle", "writing"}
    BY DEF Owned, OtherWork
  <1>2. (\E kind \in Kinds : Begin(e, kind)) \/ WriteFile(e) \/ Abandon(e) \/ Die(e)
    BY <1>1 DEF Exporter, Stage, Save, AllSaved, Install, MovePointer, List, SortByTime, Prune,
                Pruned, Fail, Undo, UndoFails, CleanUp, At
  <1>3. work'[Publisher] = work[Publisher]
    BY <1>0, OwnersMove
  <1>4. UNCHANGED <<kinds, active, root, temp, backup>>
    BY <1>2 DEF Begin, WriteFile, Abandon, Die, disk, pointers, rootFiles
  <1>5. torn' = torn
    BY <1>0, <1>1, <1>2 DEF Begin, WriteFile, Abandon, Die, Publishing, Typed, ExportOK
  <1>6. ASSUME NEW g \in Gens, files'[g] # files[g] PROVE At(e, "writing") /\ g = Gen(e)
    <2>1. CASE (\E kind \in Kinds : Begin(e, kind)) \/ Die(e)
      BY <1>6, <2>1 DEF Begin, Die, disk
    <2>2. CASE WriteFile(e)
      BY <1>0, <1>6, <2>2 DEF WriteFile, Typed, DiskOK
    <2>3. CASE Abandon(e)
      BY <1>6, <2>3 DEF Abandon, Delete
    <2>4. QED
      BY <1>2, <2>1, <2>2, <2>3
  <1>7. QED
    BY <1>3, <1>4, <1>5, <1>6

-----------------------------------------------------------------------------
(* The active generation can be read *)

\* The kinds the publisher makes, and the way a diagnostic one goes.
Roles ==
    work[Publisher].at \in Publishing =>
        /\ work[Publisher].kind \in {"published", "diagnostic"}
        /\ work[Publisher].kind = "diagnostic" => work[Publisher].at \in {"pointing", "listing", "pruning"}

\* What is being published is whole and not among the victims.
Kept ==
    /\ work[Publisher].at \in Publishing => files[Gen(Publisher)] = Names
    /\ Gen(Publisher) \notin work[Publisher].victims
    /\ work[Publisher].at # "pruning" => work[Publisher].victims = {}

Current ==
    /\ active # 0 => "published" \in kinds
    /\ work[Publisher].kind = "published" /\ work[Publisher].at \in {"listing", "pruning"} =>
           active = Gen(Publisher)

\* The publisher makes no diagnostics where it publishes.
Unmixed == ~({"published", "diagnostic"} \subseteq kinds)

Readable == Owned /\ Roles /\ Kept /\ Current /\ (Unmixed => ActiveReadable)

\* The publisher reaches the end of the writing with a whole generation.
LEMMA LastFile ==
    ASSUME Owned, NEW e \in Exporters, WriteFile(e)
    PROVE  /\ files'[Gen(e)] = Names /\ Go(e, Written(work[e].kind))
           \/ UNCHANGED work
  <1>1. Typed /\ Gen(e) \in Gens /\ files[Gen(e)] \in {{}, {"rows"}}
    BY Ranges DEF WriteFile, Owned, Own, Writing, At, Typed, DiskOK
  <1>2. ASSUME files[Gen(e)] = {} PROVE UNCHANGED work
    <2>1. Left({}) = {"rows", "status"} /\ "rows" # "status"
      BY DEF Left, Names
    <2>2. Cardinality({"rows", "status"}) # 1
      <3>1. Cardinality({"rows"}) = 1 /\ IsFiniteSet({"rows"})
        BY FS_Singleton
      <3>2. Cardinality({"rows"} \cup {"status"}) = 2
        BY <3>1, FS_AddElement
      <3>3. {"rows"} \cup {"status"} = {"rows", "status"}
        OBVIOUS
      <3>4. QED
        BY <3>2, <3>3
    <2>3. QED
      BY <1>2, <2>1, <2>2 DEF WriteFile
  <1>3. ASSUME files[Gen(e)] = {"rows"} PROVE files'[Gen(e)] = Names
    <2>1. First(Left({"rows"})) = "status" /\ {"rows"} \cup {"status"} = Names
      BY DEF First, Left, Names
    <2>2. files'[Gen(e)] = files[Gen(e)] \cup {First(Left(files[Gen(e)]))}
      BY <1>1 DEF WriteFile, Typed, DiskOK
    <2>3. QED
      BY <1>3, <2>1, <2>2
  <1>4. QED
    BY <1>1, <1>2, <1>3 DEF WriteFile

\* No generation is active at first.
LEMMA ReadableInit == PubInit => Readable
  <1> SUFFICES ASSUME PubInit PROVE Readable
    OBVIOUS
  <1>1. work[Publisher] = NoWork /\ work[Publisher].at = "idle" /\ active = 0
        /\ Gen(Publisher) = 0 /\ work[Publisher].victims = {}
    BY NoWorkIs DEF PubInit, Exporters, Gen
  <1>2. Owned
    BY OwnedInit
  <1>3. QED
    BY <1>1, <1>2 DEF Readable, Roles, Kept, Current, ActiveReadable, Publishing

\* Every step keeps the active generation: the pointer moves to a whole one,
\* and the pruning spares it.
LEMMA ReadableStep == Readable /\ [PubNext]_pubVars => Readable'
  <1> SUFFICES ASSUME Readable, [PubNext]_pubVars PROVE Readable'
    OBVIOUS
  <1> DEFINE P == Publisher
  <1>0. /\ Owned /\ Owned' /\ Typed /\ Typed' /\ P \in Exporters /\ work[P] \in Works /\ work'[P] \in Works
        /\ (~At(P, "idle") => Gen(P) \in 1..made /\ Gen(P) \in Gens /\ work[P].kind \in kinds)
        /\ active \in 0..made /\ (active # 0 => active \in Gens)
    <2>1. Owned /\ Owned' /\ P \in Exporters
      BY OwnedStep DEF Readable, Exporters
    <2>2. Typed /\ Typed' /\ work[P] \in Works /\ work'[P] \in Works
      BY <2>1 DEF Owned, Typed, ExportOK
    <2>3. active \in 0..made /\ (active # 0 => active \in Gens)
      BY <2>2, Ranges DEF Typed, DiskOK
    <2>4. QED
      BY <2>1, <2>2, <2>3, Ranges DEF Owned, Own, Typed, DiskOK
  <1>1. ASSUME UNCHANGED <<kinds, files, active, work>> PROVE Readable'
    BY <1>0, <1>1 DEF Readable, Roles, Kept, Current, ActiveReadable, Unmixed, Gen
  <1>2. ASSUME NEW e \in Others, Exporter(e) PROVE Readable'
    <2>0. e \in Exporters /\ e # P
      BY ExportersAssumption DEF Exporters
    <2>1. /\ work'[P] = work[P] /\ kinds' = kinds /\ active' = active
          /\ \A g \in Gens : files'[g] # files[g] => At(e, "writing") /\ g = Gen(e)
      BY <1>0, <1>2, OthersMove
    <2>2. ~At(P, "idle") => files'[Gen(P)] = files[Gen(P)]
      BY <1>0, <2>0, <2>1 DEF Owned, Own, At
    <2>3. active # 0 => files'[active] = files[active]
      BY <1>0, <2>0, <2>1 DEF Owned, Own, At
    <2>4. QED
      BY <1>0, <2>1, <2>2, <2>3
         DEF Readable, Roles, Kept, Current, ActiveReadable, Unmixed, Gen, At, Publishing
  <1>3. ASSUME Exporter(P) PROVE Readable'
    <2>0. kinds' = kinds
      BY <1>0, <1>3, OwnersMove
    <2>1. CASE \E kind \in Kinds : Begin(P, kind)
      <3>1. PICK kind \in Kinds : Begin(P, kind)
        BY <2>1
      <3>2. work'[P] = [NoWork EXCEPT !.at = "writing", !.kind = kind, !.gen = made + 1]
            /\ files' = files /\ active' = active
        BY <1>0, <3>1 DEF Begin, Typed, ExportOK, pointers
      <3>3. work'[P].at = "writing" /\ work'[P].victims = {}
        BY <3>2 DEF NoWork
      <3>4. QED
        BY <1>0, <2>0, <3>2, <3>3
           DEF Readable, Roles, Kept, Current, ActiveReadable, Unmixed, Gen, Publishing
    <2>2. CASE WriteFile(P)
      <3>1. files' = [files EXCEPT ![Gen(P)] = @ \cup {First(Left(files[Gen(P)]))}] /\ active' = active
            /\ At(P, "writing") /\ Gen(P) # active
        BY <1>0, <2>2 DEF WriteFile, pointers, Owned, Own, At
      <3>2. active # 0 => files'[active] = files[active]
        BY <1>0, <3>1 DEF Typed, DiskOK
      <3>3. ActiveReadable => ActiveReadable'
        BY <3>1, <3>2 DEF ActiveReadable
      <3>4. CASE UNCHANGED work
        BY <1>0, <2>0, <3>1, <3>3, <3>4
           DEF Readable, Roles, Kept, Current, Unmixed, Gen, At, Publishing
      <3>5. CASE files'[Gen(P)] = Names /\ Go(P, Written(work[P].kind))
        <4>1. work[P].kind # "selection" /\ work[P].victims = {}
          <5>1. P \notin Others
            BY ExportersAssumption
          <5>2. QED
            BY <1>0, <3>1, <5>1 DEF Owned, Writing, NoWork, At
        <4>2. Written(work[P].kind) = IF work[P].kind = "published" THEN "staging" ELSE "pointing"
          BY <1>0, <4>1, WorkTyped DEF Written, Kinds
        <4>3. /\ work'[P].at = Written(work[P].kind) /\ work'[P].kind = work[P].kind
              /\ work'[P].gen = Gen(P) /\ work'[P].victims = {}
          BY <1>0, <3>5, <4>1, <4>2, GoMoves DEF Steps
        <4>4. QED
          BY <1>0, <2>0, <3>1, <3>3, <3>5, <4>1, <4>2, <4>3, WorkTyped
             DEF Readable, Roles, Kept, Current, Unmixed, Gen, Publishing, Kinds
      <3>6. QED
        BY <1>0, <2>2, <3>4, <3>5, LastFile
    <2>3. CASE Abandon(P)
      <3>1. work'[P] = NoWork /\ active' = active /\ Gen(P) # active /\ Delete({Gen(P)})
        BY <1>0, <2>3, GoMoves, StepsAre DEF Abandon, pointers, Owned, Own, At
      <3>2. active # 0 => files'[active] = files[active]
        BY <1>0, <3>1 DEF Delete
      <3>3. QED
        BY <1>0, <2>0, <3>1, <3>2, NoWorkIs
           DEF Readable, Roles, Kept, Current, ActiveReadable, Unmixed, Gen, Publishing
    <2>4. ASSUME UNCHANGED <<files, active>>, work[P].at \in Publishing,
                 \/ work'[P] = NoWork
                 \/ /\ work'[P].gen = Gen(P) /\ work'[P].kind = work[P].kind
                    /\ work'[P].at \in Publishing
                    /\ work[P].kind = "diagnostic" => work'[P].at \in {"pointing", "listing", "pruning"}
                    /\ work'[P].at \in {"listing", "pruning"} => work[P].at \in {"listing", "pruning"}
                    /\ work'[P].at = "pruning" \/ work'[P].victims = {}
                    /\ Gen(P) \notin work'[P].victims
          PROVE Readable'
      BY <1>0, <2>0, <2>4, NoWorkIs
         DEF Readable, Roles, Kept, Current, ActiveReadable, Unmixed, Gen, Publishing
    <2>5. CASE Stage(P) \/ Save(P) \/ AllSaved(P) \/ Install(P) \/ Undo(P) \/ UndoFails(P) \/ CleanUp(P)
      <3>1. UNCHANGED <<files, active>> /\ ~At(P, "idle")
            /\ work[P].at \in {"staging", "saving", "installing", "undoing", "cleaning"}
        BY <2>5 DEF Stage, Save, AllSaved, Install, Undo, UndoFails, CleanUp, disk, pointers, At
      <3>2. work[P].kind = "published" /\ work[P].victims = {}
        BY <3>1 DEF Readable, Roles, Kept, Publishing, Steps
      <3>3. \/ work'[P] = NoWork
            \/ /\ work'[P].gen = Gen(P) /\ work'[P].kind = work[P].kind
               /\ work'[P].at \in {"staging", "saving", "installing", "pointing", "cleaning"}
               /\ work'[P].victims = {}
        <4>1. CASE Stage(P)
          BY <1>0, <3>2, <4>1, StageMoves DEF SameJob, Gen
        <4>2. CASE Save(P)
          BY <1>0, <3>2, <4>2, SaveMoves DEF SameJob, Gen
        <4>3. CASE Install(P)
          BY <1>0, <3>2, <4>3, InstallMoves DEF SameJob, Gen
        <4>4. CASE AllSaved(P) \/ Undo(P) \/ UndoFails(P) \/ CleanUp(P)
          <5>1. PICK s \in {"installing", "cleaning", "idle"} : Go(P, s)
            BY <4>4 DEF AllSaved, Undo, UndoFails, CleanUp
          <5>2. QED
            BY <1>0, <3>2, <5>1, GoMoves DEF Steps
        <4>5. QED
          BY <2>5, <4>1, <4>2, <4>3, <4>4
      <3>4. QED
        BY <2>4, <3>1, <3>2, <3>3 DEF Publishing, Steps
    <2>6. CASE MovePointer(P)
      <3>1. /\ At(P, "pointing") /\ work[P].at \in Publishing /\ files' = files
            /\ IF work[P].kind = "published" THEN active' = Gen(P) ELSE active' = active
        BY <2>6 DEF MovePointer, At, Publishing, Steps, disk
      <3>2. /\ work'[P].at = "listing" /\ work'[P].gen = Gen(P) /\ work'[P].kind = work[P].kind
            /\ work'[P].victims = work[P].victims
        <4>1. work'[P] = [work[P] EXCEPT !.at = "listing"]
          BY <1>0, <2>6 DEF MovePointer, Typed, ExportOK
        <4>2. QED
          BY <1>0, <4>1 DEF Works, Gen
      <3>3. files[Gen(P)] = Names /\ work[P].kind \in kinds /\ work[P].victims = {}
        BY <1>0, <3>1 DEF Readable, Kept, At
      <3>4. QED
        BY <1>0, <2>0, <3>1, <3>2, <3>3
           DEF Readable, Roles, Kept, Current, ActiveReadable, Unmixed, Gen, Publishing, At
    <2>7. CASE List(P)
      <3>1. PICK some : work' = [work EXCEPT ![P].seen = some]
        BY <2>7 DEF List
      <3>2. work'[P] = [work[P] EXCEPT !.seen = some]
        BY <1>0, <3>1 DEF Typed, ExportOK
      <3>3. /\ work'[P].at = "listing" /\ work[P].at = "listing" /\ work'[P].gen = Gen(P)
            /\ work'[P].kind = work[P].kind /\ work'[P].victims = work[P].victims
        BY <1>0, <2>7, <3>2 DEF Works, Gen, List, At
      <3>4. QED
        BY <2>4, <2>7, <3>3 DEF List, disk, pointers, Publishing, Steps, Readable, Kept, Roles
    <2>8. CASE SortByTime(P)
      <3>1. UNCHANGED <<files, active>> /\ work[P].at = "listing" /\ work[P].victims = {}
            /\ work[P].at \in Publishing
        BY <2>8 DEF SortByTime, disk, pointers, At, Readable, Kept, Publishing, Steps
      <3>2. CASE work' = [work EXCEPT ![P].at = "pruning", ![P].victims = Victims(work[P].seen, Gen(P))]
        <4>1. Gen(P) \notin Victims(work[P].seen, Gen(P))
          BY DEF Victims
        <4> DEFINE v == Victims(work[P].seen, Gen(P))
        <4>2. work'[P] = [work[P] EXCEPT !.at = "pruning", !.victims = v]
          BY <1>0, <3>2 DEF Typed, ExportOK
        <4>3. Gen(P) \notin v
          BY <4>1
        <4> HIDE DEF v
        <4>4. /\ work'[P].at = "pruning" /\ work'[P].gen = Gen(P) /\ work'[P].kind = work[P].kind
              /\ work'[P].victims = v
          BY <1>0, <4>2 DEF Works, Gen
        <4>5. QED
          BY <2>4, <3>1, <4>3, <4>4 DEF Publishing, Steps
      <3>3. CASE Go(P, Raised(P))
        <4>1. Raised(P) \in {"undoing", "idle"} /\ (Raised(P) = "undoing" => work[P].kind = "published")
          BY DEF Raised
        <4>2. \/ work'[P] = NoWork
              \/ /\ work'[P].at = "undoing" /\ work'[P].gen = Gen(P) /\ work'[P].kind = work[P].kind
                 /\ work'[P].victims = {} /\ work[P].kind = "published"
          BY <1>0, <3>1, <3>3, <4>1, GoMoves DEF Steps
        <4>3. QED
          BY <2>4, <3>1, <4>2 DEF Publishing, Steps
      <3>4. QED
        BY <2>8, <3>2, <3>3 DEF SortByTime
    <2>9. CASE Prune(P)
      <3>1. PICK g \in work[P].victims : Delete({g}) /\ work' = [work EXCEPT ![P].victims = @ \ {g}]
        BY <2>9 DEF Prune
      <3>2. work[P].at = "pruning" /\ active' = active /\ g # Gen(P)
        BY <2>9, <3>1 DEF Prune, At, pointers, Readable, Kept
      <3>3. /\ work'[P].at = "pruning" /\ work'[P].gen = Gen(P) /\ work'[P].kind = work[P].kind
            /\ work'[P].victims \subseteq work[P].victims
        <4>1. work'[P] = [work[P] EXCEPT !.victims = @ \ {g}]
          BY <1>0, <3>1 DEF Typed, ExportOK
        <4>2. QED
          BY <1>0, <3>2, <4>1 DEF Works, Gen
      <3>4. files'[Gen(P)] = files[Gen(P)] /\ files'[active] = IF active = g /\ active # 0 THEN {} ELSE files'[active]
        BY <1>0, <3>1, <3>2 DEF Delete, At
      <3>5. Unmixed /\ active # 0 => files'[active] = files[active]
        <4>1. SUFFICES ASSUME Unmixed, active # 0 PROVE active # g
          BY <1>0, <3>1 DEF Delete
        <4>2. work[P].kind = "published"
          BY <1>0, <3>2, <4>1 DEF Unmixed, Readable, Roles, Current, Publishing, Steps, At
        <4>3. QED
          BY <3>2, <4>2 DEF Readable, Current
      <3>6. QED
        BY <1>0, <2>0, <3>2, <3>3, <3>4, <3>5
           DEF Readable, Roles, Kept, Current, ActiveReadable, Unmixed, Gen, Publishing, Steps
    <2>10. CASE Pruned(P)
      <3>1. UNCHANGED <<files, active>> /\ work[P].at = "pruning" /\ work[P].victims = {}
        BY <2>10 DEF Pruned, disk, pointers, At
      <3>2. \/ work'[P] = NoWork
            \/ /\ work'[P].at = "cleaning" /\ work'[P].gen = Gen(P) /\ work'[P].kind = work[P].kind
               /\ work'[P].victims = {} /\ work[P].kind = "published"
        <4>1. work'[P] = IF work[P].kind = "published" THEN [work[P] EXCEPT !.at = "cleaning", !.won = TRUE]
                                                       ELSE NoWork
          BY <1>0, <2>10 DEF Pruned, Typed, ExportOK
        <4>2. CASE work[P].kind = "published"
          BY <1>0, <3>1, <4>1, <4>2 DEF Works, Gen
        <4>3. QED
          BY <4>1, <4>2
      <3>3. QED
        BY <2>4, <3>1, <3>2 DEF Publishing, Steps
    <2>11. CASE Fail(P)
      <3>1. UNCHANGED <<files, active>> /\ work[P].at \in {"staging", "saving", "installing", "pointing", "listing"}
            /\ Go(P, Raised(P))
        BY <2>11 DEF Fail, disk, pointers
      <3>2. work[P].victims = {}
        BY <3>1 DEF Readable, Kept
      <3>3. Raised(P) \in {"undoing", "idle"} /\ (Raised(P) = "undoing" => work[P].kind = "published")
        BY DEF Raised
      <3>4. \/ work'[P] = NoWork
            \/ /\ work'[P].at = "undoing" /\ work'[P].gen = Gen(P) /\ work'[P].kind = work[P].kind
               /\ work'[P].victims = {} /\ work[P].kind = "published"
        BY <1>0, <3>1, <3>2, <3>3, GoMoves DEF Steps
      <3>5. QED
        BY <2>4, <3>1, <3>4 DEF Publishing, Steps
    <2>12. CASE Die(P)
      <3>1. work'[P] = NoWork /\ UNCHANGED <<files, active>>
        BY <1>0, <2>12 DEF Die, disk, pointers, Typed, ExportOK
      <3>2. QED
        BY <1>0, <2>0, <3>1, NoWorkIs
           DEF Readable, Roles, Kept, Current, ActiveReadable, Unmixed, Gen, Publishing
    <2>13. QED
      BY <1>3, <2>1, <2>2, <2>3, <2>5, <2>6, <2>7, <2>8, <2>9, <2>10, <2>11, <2>12 DEF Exporter
  <1>4. CASE \E t \in Threads : Reader(t)
    BY <1>1, <1>4 DEF Reader, ReadPointer, Enter, Load, disk, pointers
  <1>5. CASE UNCHANGED pubVars
    BY <1>1, <1>5 DEF pubVars, disk, pointers
  <1>6. QED
    BY <1>2, <1>3, <1>4, <1>5 DEF PubNext, Exporters

\* The state of the export stays well typed (exportsvc.py).
THEOREM PubTypeCorrect == PubSpec => []PubTypeOK
  <1>1. PubInit => Owned
    BY OwnedInit
  <1>2. Owned /\ [PubNext]_pubVars => Owned'
    BY OwnedStep
  <1>3. Owned => PubTypeOK
    BY DEF Owned, Typed, DiskOK, RootOK, ExportOK, ReadersOK, Works, PubTypeOK
  <1>4. QED
    BY <1>1, <1>2, <1>3, PTL DEF PubSpec

\* Where no diagnostics are exported beside publications, the active generation
\* is on disk and whole at any time, whatever is written, pruned, interrupted or
\* failed since (publish, prune_generations).
THEOREM ActiveCanBeRead == PubSpec => [](Unmixed => ActiveReadable)
  <1>1. PubInit => Readable
    BY ReadableInit
  <1>2. Readable /\ [PubNext]_pubVars => Readable'
    BY ReadableStep
  <1>3. Readable => (Unmixed => ActiveReadable)
    BY DEF Readable
  <1>4. QED
    BY <1>1, <1>2, <1>3, PTL DEF PubSpec

-----------------------------------------------------------------------------
(* The compatibility files *)

\* A generation is younger than the pointer until the pointer moves to it.
Ahead ==
    work[Publisher].at \in {"writing", "staging", "saving", "installing", "pointing"} =>
        Gen(Publisher) > active

Bare ==
    work[Publisher].at \in {"idle", "writing"} \/ work[Publisher].kind = "diagnostic" =>
        /\ work[Publisher].staged = {} /\ work[Publisher].saved = {}
        /\ work[Publisher].installed = {} /\ ~work[Publisher].won

\* How far the exchange of the root files is in each step of a publication.
Exchange ==
    LET w == work[Publisher]
        IsNew(n) == root[n] = Gen(Publisher)
    IN  /\ w.at = "staging" => w.staged \in {{}, {"rows"}} /\ w.saved = {} /\ w.installed = {}
        /\ w.at \in {"saving", "installing"} => w.staged = Names
        /\ w.at \in {"staging", "saving", "installing"} =>
               \A n \in w.staged \ w.installed : temp[n] = Gen(Publisher)
        /\ w.at = "saving" => w.installed = {} /\ \A n \in w.saved : root[n] = 0
        /\ w.at = "installing" =>
               /\ w.installed \in {{}, {"rows"}}
               /\ \A n \in Names : IF n \in w.installed THEN IsNew(n) ELSE root[n] = 0
        /\ w.kind = "published" /\ w.at \in {"pointing", "listing", "pruning"} => \A n \in Names : IsNew(n)
        /\ w.won => w.at = "cleaning" /\ active = Gen(Publisher) /\ \A n \in Names : IsNew(n)
        /\ w.at = "cleaning" /\ ~w.won /\ ~torn => \A n \in Names : root[n] = Undone(Publisher, n)

\* At any time a rollback would give back one generation, that of the pointer
\* or an older one.
WayBack == ~torn => \E g \in 0..active : \A n \in Names : Undone(Publisher, n) = g

Exchanged == Readable /\ Ahead /\ Bare /\ Exchange /\ WayBack

\* There is nothing to roll back at first.
LEMMA ExchangedInit == PubInit => Exchanged
  <1> SUFFICES ASSUME PubInit PROVE Exchanged
    OBVIOUS
  <1>1. work[Publisher] = NoWork /\ active = 0 /\ 0 \in 0..active /\ \A n \in Names : root[n] = 0
    BY DEF PubInit, Exporters
  <1>2. Readable
    BY ReadableInit
  <1>3. QED
    BY <1>1, <1>2, NoWorkIs DEF Exchanged, Ahead, Bare, Exchange, WayBack, Undone

\* Every step keeps the way back: saving and installing change where a file is,
\* not what the rollback would make of it.
LEMMA ExchangedStep == Exchanged /\ [PubNext]_pubVars => Exchanged'
  <1> SUFFICES ASSUME Exchanged, [PubNext]_pubVars PROVE Exchanged'
    OBVIOUS
  <1> DEFINE P == Publisher
  <1>0. /\ Readable' /\ Readable /\ Owned /\ Typed /\ Typed' /\ P \in Exporters
        /\ work[P] \in Works /\ work \in [Exporters -> Works]
        /\ active \in 0..made /\ active' \in 0..made' /\ active \in Nat /\ active' \in Nat /\ made \in Nat
        /\ Gen(P) \in Nat
        /\ root \in [Names -> 0..MaxGens] /\ temp \in [Names -> 0..MaxGens] /\ backup \in [Names -> 0..MaxGens]
    <2>1. Readable' /\ Readable /\ Owned /\ P \in Exporters
      BY ReadableStep DEF Exchanged, Readable, Exporters
    <2>2. Typed /\ Typed' /\ work[P] \in Works /\ work \in [Exporters -> Works]
      BY <2>1 DEF Owned, Typed, ExportOK, Readable
    <2>3. made \in Nat /\ made' \in Nat /\ active \in 0..made /\ active' \in 0..made' /\ Gen(P) \in 0..MaxGens
      BY <2>2, Ranges, WorkTyped DEF Typed, DiskOK, Gen
    <2>4. QED
      BY <2>1, <2>2, <2>3, Ranges DEF Typed, RootOK
  <1>1. ASSUME UNCHANGED <<active, root, temp, backup, torn>>, work'[P] = work[P] PROVE Exchanged'
    BY <1>0, <1>1 DEF Exchanged, Ahead, Bare, Exchange, WayBack, Undone, Gen
  <1>2. ASSUME NEW e \in Others, Exporter(e) PROVE Exchanged'
    BY <1>0, <1>1, <1>2, OthersMove
  <1>3. ASSUME Exporter(P) PROVE Exchanged'
    <2>1. CASE \E kind \in Kinds : Begin(P, kind)
      <3>1. PICK kind \in Kinds : Begin(P, kind)
        BY <2>1
      <3>2. work'[P] = [NoWork EXCEPT !.at = "writing", !.kind = kind, !.gen = made + 1]
            /\ UNCHANGED <<active, root, temp, backup, torn>> /\ work[P].at = "idle"
        BY <1>0, <3>1 DEF Begin, pointers, rootFiles, At
      <3>3. /\ work'[P].at = "writing" /\ work'[P].gen = made + 1 /\ ~work'[P].won
            /\ work'[P].staged = {} /\ work'[P].saved = {} /\ work'[P].installed = {}
        BY <3>2 DEF NoWork
      <3>4. \A n \in Names : Undone(P, n)' = Undone(P, n)
        BY <3>2, <3>3 DEF Exchanged, Bare, Undone
      <3>5. QED
        BY <1>0, <3>2, <3>3, <3>4 DEF Exchanged, Ahead, Bare, Exchange, WayBack, Gen
    \* It stops without having touched the root, or dies.
    <2>2. ASSUME work'[P] = NoWork, UNCHANGED <<active, root>>,
                 \/ torn' = torn /\ work[P].saved = {} /\ work[P].installed = {}
                 \/ torn'
                 \/ ~torn' /\ \E g \in 0..active : \A n \in Names : root[n] = g
          PROVE Exchanged'
      <3>1. \A n \in Names : Undone(P, n)' = root[n]
        BY <2>2, NoWorkIs DEF Undone
      <3>2. WayBack'
        BY <2>2, <3>1 DEF Exchanged, WayBack, Undone
      <3>3. QED
        BY <1>0, <2>2, <3>2, NoWorkIs DEF Exchanged, Ahead, Bare, Exchange
    \* It goes on without touching the root.
    <2>3. ASSUME UNCHANGED <<active, root, temp, backup, torn>>, work'[P].gen = work[P].gen,
                 work'[P].saved = work[P].saved, work'[P].installed = work[P].installed
          PROVE  Ahead' = (work'[P].at \in {"writing", "staging", "saving", "installing", "pointing"} =>
                               Gen(P) > active)
                 /\ WayBack' /\ \A n \in Names : Undone(P, n)' = Undone(P, n)
      BY <2>3 DEF Ahead, WayBack, Undone, Gen, Exchanged
    <2>4. CASE WriteFile(P)
      <3>1. UNCHANGED <<active, root, temp, backup, torn>> /\ work[P].at = "writing" /\ P \notin Others
            /\ work[P].kind # "selection"
        <4>1. UNCHANGED <<active, root, temp, backup, torn>> /\ work[P].at = "writing" /\ P \notin Others
          BY <2>4, ExportersAssumption DEF WriteFile, pointers, rootFiles, At
        <4>2. QED
          BY <1>0, <4>1 DEF Owned, Writing, At
      <3>2. CASE UNCHANGED work
        BY <1>1, <3>1, <3>2
      <3>3. CASE Go(P, Written(work[P].kind))
        <4>1. Written(work[P].kind) = IF work[P].kind = "published" THEN "staging" ELSE "pointing"
          BY <1>0, <3>1, WorkTyped DEF Written, Kinds
        <4>2. /\ work[P].staged = {} /\ work[P].saved = {} /\ work[P].installed = {} /\ ~work[P].won
          BY <3>1 DEF Exchanged, Bare
        <4>3. /\ work'[P].at = Written(work[P].kind) /\ work'[P].gen = Gen(P) /\ work'[P].kind = work[P].kind
              /\ work'[P].staged = {} /\ work'[P].saved = {} /\ work'[P].installed = {}
              /\ ~work'[P].won
          BY <1>0, <3>3, <4>1, <4>2, GoMoves DEF Steps
        <4>4. Gen(P) > active
          BY <3>1 DEF Exchanged, Ahead
        <4>5. QED
          BY <1>0, <2>3, <3>1, <4>1, <4>2, <4>3, <4>4 DEF Exchanged, Bare, Exchange, Gen
      <3>4. QED
        BY <1>0, <2>4, <3>2, <3>3, LastFile
    <2>5. CASE Abandon(P)
      BY <1>0, <2>2, <2>5, GoMoves, StepsAre DEF Abandon, pointers, rootFiles, At, Exchanged, Bare
    <2>6. CASE Stage(P)
      <3> DEFINE n == First(Left(work[P].staged))
      <3>1. /\ UNCHANGED <<active, root, backup, torn>> /\ work[P].at = "staging"
            /\ temp' = [temp EXCEPT ![n] = Gen(P)]
        BY <2>6 DEF Stage, pointers, At
      <3>2. /\ n \in Names /\ work'[P].gen = Gen(P) /\ work'[P].kind = work[P].kind /\ work'[P].won = work[P].won
            /\ work'[P].at = IF n = "status" THEN "saving" ELSE "staging"
            /\ work'[P].staged = work[P].staged \cup {n}
            /\ work'[P].saved = work[P].saved /\ work'[P].installed = work[P].installed
        BY <1>0, <2>6, StageMoves DEF SameJob, Gen
      <3>3. /\ work[P].saved = {} /\ work[P].installed = {} /\ ~work[P].won /\ Gen(P) > active
            /\ work[P].kind = "published"
            /\ work[P].staged \in {{}, {"rows"}} /\ \A m \in work[P].staged : temp[m] = Gen(P)
        BY <1>0, <3>1 DEF Exchanged, Exchange, Ahead, Readable, Roles, Publishing, Steps
      <3>4. /\ work[P].staged = {} => n = "rows"
            /\ work[P].staged = {"rows"} => n = "status" /\ work[P].staged \cup {n} = Names
        BY DEF First, Left, Names
      <3>5. \A m \in work[P].staged \cup {n} : temp'[m] = Gen(P)
        BY <1>0, <3>1, <3>2, <3>3 DEF Names
      <3> HIDE DEF n
      <3>6. WayBack'
        BY <3>1, <3>2 DEF Exchanged, WayBack, Undone
      <3>7. Exchange'
        BY <3>1, <3>2, <3>3, <3>4, <3>5 DEF Exchange, Gen
      <3>8. QED
        BY <1>0, <3>1, <3>2, <3>3, <3>6, <3>7 DEF Exchanged, Ahead, Bare, Gen
    <2>7. CASE Save(P)
      <3> DEFINE n == First(Present)
      <3>1. /\ UNCHANGED <<active, temp, torn>>
            /\ backup' = [backup EXCEPT ![n] = root[n]] /\ root' = [root EXCEPT ![n] = 0]
        BY <2>7 DEF Save, pointers
      <3>2. /\ n \in Names /\ n \in Present /\ work'[P].gen = Gen(P) /\ work'[P].kind = work[P].kind
            /\ work'[P].won = work[P].won /\ work[P].at = "saving" /\ work'[P].at = "saving"
            /\ work'[P].saved = work[P].saved \cup {n}
            /\ work'[P].staged = work[P].staged /\ work'[P].installed = work[P].installed
        BY <1>0, <2>7, SaveMoves DEF SameJob, Gen
      <3> HIDE DEF n
      <3>3. /\ work[P].installed = {} /\ work[P].staged = Names /\ ~work[P].won /\ Gen(P) > active
            /\ work[P].kind = "published" /\ \A m \in Names : temp[m] = Gen(P)
            /\ \A m \in work[P].saved : root[m] = 0
        BY <1>0, <3>2 DEF Exchanged, Exchange, Ahead, Readable, Roles, Publishing, Steps
      <3>4. n \notin work[P].saved
        BY <3>2, <3>3 DEF Present
      <3>5. work[P].saved \subseteq Names
        BY <1>0, WorkTyped
      <3>6. \A m \in Names : Undone(P, m)' = Undone(P, m)
        BY <1>0, <3>1, <3>2, <3>3, <3>4 DEF Undone
      <3>7. WayBack'
        BY <3>1, <3>6 DEF Exchanged, WayBack
      <3>8. \A m \in work'[P].saved : root'[m] = 0
        BY <1>0, <3>1, <3>2, <3>3, <3>5
      <3>9. Exchange'
        BY <3>1, <3>2, <3>3, <3>8 DEF Exchange, Gen
      <3>10. QED
        BY <1>0, <3>1, <3>2, <3>3, <3>7, <3>9 DEF Exchanged, Ahead, Bare, Gen
    <2>8. CASE AllSaved(P)
      <3>1. /\ UNCHANGED <<active, root, temp, backup, torn>> /\ work[P].at = "saving"
            /\ \A n \in Names : root[n] = 0
        BY <2>8 DEF AllSaved, pointers, rootFiles, At, Present
      <3>2. /\ work'[P].at = "installing" /\ work'[P].gen = Gen(P) /\ work'[P].kind = work[P].kind
            /\ work'[P].staged = work[P].staged /\ work'[P].saved = work[P].saved
            /\ work'[P].installed = work[P].installed /\ work'[P].won = work[P].won
        BY <1>0, <2>8, GoMoves DEF AllSaved, Steps
      <3>3. /\ work[P].installed = {} /\ work[P].staged = Names /\ ~work[P].won /\ Gen(P) > active
            /\ work[P].kind = "published" /\ \A m \in Names : temp[m] = Gen(P)
        BY <1>0, <3>1 DEF Exchanged, Exchange, Ahead, Readable, Roles, Publishing, Steps
      <3>4. QED
        BY <1>0, <2>3, <3>1, <3>2, <3>3 DEF Exchanged, Bare, Exchange, Gen
    <2>9. CASE Install(P)
      <3> DEFINE n == First(Left(work[P].installed))
      <3>1. /\ UNCHANGED <<active, backup, torn>> /\ work[P].at = "installing"
            /\ root' = [root EXCEPT ![n] = temp[n]] /\ temp' = [temp EXCEPT ![n] = 0]
        BY <2>9 DEF Install, pointers, At
      <3>2. /\ n \in Names /\ work'[P].gen = Gen(P) /\ work'[P].kind = work[P].kind /\ work'[P].won = work[P].won
            /\ work'[P].at = IF n = "status" THEN "pointing" ELSE "installing"
            /\ work'[P].installed = work[P].installed \cup {n}
            /\ work'[P].saved = work[P].saved /\ work'[P].staged = work[P].staged
        BY <1>0, <2>9, InstallMoves DEF SameJob, Gen
      <3>3. /\ work[P].staged = Names /\ ~work[P].won /\ Gen(P) > active
            /\ work[P].kind = "published" /\ \A m \in Names \ work[P].installed : temp[m] = Gen(P)
            /\ work[P].installed \in {{}, {"rows"}}
            /\ \A m \in Names : root[m] = IF m \in work[P].installed THEN Gen(P) ELSE 0
        BY <1>0, <3>1 DEF Exchanged, Exchange, Ahead, Readable, Roles, Publishing, Steps
      <3>4. /\ work[P].installed = {} => n = "rows"
            /\ work[P].installed = {"rows"} => n = "status" /\ work[P].installed \cup {n} = Names
        BY DEF First, Left, Names
      <3>5. n \notin work[P].installed
        BY <3>3, <3>4
      <3> HIDE DEF n
      <3>6. \A m \in Names : root'[m] = IF m \in work[P].installed \cup {n} THEN Gen(P) ELSE 0
        BY <1>0, <3>1, <3>2, <3>3, <3>5
      <3>7. \A m \in Names \ (work[P].installed \cup {n}) : temp'[m] = Gen(P)
        BY <1>0, <3>1, <3>2, <3>3
      <3>8. \A m \in Names : Undone(P, m)' = Undone(P, m)
        BY <3>1, <3>2, <3>3, <3>5, <3>6 DEF Undone
      <3>9. WayBack'
        BY <3>1, <3>8 DEF Exchanged, WayBack
      <3>10. Exchange'
        BY <3>1, <3>2, <3>3, <3>4, <3>6, <3>7 DEF Exchange, Gen
      <3>11. QED
        BY <1>0, <3>1, <3>2, <3>3, <3>9, <3>10 DEF Exchanged, Ahead, Bare, Gen
    <2>10. CASE MovePointer(P)
      <3>1. /\ UNCHANGED <<root, temp, backup, torn>> /\ work[P].at = "pointing"
            /\ active' = IF work[P].kind = "published" THEN Gen(P) ELSE active
        BY <2>10 DEF MovePointer, rootFiles, At
      <3>2. work'[P] = [work[P] EXCEPT !.at = "listing"]
        BY <1>0, <2>10 DEF MovePointer
      <3>3. /\ work'[P].at = "listing" /\ work'[P].gen = Gen(P) /\ work'[P].kind = work[P].kind
            /\ work'[P].staged = work[P].staged /\ work'[P].saved = work[P].saved
            /\ work'[P].installed = work[P].installed /\ work'[P].won = work[P].won
        BY <1>0, <3>2 DEF Works, Gen
      <3>4. ~work[P].won /\ Gen(P) > active
            /\ (work[P].kind = "published" => \A n \in Names : root[n] = Gen(P))
        BY <3>1 DEF Exchanged, Exchange, Ahead
      <3>5. 0..active \subseteq 0..active'
        BY <1>0, <3>1, <3>4
      <3>6. WayBack'
        BY <3>1, <3>3, <3>5 DEF Exchanged, WayBack, Undone
      <3>7. QED
        BY <1>0, <3>1, <3>3, <3>4, <3>6 DEF Exchanged, Ahead, Bare, Exchange, Gen
    <2>11. CASE List(P) \/ Prune(P)
      <3>1. UNCHANGED <<active, root, temp, backup, torn>>
        BY <2>11 DEF List, Prune, pointers, rootFiles
      <3>2. /\ work'[P].at = work[P].at /\ work'[P].gen = Gen(P) /\ work'[P].kind = work[P].kind
            /\ work'[P].staged = work[P].staged /\ work'[P].saved = work[P].saved
            /\ work'[P].installed = work[P].installed /\ work'[P].won = work[P].won
        <4>1. CASE List(P)
          <5>1. work'[P] = [work[P] EXCEPT !.seen = dirs]
            BY <1>0, <4>1 DEF List
          <5>2. QED
            BY <1>0, <5>1 DEF Works, Gen
        <4>2. CASE Prune(P)
          <5>1. PICK g : work' = [work EXCEPT ![P].victims = @ \ {g}]
            BY <4>2 DEF Prune
          <5>2. work'[P] = [work[P] EXCEPT !.victims = @ \ {g}]
            BY <1>0, <5>1
          <5>3. QED
            BY <1>0, <5>2 DEF Works, Gen
        <4>3. QED
          BY <2>11, <4>1, <4>2
      <3>3. QED
        BY <1>0, <3>1, <3>2 DEF Exchanged, Ahead, Bare, Exchange, WayBack, Undone, Gen
    <2>12. CASE Pruned(P)
      <3>1. UNCHANGED <<active, root, temp, backup, torn>> /\ work[P].at = "pruning"
        BY <2>12 DEF Pruned, pointers, rootFiles, At
      <3>2. work'[P] = IF work[P].kind = "published" THEN [work[P] EXCEPT !.at = "cleaning", !.won = TRUE]
                                                     ELSE NoWork
        BY <1>0, <2>12 DEF Pruned
      <3>3. CASE work[P].kind = "published"
        <4>1. /\ work'[P].at = "cleaning" /\ work'[P].gen = Gen(P) /\ work'[P].kind = work[P].kind
              /\ work'[P].saved = work[P].saved
              /\ work'[P].installed = work[P].installed /\ work'[P].won = TRUE
          BY <1>0, <3>2, <3>3 DEF Works, Gen
        <4>2. active = Gen(P) /\ \A n \in Names : root[n] = Gen(P)
          BY <3>1, <3>3 DEF Exchanged, Exchange, Readable, Current
        <4>3. QED
          BY <1>0, <2>3, <3>1, <3>3, <4>1, <4>2 DEF Exchanged, Bare, Exchange, Gen
      <3>4. CASE work[P].kind # "published"
        <4>1. work[P].kind = "diagnostic"
          BY <3>1, <3>4 DEF Exchanged, Readable, Roles, Publishing, Steps
        <4>2. QED
          BY <2>2, <3>1, <3>2, <3>4, <4>1 DEF Exchanged, Bare
      <3>5. QED
        BY <3>3, <3>4
    <2>13. CASE Fail(P) \/ SortByTime(P)
      <3>1. UNCHANGED <<active, root, temp, backup, torn>>
            /\ work[P].at \in {"staging", "saving", "installing", "pointing", "listing"}
        BY <2>13 DEF Fail, SortByTime, pointers, rootFiles, At
      <3>2. ~work[P].won /\ work[P].kind \in {"published", "diagnostic"}
        BY <3>1 DEF Exchanged, Exchange, Readable, Roles, Publishing, Steps
      <3>3. CASE Go(P, Raised(P))
        <4>1. CASE work[P].kind = "published"
          <5>1. /\ work'[P].at = "undoing" /\ work'[P].gen = Gen(P) /\ work'[P].kind = work[P].kind
                /\ work'[P].saved = work[P].saved
                /\ work'[P].installed = work[P].installed /\ ~work'[P].won
            BY <1>0, <3>2, <3>3, <4>1, GoMoves DEF Raised, Steps
          <5>2. QED
            BY <1>0, <2>3, <3>1, <4>1, <5>1 DEF Exchanged, Bare, Exchange, Gen
        <4>2. CASE work[P].kind # "published"
          <5>1. work'[P] = NoWork
            BY <1>0, <3>3, <4>2, GoMoves, StepsAre DEF Raised
          <5>2. QED
            BY <2>2, <3>1, <3>2, <4>2, <5>1 DEF Exchanged, Bare
        <4>3. QED
          BY <4>1, <4>2
      <3>4. CASE SortByTime(P) /\ ~Go(P, Raised(P))
        <4> DEFINE v == Victims(work[P].seen, Gen(P))
        <4>1. work[P].at = "listing" /\ work'[P] = [work[P] EXCEPT !.at = "pruning", !.victims = v]
          BY <1>0, <3>4 DEF SortByTime, At
        <4> HIDE DEF v
        <4>2. /\ work'[P].at = "pruning" /\ work'[P].gen = Gen(P) /\ work'[P].kind = work[P].kind
              /\ work'[P].staged = work[P].staged /\ work'[P].saved = work[P].saved
              /\ work'[P].installed = work[P].installed /\ work'[P].won = work[P].won
          BY <1>0, <4>1 DEF Works, Gen
        <4>3. QED
          BY <1>0, <2>3, <3>1, <3>2, <4>1, <4>2 DEF Exchanged, Bare, Exchange, Gen
      <3>5. QED
        BY <2>13, <3>3, <3>4 DEF Fail
    <2>14. CASE Undo(P)
      <3>1. /\ UNCHANGED <<active, temp, backup, torn>> /\ work[P].at = "undoing"
            /\ \A n \in Names : root'[n] = Undone(P, n)
        BY <2>14 DEF Undo, pointers, At
      <3>2. /\ work'[P].at = "cleaning" /\ work'[P].gen = Gen(P) /\ work'[P].kind = work[P].kind
            /\ work'[P].saved = work[P].saved
            /\ work'[P].installed = work[P].installed /\ work'[P].won = work[P].won
        BY <1>0, <2>14, GoMoves DEF Undo, Steps
      <3>3. ~work[P].won /\ work[P].kind = "published"
        BY <3>1 DEF Exchanged, Exchange, Readable, Roles, Publishing, Steps
      <3>4. \A n \in Names : Undone(P, n)' = Undone(P, n) /\ root'[n] = Undone(P, n)'
        BY <3>1, <3>2 DEF Undone
      <3>5. WayBack'
        BY <3>1, <3>4 DEF Exchanged, WayBack
      <3>6. QED
        BY <1>0, <3>1, <3>2, <3>3, <3>4, <3>5 DEF Exchanged, Ahead, Bare, Exchange, Gen
    <2>15. CASE UndoFails(P)
      <3>1. torn' /\ UNCHANGED <<active, temp, backup>> /\ work[P].at = "undoing"
        BY <2>15 DEF UndoFails, pointers, At
      <3>2. /\ work'[P].at = "cleaning" /\ work'[P].kind = work[P].kind /\ work'[P].won = work[P].won
        BY <1>0, <2>15, GoMoves DEF UndoFails, Steps
      <3>3. ~work[P].won /\ work[P].kind = "published"
        BY <3>1 DEF Exchanged, Exchange, Readable, Roles, Publishing, Steps
      <3>4. QED
        BY <1>0, <3>1, <3>2, <3>3 DEF Exchanged, Ahead, Bare, Exchange, WayBack
    <2>16. CASE CleanUp(P)
      <3>1. /\ UNCHANGED <<active, root>> /\ work[P].at = "cleaning"
            /\ torn' = (torn /\ ~work[P].won)
        BY <2>16 DEF CleanUp, pointers, At
      <3>2. work'[P] = NoWork
        BY <1>0, <2>16, GoMoves, StepsAre DEF CleanUp
      <3>3. CASE work[P].won
        <4>1. \A n \in Names : root[n] = active
          BY <3>3 DEF Exchanged, Exchange
        <4>2. active \in 0..active
          BY <1>0
        <4>3. ~torn'
          BY <3>1, <3>3, Zenon
        <4>4. QED
          BY <2>2, <3>1, <3>2, <4>1, <4>2, <4>3
      <3>4. CASE ~work[P].won /\ ~torn
        <4>1. \E g \in 0..active : \A n \in Names : root[n] = g
          BY <3>1, <3>4 DEF Exchanged, Exchange, WayBack
        <4>2. QED
          BY <2>2, <3>1, <3>2, <3>4, <4>1
      <3>5. CASE ~work[P].won /\ torn
        BY <2>2, <3>1, <3>2, <3>5
      <3>6. QED
        BY <1>0, <3>3, <3>4, <3>5, WorkTyped
    <2>17. CASE Die(P)
      <3>1. /\ UNCHANGED <<active, root>> /\ work'[P] = NoWork /\ work[P].at # "idle"
            /\ torn' = (torn \/ (work[P].kind = "published" /\ work[P].at \in Publishing))
        BY <1>0, <2>17 DEF Die, pointers, rootFiles, At
      <3>2. CASE work[P].kind = "published" /\ work[P].at \in Publishing
        BY <2>2, <3>1, <3>2
      <3>3. CASE ~(work[P].kind = "published" /\ work[P].at \in Publishing)
        <4>1. work[P].saved = {} /\ work[P].installed = {}
          BY <1>0, <3>1, <3>3, WorkTyped DEF Exchanged, Bare, Readable, Roles, Publishing
        <4>2. torn' = torn
          BY <1>0, <3>1, <3>3 DEF Typed, ExportOK
        <4>3. QED
          BY <2>2, <3>1, <4>1, <4>2
      <3>4. QED
        BY <3>2, <3>3
    <2>18. QED
      BY <1>3, <2>1, <2>4, <2>5, <2>6, <2>7, <2>8, <2>9, <2>10, <2>11, <2>12, <2>13, <2>14, <2>15,
         <2>16, <2>17 DEF Exporter
  <1>4. CASE \E t \in Threads : Reader(t)
    BY <1>1, <1>4 DEF Reader, ReadPointer, Enter, Load, disk, pointers, rootFiles
  <1>5. CASE UNCHANGED pubVars
    BY <1>1, <1>5 DEF pubVars, disk, pointers, rootFiles
  <1>6. QED
    BY <1>2, <1>3, <1>4, <1>5 DEF PubNext, Exporters

\* Between publications the compatibility files are of one generation that the
\* pointer has reached, whichever step of which publication failed
\* (_publish_legacy_files).
THEOREM RootFilesAreWhole == PubSpec => []RootWhole
  <1>1. PubInit => Exchanged
    BY ExchangedInit
  <1>2. Exchanged /\ [PubNext]_pubVars => Exchanged'
    BY ExchangedStep
  <1>3. Exchanged => RootWhole
    <2> SUFFICES ASSUME Exchanged, work[Publisher].at \notin Publishing, ~torn
                 PROVE  root["rows"] = root["status"] /\ root["rows"] <= active
      BY DEF RootWhole
    <2>1. work[Publisher].at \in {"idle", "writing"} /\ active \in Nat
      BY WorkTyped, Ranges DEF Exchanged, Readable, Owned, Typed, ExportOK, Exporters, Publishing, DiskOK
    <2>2. \A n \in Names : Undone(Publisher, n) = root[n]
      BY <2>1 DEF Exchanged, Bare, Undone
    <2>3. PICK g \in 0..active : \A n \in Names : Undone(Publisher, n) = g
      BY DEF Exchanged, WayBack
    <2>4. QED
      BY <2>1, <2>2, <2>3 DEF Names
  <1>4. QED
    BY <1>1, <1>2, <1>3, PTL DEF PubSpec
=============================================================================
