---------------------------- MODULE Publication ----------------------------
(***************************************************************************)
(* Exports: exportsvc.py, the export of proxytool.py and the reader of     *)
(* api.py.  An exporter writes a generation (an immutable directory, its   *)
(* status file last); a published one is also copied over the files of the *)
(* export root, then the active pointer moves to it and old generations    *)
(* are pruned.  A diagnostic one has a pointer of its own, a selection     *)
(* none.  The publisher holds workbench.lock, the other exporters (the     *)
(* threads of the API) hold nothing.  The readers share one cached answer. *)
(*                                                                         *)
(* "status" is status.json and "rows" every other file of a generation.    *)
(* What is written is only told apart by its generation.  A temporary file *)
(* that was half copied is never installed, and is left out.               *)
(***************************************************************************)
EXTENDS Integers, FiniteSets

CONSTANTS
    Publisher,    \* the process that holds workbench.lock
    Others,       \* exporters that do not, and only write selections
    KindSets,     \* which kinds of artifact are made: one of these sets
    Threads,      \* request threads of the reader
    Keep,         \* keep_generations
    MaxGens,      \* bound: generations ever made
    MaxFaults     \* bound: I/O errors and deaths

Kinds == {"published", "diagnostic", "selection"}

ASSUME KeepAssumption == Keep \in Nat \ {0} /\ MaxGens \in Nat /\ MaxFaults \in Nat
ASSUME ExportersAssumption == Publisher \notin Others /\ KindSets \subseteq SUBSET Kinds

VARIABLES
    kinds,        \* the kinds made in this behaviour; never changes
    made,         \* generations ever made; their names are 1..made
    dirs,         \* generation directories on disk
    files,        \* files of each generation
    changed,      \* when the directory of each generation last changed
    clock,
    active,       \* current.json: a generation, or 0
    diagnostic,   \* diagnostic.json
    root,         \* the generation each compatibility file is from, 0: no file
    temp,         \* the same for <name>.publish-tmp
    backup,       \* and for .<name>.publish-backup
    work,         \* what each exporter does
    torn,         \* history: a publication died, or could not be undone
    faults,
    thread,       \* what each request thread does
    shown         \* the answer of the reader: its re-read key, and whether it was verified

disk == <<made, dirs, files, changed, clock>>
rootFiles == <<root, temp, backup>>
pointers == <<active, diagnostic>>
reader == <<thread, shown>>
pubVars == <<kinds, disk, pointers, rootFiles, work, torn, faults, reader>>

Gens == 1..MaxGens
Names == {"rows", "status"}
Exporters == {Publisher} \cup Others
Steps == {"idle", "writing", "staging", "saving", "installing", "pointing", "listing",
          "pruning", "undoing", "cleaning"}
Publishing == Steps \ {"idle", "writing"}
NoWork == [at |-> "idle", kind |-> "selection", gen |-> 0, staged |-> {}, saved |-> {},
           installed |-> {}, seen |-> {}, victims |-> {}, won |-> FALSE]

PubTypeOK ==
    /\ kinds \in KindSets
    /\ made \in 0..MaxGens /\ dirs \subseteq 1..made
    /\ files \in [Gens -> SUBSET Names]
    /\ changed \in [Gens -> 0..clock] /\ clock \in Nat
    /\ active \in 0..made /\ diagnostic \in 0..made
    /\ root \in [Names -> 0..MaxGens] /\ temp \in [Names -> 0..MaxGens] /\ backup \in [Names -> 0..MaxGens]
    /\ work \in [Exporters -> [at : Steps, kind : Kinds, gen : 0..MaxGens, staged : SUBSET Names,
                               saved : SUBSET Names, installed : SUBSET Names,
                               seen : SUBSET Gens, victims : SUBSET Gens, won : BOOLEAN]]
    /\ torn \in BOOLEAN /\ faults \in 0..MaxFaults
    /\ thread \in [Threads -> [at : {"idle", "pinned", "loading"}, gen : 0..MaxGens, stamp : BOOLEAN]]
    /\ shown \in [gen : 0..MaxGens, stamp : BOOLEAN, verified : BOOLEAN]

-----------------------------------------------------------------------------
(* Helpers *)

At(e, step) == work[e].at = step
Gen(e) == work[e].gen
Go(e, step) == work' = [work EXCEPT ![e] = IF step = "idle" THEN NoWork ELSE [@ EXCEPT !.at = step]]

\* The files of a generation, status.json last.
First(some) == IF "rows" \in some THEN "rows" ELSE "status"
Left(done) == Names \ done

\* An I/O error, or the death of a process.
Fault == faults < MaxFaults /\ faults' = faults + 1

\* A directory changes when it is made and when a file is created in it.
Touch(g) == clock' = clock + 1 /\ changed' = [changed EXCEPT ![g] = clock + 1]

\* remove_generation
Delete(gone) ==
    /\ dirs' = dirs \ gone
    /\ files' = [g \in Gens |-> IF g \in gone THEN {} ELSE files[g]]
    /\ changed' = [g \in Gens |-> IF g \in gone THEN 0 ELSE changed[g]]

Newer(some, g) == {h \in some : changed[h] > changed[g]}

\* Mutant: the generation just published is dropped like any other.
VictimsOfAll(seen, g) == {h \in seen : Cardinality(Newer(seen, h)) >= Keep}

\* prune_generations: what is dropped of the generations seen, for current = g.
Victims(seen, g) ==
    LET others == seen \ {g} IN {h \in others : Cardinality(Newer(others, h)) >= Keep - 1}

-----------------------------------------------------------------------------
(* Writing a generation *)

Begin(e, kind) ==
    /\ At(e, "idle") /\ made < MaxGens
    /\ kind \in kinds /\ (kind = "selection" <=> e \in Others)
    /\ made' = made + 1
    /\ dirs' = dirs \cup {made + 1}
    /\ Touch(made + 1)
    /\ work' = [work EXCEPT ![e] = [NoWork EXCEPT !.at = "writing", !.kind = kind, !.gen = made + 1]]
    /\ UNCHANGED <<kinds, files, pointers, rootFiles, torn, faults, reader>>

Written(kind) == CASE kind = "published" -> "staging" [] kind = "diagnostic" -> "pointing" [] OTHER -> "idle"

WriteFile(e) ==
    /\ At(e, "writing") /\ Gen(e) \in dirs
    /\ LET g == Gen(e)
           left == Left(files[g])
       IN  /\ files' = [files EXCEPT ![g] = @ \cup {First(left)}]
           /\ Touch(g)
           /\ IF Cardinality(left) = 1 THEN Go(e, Written(work[e].kind)) ELSE UNCHANGED work
    /\ UNCHANGED <<kinds, made, dirs, pointers, rootFiles, torn, faults, reader>>

\* A file cannot be written, or the directory was pruned meanwhile.
Abandon(e) ==
    /\ At(e, "writing")
    /\ IF Gen(e) \in dirs THEN Fault ELSE UNCHANGED faults
    /\ Delete({Gen(e)}) /\ Go(e, "idle")
    /\ UNCHANGED <<kinds, made, clock, pointers, rootFiles, torn, reader>>

-----------------------------------------------------------------------------
(* _publish_legacy_files: the files of the export root *)

Stage(e) ==
    /\ At(e, "staging")
    /\ LET n == First(Left(work[e].staged))
       IN  /\ n = "rows" => n \in files[Gen(e)]
           /\ temp' = [temp EXCEPT ![n] = Gen(e)]
           /\ work' = [work EXCEPT ![e].staged = @ \cup {n},
                                   ![e].at = IF n = "status" THEN "saving" ELSE @]
    /\ UNCHANGED <<kinds, disk, pointers, root, backup, torn, faults, reader>>

Present == {n \in Names : root[n] # 0}

\* A file of the root is renamed to its backup.
Save(e) ==
    /\ At(e, "saving") /\ Present # {}
    /\ LET n == First(Present)
       IN /\ backup' = [backup EXCEPT ![n] = root[n]]
          /\ root' = [root EXCEPT ![n] = 0]
          /\ work' = [work EXCEPT ![e].saved = @ \cup {n}]
    /\ UNCHANGED <<kinds, disk, pointers, temp, torn, faults, reader>>

AllSaved(e) ==
    /\ At(e, "saving") /\ Present = {}
    /\ Go(e, "installing")
    /\ UNCHANGED <<kinds, disk, pointers, rootFiles, torn, faults, reader>>

Install(e) ==
    /\ At(e, "installing")
    /\ LET n == First(Left(work[e].installed))
       IN  /\ root' = [root EXCEPT ![n] = temp[n]]
           /\ temp' = [temp EXCEPT ![n] = 0]
           /\ work' = [work EXCEPT ![e].installed = @ \cup {n},
                                   ![e].at = IF n = "status" THEN "pointing" ELSE @]
    /\ UNCHANGED <<kinds, disk, pointers, backup, torn, faults, reader>>

-----------------------------------------------------------------------------
(* publish: the pointer, then the old generations *)

MovePointer(e) ==
    /\ At(e, "pointing")
    /\ IF work[e].kind = "published"
       THEN active' = Gen(e) /\ UNCHANGED diagnostic
       ELSE diagnostic' = Gen(e) /\ UNCHANGED active
    /\ work' = [work EXCEPT ![e].at = "listing"]
    /\ UNCHANGED <<kinds, disk, rootFiles, torn, faults, reader>>

\* What follows an error: the root files of a published one are rolled back.
Raised(e) == IF work[e].kind = "published" THEN "undoing" ELSE "idle"

\* iterdir: the names are read before the times.
List(e) ==
    /\ At(e, "listing") /\ work[e].seen = {}
    /\ work' = [work EXCEPT ![e].seen = dirs]
    /\ UNCHANGED <<kinds, disk, pointers, rootFiles, torn, faults, reader>>

\* A directory that has gone since has no time, and the sort raises.
SortByTime(e) ==
    /\ At(e, "listing") /\ work[e].seen # {}
    /\ IF work[e].seen \subseteq dirs
       THEN work' = [work EXCEPT ![e].at = "pruning", ![e].victims = Victims(work[e].seen, Gen(e))]
       ELSE Go(e, Raised(e))
    /\ UNCHANGED <<kinds, disk, pointers, rootFiles, torn, faults, reader>>

Prune(e) ==
    /\ At(e, "pruning")
    /\ \E g \in work[e].victims :
          /\ Delete({g})
          /\ work' = [work EXCEPT ![e].victims = @ \ {g}]
    /\ UNCHANGED <<kinds, made, clock, pointers, rootFiles, torn, faults, reader>>

Pruned(e) ==
    /\ At(e, "pruning") /\ work[e].victims = {}
    /\ work' = [work EXCEPT ![e] = IF @.kind = "published" THEN [@ EXCEPT !.at = "cleaning", !.won = TRUE]
                                                          ELSE NoWork]
    /\ UNCHANGED <<kinds, disk, pointers, rootFiles, torn, faults, reader>>

-----------------------------------------------------------------------------
(* Errors of a publication, and its end *)

\* A file cannot be copied, renamed or written, or the source of a copy is gone.
Fail(e) ==
    /\ work[e].at \in {"staging", "saving", "installing", "pointing", "listing"}
    /\ IF At(e, "staging") /\ Gen(e) \notin dirs THEN UNCHANGED faults ELSE Fault
    /\ Go(e, Raised(e))
    /\ UNCHANGED <<kinds, disk, pointers, rootFiles, torn, reader>>

\* Mutant: the installed files stay when nothing was saved over them.
UndoneKeeping(e, n) == IF n \in work[e].saved THEN backup[n] ELSE root[n]

\* What the rollback makes of the file n: its backup, or no file.
Undone(e, n) ==
    IF n \in work[e].saved THEN backup[n] ELSE IF n \in work[e].installed THEN 0 ELSE root[n]

\* The rollback: installed files are unlinked, then backups restored.
Undo(e) ==
    /\ At(e, "undoing")
    /\ root' = [n \in Names |-> Undone(e, n)]
    /\ Go(e, "cleaning")
    /\ UNCHANGED <<kinds, disk, pointers, temp, backup, torn, faults, reader>>

\* Errors of the rollback are suppressed: a backup is not put back, and unlinked afterwards.
UndoFails(e) ==
    /\ At(e, "undoing") /\ Fault
    /\ \E n \in work[e].saved :
          root' = [m \in Names |-> IF m = n THEN 0 ELSE Undone(e, m)]
    /\ torn' = TRUE
    /\ Go(e, "cleaning")
    /\ UNCHANGED <<kinds, disk, pointers, temp, backup, reader>>

\* The finally clause.
CleanUp(e) ==
    /\ At(e, "cleaning")
    /\ temp' = [n \in Names |-> IF n \in work[e].staged THEN 0 ELSE temp[n]]
    /\ backup' = [n \in Names |-> IF n \in work[e].saved THEN 0 ELSE backup[n]]
    /\ torn' = (torn /\ ~work[e].won)
    /\ Go(e, "idle")
    /\ UNCHANGED <<kinds, disk, pointers, root, faults, reader>>

\* The process dies: what it had on disk stays there.
Die(e) ==
    /\ ~At(e, "idle") /\ Fault
    /\ work' = [work EXCEPT ![e] = NoWork]
    /\ torn' = (torn \/ (work[e].kind = "published" /\ work[e].at \in Publishing))
    /\ UNCHANGED <<kinds, disk, pointers, rootFiles, reader>>

Exporter(e) ==
    \/ \E kind \in Kinds : Begin(e, kind)
    \/ WriteFile(e) \/ Abandon(e)
    \/ Stage(e) \/ Save(e) \/ AllSaved(e) \/ Install(e)
    \/ MovePointer(e) \/ List(e) \/ SortByTime(e) \/ Prune(e) \/ Pruned(e)
    \/ Fail(e) \/ Undo(e) \/ UndoFails(e) \/ CleanUp(e) \/ Die(e)

-----------------------------------------------------------------------------
(* Exports.load of api.py *)

\* The pointer is read before the lock of the reader is taken.
ReadPointer(t) ==
    /\ thread[t].at = "idle" /\ active # 0
    /\ thread' = [thread EXCEPT ![t] = [at |-> "pinned", gen |-> active, stamp |-> FALSE]]
    /\ UNCHANGED <<kinds, disk, pointers, rootFiles, work, torn, faults, shown>>

\* Mutant: only the files are compared.
SameKeyByStamp(g, stamp) == shown.gen # 0 /\ shown.stamp = stamp

\* The re-read key: the generation, and whether its files are there.
SameKey(g, stamp) == shown.gen = g /\ shown.stamp = stamp

\* Under the lock: nothing to do, or the snapshot has to be read.
Enter(t) ==
    /\ thread[t].at = "pinned"
    /\ \A u \in Threads : thread[u].at # "loading"
    /\ LET g == thread[t].gen
           stamp == files[g] = Names
       IN  thread' = [thread EXCEPT ![t] = IF SameKey(g, stamp)
                                           THEN [@ EXCEPT !.at = "idle"]
                                           ELSE [@ EXCEPT !.at = "loading", !.stamp = stamp]]
    /\ UNCHANGED <<kinds, disk, pointers, rootFiles, work, torn, faults, shown>>

\* load_snapshot: a generation that is not all there is refused.
Load(t) ==
    /\ thread[t].at = "loading"
    /\ LET g == thread[t].gen
       IN  shown' = [gen |-> g, stamp |-> thread[t].stamp, verified |-> files[g] = Names]
    /\ thread' = [thread EXCEPT ![t].at = "idle"]
    /\ UNCHANGED <<kinds, disk, pointers, rootFiles, work, torn, faults>>

Reader(t) == ReadPointer(t) \/ Enter(t) \/ Load(t)

-----------------------------------------------------------------------------
PubInit ==
    /\ kinds \in KindSets
    /\ made = 0 /\ dirs = {} /\ files = [g \in Gens |-> {}]
    /\ changed = [g \in Gens |-> 0] /\ clock = 0
    /\ active = 0 /\ diagnostic = 0
    /\ root = [n \in Names |-> 0] /\ temp = [n \in Names |-> 0] /\ backup = [n \in Names |-> 0]
    /\ work = [e \in Exporters |-> NoWork]
    /\ torn = FALSE /\ faults = 0
    /\ thread = [t \in Threads |-> [at |-> "idle", gen |-> 0, stamp |-> FALSE]]
    /\ shown = [gen |-> 0, stamp |-> FALSE, verified |-> FALSE]

PubNext ==
    \/ \E e \in Exporters : Exporter(e)
    \/ \E t \in Threads : Reader(t)

PubSpec == PubInit /\ [][PubNext]_pubVars

\* A request comes again and again and its thread goes on; nobody has to export.
LivePubSpec == PubSpec /\ \A t \in Threads : WF_pubVars(Reader(t))

-----------------------------------------------------------------------------
(* Properties *)

\* The generation of the active pointer is on disk, whole: a client that was
\* switched to it can read it, whatever is written, pruned or interrupted
\* since (publish, prune_generations, Exports.load).
ActiveReadable == active # 0 => files[active] = Names

\* Between publications the compatibility files are of one generation, and of
\* none the pointer has not reached, whichever step of the last publication
\* failed (_publish_legacy_files), unless a publication died in the middle or
\* its rollback failed, and no later one succeeded.
RootWhole ==
    work[Publisher].at \notin Publishing /\ ~torn =>
        root["rows"] = root["status"] /\ root["rows"] <= active

\* However its requests interleave with publications, with the pruning of what
\* they are about to read and with each other, the reader ends up with the
\* active generation (Exports.load).
ReaderCatchesUp == <>[](active # 0 => shown.gen = active /\ shown.verified)

=============================================================================
