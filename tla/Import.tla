------------------------------- MODULE Import -------------------------------
(***************************************************************************)
(* The import of lists into one collection (importer.py): a preview reads  *)
(* the collection and shows what a file would do to it, a later commit     *)
(* applies that plan in one transaction, or refuses because the collection *)
(* has changed.  Calls come from the API, the command line and the         *)
(* interface, each with its own connection; other writers add and remove   *)
(* members without an import.                                              *)
(*                                                                         *)
(* A file is the set of addresses it would keep; what parsing rejects is   *)
(* left out.  What a transaction does between BEGIN IMMEDIATE and COMMIT   *)
(* is one step.  A commit that was refused or rolled back writes a record  *)
(* of the attempt, in a transaction of its own.                            *)
(***************************************************************************)
EXTENDS Integers, FiniteSetsExt

CONSTANTS
    Endpoints,
    Files,         \* the lists that are imported
    Keys,          \* idempotency keys that name a batch whatever is in it
    Calls,         \* commits under way at a time
    MaxRevision    \* bound: imports that are committed

ASSUME FilesAssumption == Files \subseteq SUBSET Endpoints
ASSUME ImportNumbers == MaxRevision \in Nat

Modes == {"merge", "replace"}

\* _batch_id: the digest of the request, or the key that came with it.
Derived == Files \X Modes
Names(file, mode) == {<<file, mode>>} \cup Keys
Batches == Derived \cup Keys

VARIABLES
    members,   \* the addresses of the collection
    batch,     \* import_batch: the revision a batch is committed with, 0: it is not
    call       \* what each call does, and its plan

importVars == <<members, batch, call>>

Plan == [name : Batches, mode : Modes, file : Files, revision : 0..MaxRevision, present : SUBSET Endpoints]
Resting == [at |-> "idle"]

ImportTypeOK ==
    /\ members \subseteq Endpoints
    /\ batch \in [Batches -> 0..MaxRevision]
    /\ call \in [Calls -> {Resting} \cup
                         [at : {"previewing", "planned", "waiting", "undone"}, plan : Plan]]

At(c, place) == call[c].at = place
Goes(c, place) == call' = [call EXCEPT ![c].at = place]
Ends(c) == call' = [call EXCEPT ![c] = Resting]

-----------------------------------------------------------------------------
(* What a plan says *)

Added(p) == p.file \ p.present
Unchanged(p) == p.file \cap p.present
Removed(p) == IF p.mode = "replace" THEN p.present \ p.file ELSE {}

Committed == {b \in Batches : batch[b] > 0}

\* collection_revision
Revision == Max({0} \cup {batch[b] : b \in Committed})

-----------------------------------------------------------------------------
(* Previews *)

\* preview: the revision is read first, the members after the file was parsed.
\* The interface reads both from one snapshot and remembers the plan, which is a
\* preview that nothing interrupts and a call that waits to go on.
Preview(c, name, file, mode) ==
    /\ At(c, "idle")
    /\ call' = [call EXCEPT ![c] = [at |-> "previewing", plan |->
         [name |-> name, mode |-> mode, file |-> file, revision |-> Revision, present |-> {}]]]
    /\ UNCHANGED <<members, batch>>

PreviewEnds(c) ==
    /\ At(c, "previewing")
    /\ call' = [call EXCEPT ![c] = [at |-> "planned", plan |-> [@.plan EXCEPT !.present = members]]]
    /\ UNCHANGED <<members, batch>>

-----------------------------------------------------------------------------
(* commit *)

\* A batch that is committed is answered with its report.
Replay(c) ==
    /\ At(c, "planned") \/ At(c, "waiting")
    /\ call[c].plan.name \in Committed
    /\ Ends(c)
    /\ UNCHANGED <<members, batch>>

\* What is asked before the write lock: nothing that changes is decided here.
Proceed(c) ==
    LET p == call[c].plan
    IN  /\ At(c, "planned") /\ p.name \notin Committed
        /\ p.revision = Revision
        /\ p.mode = "replace" => p.file # {}
        /\ Goes(c, "waiting")
        /\ UNCHANGED <<members, batch>>

\* Mutant: the revision was compared before the lock, and is not again.
Overtaken(p) == p.mode = "replace" /\ (members \ p.file # Removed(p) \/ ~(Unchanged(p) \subseteq members))

\* Mutant: the revision stands for the members.
RevisionMoved(p) == p.revision # Revision

\* Under the write lock: the collection is not what the plan was made from.
Stale(p) ==
    \/ p.revision # Revision
    \/ p.mode = "replace" /\ (members \ p.file # Removed(p) \/ ~(Unchanged(p) \subseteq members))

Commit(c) ==
    LET p == call[c].plan
    IN  /\ At(c, "waiting") /\ p.name \notin Committed /\ ~Stale(p)
        /\ p.revision < MaxRevision
        /\ members' = (IF p.mode = "replace" THEN members \cap p.file ELSE members) \cup Added(p)
        /\ batch' = [batch EXCEPT ![p.name] = p.revision + 1]
        /\ Ends(c)

\* The transaction is rolled back: the plan is stale, the database refuses, or
\* the user cancels between two rows.
RollBack(c) ==
    /\ At(c, "waiting") /\ Goes(c, "undone")
    /\ UNCHANGED <<members, batch>>

\* _rollback: the attempt is recorded as failed or cancelled, over what the row of
\* the batch said before.
Record(c) ==
    /\ At(c, "undone")
    /\ batch' = [batch EXCEPT ![call[c].plan.name] = 0]
    /\ Ends(c)
    /\ UNCHANGED members

\* A refusal before the write lock, a record that cannot be written, or the death
\* of the process: what was not committed is gone.
Leave(c) ==
    /\ ~At(c, "idle") /\ Ends(c)
    /\ UNCHANGED <<members, batch>>

-----------------------------------------------------------------------------
(* Others *)

\* add_member, remove_member, a merge of collections or a collected list.
Edit(e) ==
    /\ members' = IF e \in members THEN members \ {e} ELSE members \cup {e}
    /\ UNCHANGED <<batch, call>>

Init ==
    /\ members = {}
    /\ batch = [b \in Batches |-> 0]
    /\ call = [c \in Calls |-> Resting]

Committing(c) == Replay(c) \/ Proceed(c) \/ Commit(c) \/ RollBack(c) \/ Record(c) \/ Leave(c)

Next ==
    \/ \E c \in Calls, file \in Files, mode \in Modes : \E name \in Names(file, mode) :
          Preview(c, name, file, mode)
    \/ \E c \in Calls : PreviewEnds(c)
    \/ \E c \in Calls : Committing(c)
    \/ \E e \in Endpoints : Edit(e)

ImportSpec == Init /\ [][Next]_importVars

-----------------------------------------------------------------------------
(* Properties *)

\* The call that commits its batch in this step.
Applies(c) == At(c, "waiting") /\ call'[c] = Resting /\ batch'[call[c].plan.name] # batch[call[c].plan.name]

\* A replace does exactly what its preview showed: it removes what was shown as
\* removed and leaves the file, whoever changed the collection meanwhile, and a
\* merge removes nothing (commit, "Apply a preview in one transaction").
ImportedAsShown ==
    [][\A c \in Calls : Applies(c) =>
         LET p == call[c].plan
         IN  /\ members \ members' = Removed(p)
             /\ p.mode = "replace" => members' = p.file]_importVars

\* Two imports never "both consume the same revision" (commit): of two plans made
\* from one revision at most one is committed, also when an attempt that was
\* rolled back is committed later.
RevisionTakenOnce ==
    \A a, b \in Committed : batch[a] = batch[b] => a = b

\* Violated: a record that is written after another call has committed the same
\* batch takes the batch, and its revision, back (_rollback).
RevisionGrows == [][Revision' >= Revision]_importVars

\* Violated: the members are compared in a replace only (collection_revision says
\* that "commit also compares the actual membership set"), so a merge can be
\* committed without an address it showed as unchanged.
MergeComplete ==
    [][\A c \in Calls : Applies(c) => call[c].plan.file \subseteq members']_importVars

=============================================================================
