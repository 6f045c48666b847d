---------------------------- MODULE Import_proofs ----------------------------
(***************************************************************************)
(* Theorems about the import of lists, for any number of addresses, lists, *)
(* keys, calls and revisions: no revision is taken twice, and a committed  *)
(* plan does what its preview showed.                                      *)
(***************************************************************************)
EXTENDS Import, WellFoundedInduction, TLAPS

(* The revision is the greatest of the committed batches *)

LEMMA LeastOfNaturals ==
    ASSUME NEW S \in SUBSET Nat, S # {}
    PROVE  \E x \in S : \A y \in S : x <= y
  <1> DEFINE Less == {ss \in Nat \X Nat : ss[1] < ss[2]}
  <1>1. IsWellFoundedOn(Less, Nat)
    BY NatLessThanWellFounded DEF OpToRel
  <1>2. PICK x \in S : \A y \in S : <<y, x>> \notin Less
    <2> HIDE DEF Less
    <2>1. QED
      BY <1>1, WFMin
  <1>3. ASSUME NEW y \in S, y < x PROVE FALSE
    <2>1. <<y, x>> \in Nat \X Nat /\ <<y, x>>[1] < <<y, x>>[2]
      BY <1>3
    <2>2. <<y, x>> \in Less
      BY <2>1, Zenon
    <2>3. QED
      BY <1>2, <2>2
  <1>4. QED
    BY <1>3

\* A bounded set of numbers has a greatest one, and Max is it.
LEMMA MaxOfBounded ==
    ASSUME NEW m \in Nat, NEW S \in SUBSET (0..m), S # {}
    PROVE  Max(S) \in S /\ \A n \in S : n <= Max(S)
  <1> DEFINE Rest == {m - n : n \in S}
  <1>1. Rest \in SUBSET Nat /\ Rest # {}
    <2>1. \A n \in S : m - n \in Nat
      OBVIOUS
    <2>2. PICK n \in S : TRUE
      OBVIOUS
    <2>3. QED
      BY <2>1, <2>2
  <1>2. PICK r \in Rest : \A t \in Rest : r <= t
    BY <1>1, LeastOfNaturals
  <1>3. PICK x \in S : r = m - x
    OBVIOUS
  <1>4. \A n \in S : m - n \in Rest
    OBVIOUS
  <1>5. \A n \in S : x >= n
    BY <1>2, <1>3, <1>4
  <1>6. QED
    BY <1>3, <1>5 DEF Max

LEMMA RevisionIsGreatest ==
    ASSUME batch \in [Batches -> 0..MaxRevision]
    PROVE  /\ Revision \in 0..MaxRevision
           /\ \A b \in Committed : batch[b] <= Revision
  <1> DEFINE Taken == {0} \cup {batch[b] : b \in Committed}
  <1>1. Taken \in SUBSET (0..MaxRevision) /\ Taken # {}
    BY ImportNumbers DEF Committed
  <1>2. Max(Taken) \in Taken /\ \A n \in Taken : n <= Max(Taken)
    BY <1>1, MaxOfBounded, ImportNumbers
  <1>3. QED
    BY <1>1, <1>2 DEF Revision

-----------------------------------------------------------------------------
(* Types *)

Places == {"previewing", "planned", "waiting", "undone"}
Busy == [at : Places, plan : Plan]

LEMMA PlanOfCall ==
    ASSUME ImportTypeOK, NEW c \in Calls, ~At(c, "idle")
    PROVE  call[c] \in Busy /\ call[c].plan \in Plan /\ call[c].plan.name \in Batches
  <1>1. call[c] \in Busy
    BY DEF ImportTypeOK, At, Resting, Busy, Places
  <1>2. QED
    BY <1>1 DEF Busy, Plan

LEMMA CallEnds ==
    ASSUME ImportTypeOK, NEW c \in Calls, Ends(c) PROVE call' \in [Calls -> {Resting} \cup Busy]
  BY DEF ImportTypeOK, Ends, Busy, Places

LEMMA CallGoes ==
    ASSUME ImportTypeOK, NEW c \in Calls, ~At(c, "idle"), NEW place \in Places, Goes(c, place)
    PROVE  call' \in [Calls -> {Resting} \cup Busy]
  <1>1. call[c] \in Busy
    BY PlanOfCall
  <1>2. [call[c] EXCEPT !.at = place] \in Busy
    BY <1>1 DEF Busy
  <1>3. QED
    BY <1>2 DEF ImportTypeOK, Goes, Busy, Places

LEMMA ImportTypeKept ==
    ASSUME ImportTypeOK, [Next]_importVars PROVE ImportTypeOK'
  <1>t. /\ members \subseteq Endpoints /\ batch \in [Batches -> 0..MaxRevision]
        /\ call \in [Calls -> {Resting} \cup Busy]
    BY DEF ImportTypeOK, Busy, Places
  <1>q. ASSUME members' \subseteq Endpoints, batch' \in [Batches -> 0..MaxRevision],
               call' \in [Calls -> {Resting} \cup Busy]
        PROVE  ImportTypeOK'
    BY <1>q DEF ImportTypeOK, Busy, Places
  <1>1. ASSUME NEW c \in Calls, NEW file \in Files, NEW mode \in Modes,
               NEW name \in Names(file, mode), Preview(c, name, file, mode)
        PROVE  ImportTypeOK'
    <2>1. name \in Batches
      BY DEF Names, Batches, Derived
    <2>2. Revision \in 0..MaxRevision
      BY <1>t, RevisionIsGreatest
    <2>3. [name |-> name, mode |-> mode, file |-> file, revision |-> Revision, present |-> {}] \in Plan
      BY <2>1, <2>2 DEF Plan
    <2>4. call' \in [Calls -> {Resting} \cup Busy]
      BY <1>1, <1>t, <2>3 DEF Preview, Busy, Places
    <2>5. QED
      BY <1>1, <1>t, <1>q, <2>4 DEF Preview
  <1>2. ASSUME NEW c \in Calls, PreviewEnds(c) PROVE ImportTypeOK'
    <2>1. call[c].plan \in Plan
      BY <1>2, PlanOfCall DEF PreviewEnds, At
    <2>2. [call[c].plan EXCEPT !.present = members] \in Plan
      BY <1>t, <2>1 DEF Plan
    <2>3. call' \in [Calls -> {Resting} \cup Busy]
      BY <1>2, <1>t, <2>2 DEF PreviewEnds, Busy, Places
    <2>4. QED
      BY <1>2, <1>t, <1>q, <2>3 DEF PreviewEnds
  <1>3. ASSUME NEW c \in Calls, Replay(c) \/ Leave(c) PROVE ImportTypeOK'
    BY <1>3, <1>t, <1>q, CallEnds DEF Replay, Leave
  <1>4. ASSUME NEW c \in Calls, Proceed(c) PROVE ImportTypeOK'
    BY <1>4, <1>t, <1>q, CallGoes DEF Proceed, At, Places
  <1>5. ASSUME NEW c \in Calls, Commit(c) PROVE ImportTypeOK'
    <2>1. call[c].plan \in Plan /\ call[c].plan.name \in Batches
      BY <1>5, PlanOfCall DEF Commit, At
    <2>2. call[c].plan.file \subseteq Endpoints /\ call[c].plan.revision + 1 \in 0..MaxRevision
      BY <1>5, <2>1, FilesAssumption, ImportNumbers DEF Commit, Plan
    <2>3. members' \subseteq Endpoints
      BY <1>5, <1>t, <2>2 DEF Commit, Added
    <2>4. batch' \in [Batches -> 0..MaxRevision]
      BY <1>5, <1>t, <2>1, <2>2 DEF Commit
    <2>5. QED
      BY <1>5, <1>q, <2>3, <2>4, CallEnds DEF Commit
  <1>6. ASSUME NEW c \in Calls, RollBack(c) PROVE ImportTypeOK'
    BY <1>6, <1>t, <1>q, CallGoes DEF RollBack, At, Places
  <1>7. ASSUME NEW c \in Calls, Record(c) PROVE ImportTypeOK'
    <2>1. call[c].plan.name \in Batches
      BY <1>7, PlanOfCall DEF Record, At
    <2>2. batch' \in [Batches -> 0..MaxRevision]
      BY <1>7, <1>t, <2>1, ImportNumbers DEF Record
    <2>3. QED
      BY <1>7, <1>t, <1>q, <2>2, CallEnds DEF Record
  <1>8. ASSUME NEW e \in Endpoints, Edit(e) PROVE ImportTypeOK'
    BY <1>8, <1>t, <1>q DEF Edit
  <1>9. CASE UNCHANGED importVars
    BY <1>9, <1>t, <1>q DEF importVars
  <1>10. QED
    BY <1>1, <1>2, <1>3, <1>4, <1>5, <1>6, <1>7, <1>8, <1>9 DEF Next, Committing

\* Members, batches and plans keep their types, and no revision is beyond the bound.
THEOREM ImportTypeCorrect == ImportSpec => []ImportTypeOK
  <1>1. Init => ImportTypeOK
    BY ImportNumbers DEF Init, ImportTypeOK
  <1>2. ImportTypeOK /\ [Next]_importVars => ImportTypeOK'
    BY ImportTypeKept
  <1>3. QED
    BY <1>1, <1>2, PTL DEF ImportSpec

-----------------------------------------------------------------------------
(* The invariant.  A commit takes the number after the greatest one, compared *)
(* under the write lock; every other step keeps the batches or takes one back.*)

LEMMA RevisionsKept ==
    ASSUME ImportTypeOK, RevisionTakenOnce, [Next]_importVars PROVE RevisionTakenOnce'
  <1>t. batch \in [Batches -> 0..MaxRevision] /\ MaxRevision \in Nat
    BY ImportNumbers DEF ImportTypeOK
  <1>u. ASSUME batch' = batch PROVE RevisionTakenOnce'
    BY <1>u DEF RevisionTakenOnce, Committed
  <1>1. ASSUME NEW c \in Calls, Commit(c) PROVE RevisionTakenOnce'
    <2> DEFINE n == call[c].plan.name
    <2>1. n \in Batches
      BY <1>1, PlanOfCall DEF Commit, At
    <2>2. /\ call[c].plan.revision = Revision
          /\ batch' = [batch EXCEPT ![n] = Revision + 1]
      BY <1>1 DEF Commit, Stale
    <2>3. Revision \in 0..MaxRevision /\ \A b \in Committed : batch[b] <= Revision
      BY <1>t, RevisionIsGreatest
    <2> HIDE DEF n
    <2>4. \A b \in Committed' \ {n} : b \in Committed /\ batch'[b] = batch[b] /\ batch'[b] <= Revision
      BY <1>t, <2>1, <2>2, <2>3 DEF Committed
    <2>5. batch'[n] = Revision + 1
      BY <1>t, <2>1, <2>2
    <2>6. \A a, b \in Committed' : batch'[a] = batch'[b] => a = b
      <3>1. \A b \in Committed' \ {n} : batch'[b] \in 0..MaxRevision
        BY <1>t, <2>4 DEF Committed
      <3>2. \A b \in Committed' \ {n} : batch'[b] # batch'[n]
        BY <2>3, <2>4, <2>5, <3>1
      <3>3. QED
        BY <2>4, <3>2 DEF RevisionTakenOnce
    <2>7. QED
      BY <2>6 DEF RevisionTakenOnce
  <1>2. ASSUME NEW c \in Calls, Record(c) PROVE RevisionTakenOnce'
    <2>1. \A b \in Committed' : b \in Committed /\ batch'[b] = batch[b]
      BY <1>2, <1>t DEF Record, Committed
    <2>2. QED
      BY <2>1 DEF RevisionTakenOnce
  <1>3. ASSUME NEW c \in Calls, Replay(c) \/ Proceed(c) \/ RollBack(c) \/ Leave(c) \/ PreviewEnds(c)
        PROVE  RevisionTakenOnce'
    BY <1>3, <1>u DEF Replay, Proceed, RollBack, Leave, PreviewEnds
  <1>4. ASSUME NEW c \in Calls, NEW file, NEW mode, NEW name, Preview(c, name, file, mode)
        PROVE  RevisionTakenOnce'
    BY <1>4, <1>u DEF Preview
  <1>5. ASSUME NEW e \in Endpoints, Edit(e) PROVE RevisionTakenOnce'
    BY <1>5, <1>u DEF Edit
  <1>6. CASE UNCHANGED importVars
    BY <1>6, <1>u DEF importVars
  <1>7. QED
    BY <1>1, <1>2, <1>3, <1>4, <1>5, <1>6 DEF Next, Committing

\* Two imports never consume the same revision, however many calls, lists and
\* keys there are, and whatever attempts fail in between.
THEOREM RevisionsAreTakenOnce == ImportSpec => []RevisionTakenOnce
  <1>1. Init => RevisionTakenOnce
    BY DEF Init, RevisionTakenOnce, Committed
  <1>2. ImportTypeOK /\ RevisionTakenOnce /\ [Next]_importVars => RevisionTakenOnce'
    BY RevisionsKept
  <1>3. QED
    BY <1>1, <1>2, ImportTypeCorrect, PTL DEF ImportSpec

-----------------------------------------------------------------------------
(* What a commit does *)

AsShown(c) ==
    LET p == call[c].plan
    IN  /\ members \ members' = Removed(p)
        /\ p.mode = "replace" => members' = p.file

\* The guard under the write lock makes the diff of the preview exact.
LEMMA CommitIsExact ==
    ASSUME NEW c \in Calls, Commit(c) PROVE AsShown(c)
  <1> DEFINE p == call[c].plan
  <1>1. CASE p.mode = "replace"
    <2>1. members \ p.file = Removed(p) /\ Unchanged(p) \subseteq members
      BY <1>1 DEF Commit, Stale
    <2>2. members' = (members \cap p.file) \cup Added(p)
      BY <1>1 DEF Commit
    <2>3. Added(p) = p.file \ p.present /\ Unchanged(p) = p.file \cap p.present
      BY DEF Added, Unchanged
    <2>4. members' = p.file
      BY <2>1, <2>2, <2>3
    <2>5. QED
      BY <2>1, <2>4 DEF AsShown
  <1>2. CASE p.mode # "replace"
    BY <1>2 DEF Commit, AsShown, Removed
  <1>3. QED
    BY <1>1, <1>2

\* Only Commit applies a batch.
LEMMA OnlyCommitApplies ==
    ASSUME ImportTypeOK, [Next]_importVars, NEW c \in Calls, Applies(c) PROVE Commit(c)
  <1>t. call \in [Calls -> {Resting} \cup Busy] /\ call[c] # Resting
    BY DEF ImportTypeOK, Applies, At, Resting, Busy, Places
  <1>1. ASSUME NEW d \in Calls, Commit(d) \/ Record(d) PROVE Commit(c)
    <2>1. call' = [call EXCEPT ![d] = Resting]
      BY <1>1 DEF Commit, Record, Ends
    <2>2. d = c
      BY <1>t, <2>1 DEF Applies
    <2>3. ~Record(c)
      BY DEF Record, Applies, At
    <2>4. QED
      BY <1>1, <2>2, <2>3
  <1>2. ASSUME batch' = batch PROVE FALSE
    BY <1>2 DEF Applies
  <1>3. ASSUME NEW d \in Calls, Replay(d) \/ Proceed(d) \/ RollBack(d) \/ Leave(d) \/ PreviewEnds(d)
        PROVE  FALSE
    BY <1>2, <1>3 DEF Replay, Proceed, RollBack, Leave, PreviewEnds
  <1>4. ASSUME NEW d \in Calls, NEW file, NEW mode, NEW name, Preview(d, name, file, mode) PROVE FALSE
    BY <1>2, <1>4 DEF Preview
  <1>5. ASSUME NEW e \in Endpoints, Edit(e) PROVE FALSE
    BY <1>2, <1>5 DEF Edit
  <1>6. CASE UNCHANGED importVars
    BY <1>2, <1>6 DEF importVars
  <1>7. QED
    BY <1>1, <1>3, <1>4, <1>5, <1>6 DEF Next, Committing

\* A replace leaves exactly its list and removes exactly what its preview showed,
\* a merge removes nothing, whoever changes the collection in between.
THEOREM ImportsDoAsShown == ImportSpec => ImportedAsShown
  <1>1. ImportTypeOK /\ [Next]_importVars =>
          [\A c \in Calls : Applies(c) =>
             LET p == call[c].plan
             IN  /\ members \ members' = Removed(p)
                 /\ p.mode = "replace" => members' = p.file]_importVars
    BY OnlyCommitApplies, CommitIsExact DEF AsShown
  <1>2. QED
    BY <1>1, ImportTypeCorrect, PTL DEF ImportSpec, ImportedAsShown

=============================================================================
