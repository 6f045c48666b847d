---------------------------- MODULE MCJobControl ----------------------------
(* A small instance of JobStore with its keyed control calls for TLC. *)
EXTENDS JobControl, TLC

\* Jobs, items, keys and clients are only ever compared for equality.
Symmetry == Permutations(Jobs) \cup Permutations(Items)
            \cup Permutations(Keys) \cup Permutations(Clients)

\* Bound: once a keyed call was answered no second job is made.  An answer is
\* about one job, and the key of one call says nothing about another job.
OneJobAnswered ==
    answered = {} \/ \A j, o \in Jobs : state[j] # "none" /\ state[o] # "none" => j = o

=============================================================================
