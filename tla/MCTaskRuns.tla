----------------------------- MODULE MCTaskRuns -----------------------------
(***************************************************************************)
(* The tasks without the chain, one at a time: the two share nothing.      *)
(***************************************************************************)
EXTENDS TaskRuns, TLC

\* All calls are for the same task.
MCKinds == {[c \in Call |-> k] : k \in Target}

Symmetry == Permutations(Call)
=============================================================================
