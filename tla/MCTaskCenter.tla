---------------------------- MODULE MCTaskCenter ----------------------------
(***************************************************************************)
(* Calls and libraries are interchangeable.                                *)
(***************************************************************************)
EXTENDS TaskCenter, TLC

\* Every call may be for either task.
MCKinds == [Call -> Target]

Symmetry == Permutations(Call) \cup Permutations(Library)
=============================================================================
