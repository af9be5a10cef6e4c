------------------------------ MODULE MCPlayback ------------------------------
(***************************************************************************)
(* Small instances of Playback: one television set, items and versions.    *)
(***************************************************************************)
EXTENDS Playback, TLC

Named == Item \X Version

Items == Permutations(Item) \cup Permutations(Version)
=============================================================================
