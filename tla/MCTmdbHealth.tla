---------------------------- MODULE MCTmdbHealth ----------------------------
(***************************************************************************)
(* Small instances of TmdbHealth: two consumers, the watcher and one       *)
(* administrator.                                                          *)
(***************************************************************************)
EXTENDS TmdbHealth

=============================================================================
