--------------------------- MODULE MCSourceRefresh ---------------------------
(***************************************************************************)
(* A small instance of SourceRefresh: a series the provider has and one it *)
(* has dropped.                                                            *)
(***************************************************************************)
EXTENDS SourceRefresh

=============================================================================
