--------------------------- MODULE MCLibraryScan ---------------------------
(***************************************************************************)
(* Small instances of LibraryScan: a local and a remote library, with      *)
(* movies of the same file name in different directories.                  *)
(***************************************************************************)
EXTENDS LibraryScan, TLC

CONSTANTS one, two, far, disc, film, local, remote

\* Two discs of the local library, of the same file name.
MCDiscs == {one, two}
MCDiscBase == [p \in MCDiscs |-> disc]
MCDiscLibrary == [p \in MCDiscs |-> local]

\* A film of the remote library.
MCFar == {far}
MCFarBase == [p \in MCFar |-> film]
MCFarLibrary == [p \in MCFar |-> remote]
=============================================================================
