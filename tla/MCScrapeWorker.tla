--------------------------- MODULE MCScrapeWorker ---------------------------
(***************************************************************************)
(* Small instances of ScrapeWorker: a task that needs TMDB, or also one    *)
(* that does not, of two items, and two goroutine slots.                   *)
(***************************************************************************)
EXTENDS ScrapeWorker, TLC

CONSTANTS local, remote, movie, series

MCItemOf == [t \in Task |-> IF t = local THEN movie ELSE series]

\* The first retry waits a tick, the later ones two.
MCBackoff == [n \in 1..5 |-> IF n = 1 THEN 1 ELSE 2]

Slots == Permutations(Consumer)
=============================================================================
