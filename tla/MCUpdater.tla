------------------------------ MODULE MCUpdater ------------------------------
(***************************************************************************)
(* Two requests of any kind, two versions, one crash, in both deployments. *)
(***************************************************************************)
EXTENDS Updater, TLC

Symmetry == Permutations(Reqs)

\* What no action and no property of the run reads again does not tell states
\* apart: what a request that has done its work asked for, unless its helper is
\* at work, and how a row that is closed has ended.
Asked(r) == IF helper[r].pc # "off" \/ req[r].pc \notin {"done", "begin"} THEN req[r]
            ELSE [req[r] EXCEPT !.act = "check", !.ver = 0]

Seen == <<mode, latest, st, files, conts, [r \in Reqs |-> Asked(r)], pending, helper,
          cur, trk, {r \in Reqs : row[r] = "running"}, faults, stray>>

=============================================================================
