---------------------------- MODULE RefreshQueue ----------------------------
(***************************************************************************)
(* The table refresh_queue and the SQL statements run on it.  One row per  *)
(* (item, scope); every statement is one atomic action.                    *)
(*                                                                         *)
(* The table works as scrape_queue does (see ScrapeQueue) except for the   *)
(* options a row carries: what the claimer does depends on them, and every *)
(* enqueue replaces them, those of an active row too.  Time and priorities *)
(* are left open: a row in its backoff becomes due at some time, a row     *)
(* that nobody works on turns stale at some time, and Claim takes any of   *)
(* the due rows.                                                           *)
(***************************************************************************)
EXTENDS Naturals, FiniteSets

CONSTANTS
    Key,       \* the pairs <<item, scope>>
    MaxRetry   \* refreshMaxRetry

ASSUME KeyAssumption == IsFiniteSet(Key)

ASSUME RetryAssumption == MaxRetry \in Nat \ {0}

VARIABLE row   \* the table: a row per key, status "absent" when there is none

Status == {"absent", "pending", "running", "done", "failed"}

\* The combinations of AllowRemote and ValidateOnly that callers may pass;
\* the other options are stored and never read.
Option == {"local", "remote", "validate"}

Row == [status : Status, retry : 0..MaxRetry, due : BOOLEAN, option : Option]

Fresh(o) == [status |-> "pending", retry |-> 0, due |-> TRUE, option |-> o]

Absent == [Fresh("local") EXCEPT !.status = "absent"]

InStatus(s) == {k \in Key : row[k].status = s}

Lesser(a, b) == IF a <= b THEN a ELSE b

-----------------------------------------------------------------------------
\* UpsertRefreshQueueTask: a finished row starts again; an active row only
\* takes over the new options.
Upserted(r, o) ==
    IF r.status \in {"absent", "done", "failed"} THEN Fresh(o)
                                                 ELSE [r EXCEPT !.option = o]

\* UpsertRefreshQueueTasks names seven columns and selects six values, so
\* that the database refuses it; only the empty batch returns without error.
BatchAccepted(ids) == ids = {}

\* Mutant: Fail compares the count before it is incremented.
Failed_OneMore(r, claimedRetry) ==
    IF claimedRetry >= MaxRetry
      THEN [r EXCEPT !.status = "failed", !.retry = @ + 1]
      ELSE [r EXCEPT !.status = "pending", !.retry = @ + 1, !.due = FALSE]

\* Fail decides on the count read at claim time and increments the table's.
Failed(r, claimedRetry) ==
    IF claimedRetry + 1 >= MaxRetry
      THEN [r EXCEPT !.status = "failed", !.retry = @ + 1]
      ELSE [r EXCEPT !.status = "pending", !.retry = @ + 1, !.due = FALSE]

Retried(r) == [r EXCEPT !.status = "pending", !.retry = 0, !.due = TRUE]

\* Mutant: the claim forgets the status test.
Due_AnyStatus == {k \in Key : row[k].status \in {"pending", "running"}
                                 /\ row[k].due}

Due == {k \in InStatus("pending") : row[k].due}

-----------------------------------------------------------------------------
Rewrite(S, f(_)) == row' = [k \in Key |-> IF k \in S THEN f(row[k]) ELSE row[k]]

Enqueue(k, o) == Rewrite({k}, LAMBDA r : Upserted(r, o))

\* S can be the answer of Claim with this limit.
ClaimAnswer(S, limit) ==
    /\ S \subseteq Due
    /\ Cardinality(S) = Lesser(limit, Cardinality(Due))

Claim(S) == Rewrite(S, LAMBDA r : [r EXCEPT !.status = "running"])

Done(k) == Rewrite({k}, LAMBDA r : [r EXCEPT !.status = "done"])

Fail(k, claimedRetry) == Rewrite({k}, LAMBDA r : Failed(r, claimedRetry))

\* RetryTask for one key, RetryAllFailed for all of them.
Retry(S) ==
    /\ S \subseteq InStatus("failed")
    /\ S # {}
    /\ Rewrite(S, Retried)

Reset(S) == Rewrite(S, LAMBDA r : [r EXCEPT !.status = "pending"])

ReconcileOnStartup == Reset(InStatus("running"))

PruneDone(S) ==
    /\ S \subseteq InStatus("done")
    /\ S # {}
    /\ Rewrite(S, LAMBDA r : Absent)

BackoffEnds(k) ==
    /\ ~row[k].due
    /\ Rewrite({k}, LAMBDA r : [r EXCEPT !.due = TRUE])
=============================================================================
