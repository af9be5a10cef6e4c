---------------------------- MODULE SourceQueue ----------------------------
(***************************************************************************)
(* The table source_refresh_queue and the SQL statements run on it.  One   *)
(* row per target; every statement is one atomic step.                     *)
(*                                                                         *)
(* Time and priorities are left open: a row in its backoff becomes due at  *)
(* some time, Claim takes any of the due rows, and any row that is running *)
(* may be older than fifteen minutes, any that is done older than three    *)
(* days.                                                                   *)
(***************************************************************************)
EXTENDS Naturals, FiniteSets

CONSTANTS
    Task,       \* the targets: the series followed, and the provider's catalog
    MaxRetry    \* sourceRefreshMaxRetry

ASSUME TaskAssumption == IsFiniteSet(Task)

ASSUME RetryAssumption == MaxRetry \in Nat \ {0}

VARIABLE queue   \* a row per target, status "absent" when there is none

Row == [status : {"absent", "pending", "running", "done", "failed"},
        retry : 0..(MaxRetry - 1), due : BOOLEAN]

New == [status |-> "pending", retry |-> 0, due |-> TRUE]

Absent == [New EXCEPT !.status = "absent"]

InStatus(s) == {t \in Task : queue[t].status = s}

Due == {t \in InStatus("pending") : queue[t].due}

Rewrite(S, f(_)) == queue' = [t \in Task |-> IF t \in S THEN f(queue[t]) ELSE queue[t]]

-----------------------------------------------------------------------------
\* Mutant: a row that is running is opened again like any other.
EnqueueSourceRefresh_Anyway(t) == Rewrite({t}, LAMBDA r : New)

\* A row that is running stays as it is, any other starts again.
EnqueueSourceRefresh(t) ==
    Rewrite({t}, LAMBDA r : IF r.status = "running" THEN r ELSE New)

\* S can be the answer of a claim: the limit is used as far as there are due rows.
ClaimAnswer(S, limit) ==
    /\ S \subseteq Due
    /\ Cardinality(S) <= limit
    /\ Cardinality(S) < limit => S = Due

Claimed(r) == [r EXCEPT !.status = "running"]

\* The count of attempts of a row that is over is never read again.
Over(status) == [status |-> status, retry |-> 0, due |-> TRUE]

DoneSourceRefresh(t) == Rewrite({t}, LAMBDA r : Over("done"))

FailSourceRefresh(t) ==
    Rewrite({t}, LAMBDA r : [status |-> "pending", retry |-> r.retry + 1, due |-> FALSE])

FailFatalSourceRefresh(t) == Rewrite({t}, LAMBDA r : Over("failed"))

\* Mutant: the attempt that has just failed is not counted.
Fail_OneMore(t, claimedRetry) ==
    IF claimedRetry >= MaxRetry THEN FailFatalSourceRefresh(t) ELSE FailSourceRefresh(t)

\* The last attempt is told from the count read at claim time.
Fail(t, claimedRetry) ==
    IF claimedRetry + 1 >= MaxRetry THEN FailFatalSourceRefresh(t) ELSE FailSourceRefresh(t)

Reset(r) == [r EXCEPT !.status = "pending"]

ReconcileSourceRefreshOnStartup == Rewrite(InStatus("running"), Reset)

\* ReconcileStaleSourceRefresh and PruneDoneSourceRefresh: some of the rows are
\* old enough.
Maintained(stale, aged) ==
    /\ stale \subseteq InStatus("running")
    /\ aged \subseteq InStatus("done")
    /\ queue' = [t \in Task |-> IF t \in stale THEN Reset(queue[t])
                                ELSE IF t \in aged THEN Absent ELSE queue[t]]

\* The backoff of a row that failed is over.
Elapse(t) ==
    /\ queue[t].status = "pending"
    /\ ~queue[t].due
    /\ Rewrite({t}, LAMBDA r : [r EXCEPT !.due = TRUE])

=============================================================================
