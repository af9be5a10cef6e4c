---------------------------- MODULE ScrapeQueue ----------------------------
(***************************************************************************)
(* The table scrape_queue and the SQL statements the scrape worker, the    *)
(* enqueuers and the admin panel run on it.  One row per (item, task_type);*)
(* every statement is one atomic action on the table.                      *)
(*                                                                         *)
(* Time is relative.  wait is what is left of next_run_at (0: due) and     *)
(* age is the time since updated_at, both in ticks of an unspecified       *)
(* length; age is only kept where a statement compares updated_at (running *)
(* and done rows) and stops at PruneAge.                                   *)
(***************************************************************************)
EXTENDS Naturals, FiniteSets

CONSTANTS
    Task,          \* the keys (item_id, task_type)
    Item,          \* the items the keys refer to
    ItemOf,        \* the item of a key
    RemoteTask,    \* the keys whose task_type is not backfill_quality
    Priorities,    \* the priorities callers pass to Enqueue
    MaxRetry,      \* scrapeMaxRetry
    BackoffTicks,  \* what 2^1 .. 2^5 minutes come to in ticks
    StaleAge,      \* the age at which a running row counts as stale (10 min)
    PruneAge       \* the age at which a done row is pruned (7 days)

ASSUME TaskAssumption ==
    /\ ItemOf \in [Task -> Item]
    /\ RemoteTask \subseteq Task
    /\ IsFiniteSet(Task)

ASSUME LimitAssumption ==
    /\ Priorities \subseteq Nat
    /\ MaxRetry \in Nat \ {0}
    /\ BackoffTicks \in [1..5 -> Nat \ {0}]
    /\ StaleAge \in Nat \ {0}
    /\ PruneAge \in Nat
    /\ StaleAge < PruneAge

VARIABLES
    items,   \* the items that exist; a deleted item never comes back
    row      \* the table: a row per key, status "absent" when there is none

queueVars == <<items, row>>

Status == {"absent", "pending", "running", "done", "failed"}

Row == [status : Status, priority : Nat, retry : Nat, wait : Nat,
        age : 0..PruneAge]

Absent == [status |-> "absent", priority |-> 0, retry |-> 0, wait |-> 0,
           age |-> 0]

InStatus(s) == {t \in Task : row[t].status = s}

-----------------------------------------------------------------------------
(* One statement's effect on one row.                                      *)

Lesser(a, b) == IF a <= b THEN a ELSE b

\* ON CONFLICT: a finished row starts again, a failed one too (the comment of
\* Enqueue says that it is left alone); an active row only gets the better
\* priority and a new updated_at.
Upserted(r, p) ==
    CASE r.status = "absent" ->
           [Absent EXCEPT !.status = "pending", !.priority = p]
      [] r.status \in {"done", "failed"} ->
           [Absent EXCEPT !.status = "pending",
                          !.priority = Lesser(r.priority, p)]
      [] OTHER ->
           [r EXCEPT !.priority = Lesser(r.priority, p), !.age = 0]

Claimed(r) == [r EXCEPT !.status = "running", !.age = 0]

Done(r) == [r EXCEPT !.status = "done", !.age = 0]

\* Mutant: a status of its own that no other statement knows.
FailedFatal_Fatal(r) ==
    [r EXCEPT !.status = "fatal", !.retry = @ + 1, !.age = 0]

FailedFatal(r) ==
    [r EXCEPT !.status = "failed", !.retry = @ + 1, !.age = 0]

FailedRetry(r, ticks) ==
    [r EXCEPT !.status = "pending", !.retry = @ + 1, !.wait = ticks, !.age = 0]

Retried(r) ==
    [r EXCEPT !.status = "pending", !.wait = 0, !.retry = 0, !.age = 0]

Reset(r) == [r EXCEPT !.status = "pending", !.age = 0]

retryBackoff(n) ==
    BackoffTicks[IF n < 1 THEN 1 ELSE IF n > 5 THEN 5 ELSE n]

\* Mutant: off by one, the last retry is granted once more.
Failed_OneMore(r, claimedRetry) ==
    IF claimedRetry >= MaxRetry
      THEN FailedFatal(r)
      ELSE FailedRetry(r, retryBackoff(claimedRetry + 1))

\* The decision of Fail is taken on the retry count read at claim time, the
\* increment on the one in the table.
Failed(r, claimedRetry) ==
    IF claimedRetry + 1 >= MaxRetry
      THEN FailedFatal(r)
      ELSE FailedRetry(r, retryBackoff(claimedRetry + 1))

-----------------------------------------------------------------------------
(* The statements that work on sets of rows.                               *)

Rewrite(S, f(_)) == row' = [t \in Task |-> IF t \in S THEN f(row[t]) ELSE row[t]]

\* A key whose item is gone violates the foreign key and fails the statement.
EnqueueBatch(S, p) ==
    /\ \A t \in S : ItemOf[t] \in items
    /\ Rewrite(S, LAMBDA r : Upserted(r, p))
    /\ UNCHANGED items

\* Mutant: the claim forgets the status test.
Claimable_AnyStatus(allowRemote) ==
    {t \in InStatus("pending") \cup InStatus("running") :
        row[t].wait = 0 /\ (allowRemote \/ t \notin RemoteTask)}

Claimable(allowRemote) ==
    {t \in InStatus("pending") :
        row[t].wait = 0 /\ (allowRemote \/ t \notin RemoteTask)}

\* S can be the answer of Claim: as many due rows as there are, up to the
\* limit, and no better priority left behind.
ClaimAnswer(S, limit, allowRemote) ==
    LET due == Claimable(allowRemote)
    IN  /\ S \subseteq due
        /\ Cardinality(S) <= limit
        /\ Cardinality(S) = limit \/ S = due
        /\ \A t \in S, u \in due \ S : row[t].priority <= row[u].priority

Claim(S) == Rewrite(S, Claimed) /\ UNCHANGED items

RetryTask(t) ==
    /\ row[t].status = "failed"
    /\ Rewrite({t}, Retried)
    /\ UNCHANGED items

RetryAllFailed ==
    /\ InStatus("failed") # {}
    /\ Rewrite(InStatus("failed"), Retried)
    /\ UNCHANGED items

\* Mutant: everything that is not done is reset.
ReconcileOnStartup_All ==
    /\ Rewrite(InStatus("running") \cup InStatus("failed"), Reset)
    /\ UNCHANGED items

\* Mutant: the orphans are given up instead of being run again.
ReconcileOnStartup_GivesUp ==
    /\ Rewrite(InStatus("running"), FailedFatal)
    /\ UNCHANGED items

ReconcileOnStartup == Rewrite(InStatus("running"), Reset) /\ UNCHANGED items

\* Mutants: the age test is off by one tick; it never holds.
Stale_Early == {t \in InStatus("running") : row[t].age + 1 >= StaleAge}
Stale_Never == {t \in InStatus("running") : row[t].age > PruneAge}

Stale == {t \in InStatus("running") : row[t].age >= StaleAge}

ReconcileStaleRunning ==
    /\ Stale # {}
    /\ Rewrite(Stale, Reset)
    /\ UNCHANGED items

Prunable == {t \in InStatus("done") : row[t].age >= PruneAge}

PruneDone ==
    /\ Prunable # {}
    /\ Rewrite(Prunable, LAMBDA r : Absent)
    /\ UNCHANGED items

\* Deleting an item takes its rows along (ON DELETE CASCADE).
DeleteItem(i) ==
    /\ i \in items
    /\ items' = items \ {i}
    /\ Rewrite({t \in Task : ItemOf[t] = i}, LAMBDA r : Absent)

\* One unit of time.
Older(r) ==
    [r EXCEPT !.wait = IF @ = 0 THEN 0 ELSE @ - 1,
              !.age  = IF r.status \in {"running", "done"}
                         THEN Lesser(@ + 1, PruneAge) ELSE @]

Tick == Rewrite(Task, Older) /\ UNCHANGED items

QueueTypeOK ==
    /\ items \subseteq Item
    /\ row \in [Task -> Row]

QueueInit ==
    /\ items = Item
    /\ row = [t \in Task |-> Absent]
=============================================================================
