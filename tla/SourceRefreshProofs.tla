------------------------ MODULE SourceRefreshProofs ------------------------
(***************************************************************************)
(* The rows, the worker and the loads are well typed, nothing touches the  *)
(* row of a task in execution, and a fresh detail is complete, for any     *)
(* numbers of series, retries, categories and faults.                      *)
(***************************************************************************)
EXTENDS SourceRefresh, TLAPS

\* What a statement does to the rows that run: nothing.
Spares == \A t \in Task : queue[t].status = "running" => queue'[t] = queue[t]

Rows == queue \in [Task -> Row]

\* Fresh and absent rows are rows.
LEMMA NewIsRow == New \in Row /\ Absent \in Row
<1>1. 0 \in 0..(MaxRetry - 1)
    BY RetryAssumption, SMT
<1>2. New \in Row
    BY <1>1 DEF New, Row
<1> QED BY <1>2, SMT DEF Absent, Row

\* A request spares what runs.
LEMMA EnqueueSpares ==
    ASSUME NEW t \in Task, Rows, EnqueueSourceRefresh(t)
    PROVE  Rows' /\ Spares
BY NewIsRow, SMT DEF Rows, EnqueueSourceRefresh, Rewrite, Spares

\* So does the end of a backoff.
LEMMA ElapseSpares ==
    ASSUME NEW t \in Task, Rows, Elapse(t)
    PROVE  Rows' /\ Spares
<1>1. queue[t] \in Row
    BY DEF Rows
<1>2. [queue[t] EXCEPT !.due = TRUE] \in Row
    BY <1>1 DEF Row
<1>3. queue' = [u \in Task |-> IF u = t THEN [queue[t] EXCEPT !.due = TRUE] ELSE queue[u]]
    BY DEF Elapse, Rewrite
<1> QED BY <1>2, <1>3, SMT DEF Rows, Spares, Elapse

\* A claim spares what runs, and keeps the count of what it takes.
LEMMA ClaimSpares ==
    ASSUME NEW S \in SUBSET Due, Rows, Rewrite(S, Claimed)
    PROVE  /\ Rows' /\ Spares
           /\ \A t \in S : queue'[t].status = "running" /\ queue'[t].retry = queue[t].retry
BY SMT DEF Rows, Row, Due, InStatus, Rewrite, Claimed, Spares

\* The end of an execution writes its own row, within the retries there are.
LEMMA EndsOwnRow ==
    ASSUME NEW t \in Task, Rows,
           DoneSourceRefresh(t) \/ Fail(t, queue[t].retry)
    PROVE  Rows' /\ \A u \in Task \ {t} : queue'[u] = queue[u]
<1>1. CASE DoneSourceRefresh(t)
    BY <1>1, RetryAssumption, SMT DEF DoneSourceRefresh, Rows, Row, Rewrite, Over
<1>2. CASE FailFatalSourceRefresh(t)
    BY <1>2, RetryAssumption, SMT DEF FailFatalSourceRefresh, Rows, Row, Rewrite, Over
<1>3. CASE FailSourceRefresh(t) /\ ~(queue[t].retry + 1 >= MaxRetry)
    <2> DEFINE r == [status |-> "pending", retry |-> queue[t].retry + 1, due |-> FALSE]
    <2>1. queue[t].retry \in 0..(MaxRetry - 1)
        BY SMT DEF Rows, Row
    <2>2. queue[t].retry + 1 \in 0..(MaxRetry - 1)
        BY <1>3, <2>1, RetryAssumption, SMT
    <2>3. r \in Row
        BY <2>2 DEF Row
    <2>4. queue' = [u \in Task |-> IF u = t THEN r ELSE queue[u]]
        BY <1>3 DEF FailSourceRefresh, Rewrite
    <2> QED BY <2>3, <2>4, SMT DEF Rows
<1> QED BY <1>1, <1>2, <1>3, Zenon DEF Fail

\* The resets keep the rows well formed.
LEMMA ResetTyped ==
    ASSUME Rows,
           ReconcileSourceRefreshOnStartup \/
               \E stale, aged : Maintained(stale, aged)
    PROVE  Rows'
<1>1. CASE ReconcileSourceRefreshOnStartup
    BY <1>1, SMT DEF ReconcileSourceRefreshOnStartup, Rows, Row, Rewrite, Reset
<1>2. CASE \E stale, aged : Maintained(stale, aged)
    BY <1>2, NewIsRow, SMT DEF Maintained, Rows, Row, Reset
<1> QED BY <1>1, <1>2

-----------------------------------------------------------------------------
\* The invariant has two halves that do not need each other: rows, worker and
\* executions, and what loads and pages write.

WorkerTyped ==
    /\ queue \in [Task -> Row]
    /\ worker \in {"down", "ready", "draining"}
    /\ exec \in [Task -> [at : Point, retry : 0..(MaxRetry - 1)]]

\* Tasks are executed inside a drain only.
DrainExecutes == worker # "draining" => \A t \in Task : exec[t].at = "idle"

WorkerInv == WorkerTyped /\ HeldUndisturbed /\ DrainExecutes

LoadsTyped ==
    /\ fetch \in [left : 0..MaxCategories, got : BOOLEAN, failed : BOOLEAN]
    /\ item \in [Item -> {"absent", "brief", "loaded"}]
    /\ sources \in [Item -> {"none", "some", "all"}]
    /\ older \subseteq Series \X Series
    /\ fresh \subseteq Series
    /\ flight \in [Item -> Stage]
    /\ page \in [Writer -> [item : Item \cup {Catalog}, seen : BOOLEAN]]
    /\ todo \subseteq Series
    /\ enabled \in BOOLEAN
    /\ outside \in 0..MaxOutside

\* A load that is about to be marked has written all play sources.
MarkedIsComplete == \A i \in Item : flight[i] = "mark" => sources[i] = "all"

LoadInv == LoadsTyped /\ FreshIsComplete /\ MarkedIsComplete

\* The process starts with nothing claimed, loaded or looked at.
LEMMA InitHolds == Init => WorkerInv /\ LoadInv
<1> SUFFICES ASSUME Init PROVE WorkerInv /\ LoadInv
    OBVIOUS
<1> USE DEF Init
<1>1. WorkerTyped
    BY RetryAssumption, NewIsRow, SMT DEF WorkerTyped, Idle, Point
<1>2. LoadsTyped
    BY BoundAssumption, SMT DEF LoadsTyped, NoFetch, NoPage, Stage, Item
<1>3. HeldUndisturbed /\ DrainExecutes
    BY DEF HeldUndisturbed, DrainExecutes, Idle
<1>4. FreshIsComplete /\ MarkedIsComplete
    BY DEF FreshIsComplete, MarkedIsComplete
<1> QED BY <1>1, <1>2, <1>3, <1>4 DEF WorkerInv, LoadInv

-----------------------------------------------------------------------------
\* Steps that spare what runs and leave worker and executions alone.
LEMMA SparingKeeps ==
    ASSUME WorkerInv, Rows', Spares, UNCHANGED <<worker, exec>>
    PROVE  WorkerInv'
BY DEF WorkerInv, WorkerTyped, HeldUndisturbed, DrainExecutes, Rows, Spares

\* Steps that move a task on within its execution.
LEMMA SetKeeps ==
    ASSUME NEW t \in Task, NEW at \in Point, WorkerInv,
           exec[t].at # "idle", Set(t, at), UNCHANGED <<queue, worker>>
    PROVE  WorkerInv'
BY SMT DEF WorkerInv, WorkerTyped, HeldUndisturbed, DrainExecutes, Set

\* The end of a load moves on those who asked for it.
LEMMA AnswerKeeps ==
    ASSUME NEW i \in Item, NEW at \in {"ok", "error"}, WorkerInv, Answer(i, at)
    PROVE  WorkerInv'
BY SMT DEF WorkerInv, WorkerTyped, HeldUndisturbed, DrainExecutes, Answer, Point

\* A process that starts executes nothing, so that it may reset every row.
LEMMA RunKeeps == ASSUME WorkerInv, Run PROVE WorkerInv'
<1>1. Rows'
    BY ResetTyped DEF Run, WorkerInv, WorkerTyped, Rows
<1>2. \A t \in Task : exec'[t].at = "idle"
    BY DEF Run, WorkerInv, DrainExecutes
<1> QED BY <1>1, <1>2 DEF Run, WorkerInv, WorkerTyped, HeldUndisturbed, DrainExecutes, Rows

\* The tickers run between drains, when nothing is executed.
LEMMA MaintainKeeps ==
    ASSUME NEW stale, NEW aged, WorkerInv, Maintain(stale, aged)
    PROVE  WorkerInv'
<1>1. Rows'
    BY ResetTyped DEF Maintain, WorkerInv, WorkerTyped, Rows
<1>2. \A t \in Task : exec'[t].at = "idle"
    BY DEF Maintain, work, WorkerInv, DrainExecutes
<1> QED BY <1>1, <1>2
        DEF Maintain, work, WorkerInv, WorkerTyped, HeldUndisturbed, DrainExecutes, Rows

\* A claim remembers of each row the count it has.
LEMMA ClaimKeeps == ASSUME WorkerInv, Claim PROVE WorkerInv'
<1>1. PICK S \in SUBSET Due :
          /\ Rewrite(S, Claimed)
          /\ exec' = [t \in Task |-> IF t \in S THEN [at |-> "claimed", retry |-> queue[t].retry]
                                     ELSE exec[t]]
          /\ worker' = IF S = {} THEN "ready" ELSE worker
    BY DEF Claim
<1>2. S \subseteq Task
    BY DEF Due, InStatus
<1>3. Rows
    BY DEF WorkerInv, WorkerTyped, Rows
<1>4. /\ Rows' /\ Spares
      /\ \A t \in S : queue'[t].status = "running" /\ queue'[t].retry = queue[t].retry
    BY <1>1, <1>3, ClaimSpares
<1>5. \A t \in Task : exec[t].at = "idle"
    BY DEF Claim, Working
<1>6. \A t \in S : queue[t].retry \in 0..(MaxRetry - 1)
    BY <1>2, <1>3 DEF Rows, Row
<1>7. WorkerTyped'
    BY <1>1, <1>2, <1>4, <1>6, SMT DEF Claim, WorkerInv, WorkerTyped, Rows, Point
<1>8. HeldUndisturbed'
    BY <1>1, <1>2, <1>4, <1>5, SMT DEF HeldUndisturbed
<1>9. DrainExecutes'
    BY <1>1, <1>5, SMT DEF Claim, DrainExecutes
<1> QED BY <1>7, <1>8, <1>9 DEF WorkerInv

\* A claim whose answer is lost leaves rows that run, but no execution.
LEMMA ClaimFailsKeeps == ASSUME WorkerInv, ClaimFails PROVE WorkerInv'
<1>1. PICK S \in SUBSET Due : Rewrite(S, Claimed)
    BY DEF ClaimFails
<1>2. Rows'
    BY <1>1, ClaimSpares DEF WorkerInv, WorkerTyped, Rows
<1>3. \A t \in Task : exec'[t].at = "idle"
    BY DEF ClaimFails, Working
<1> QED BY <1>2, <1>3
        DEF ClaimFails, WorkerInv, WorkerTyped, HeldUndisturbed, DrainExecutes, Rows

\* The end of a task writes its own row and leaves the execution.
LEMMA FinishKeeps == ASSUME NEW t \in Task, WorkerInv, Finish(t) PROVE WorkerInv'
<1>1. Rows /\ exec[t].at # "idle" /\ queue[t].retry = exec[t].retry
    BY DEF Finish, WorkerInv, WorkerTyped, HeldUndisturbed, Rows
<1>2. Rows' /\ \A u \in Task \ {t} : queue'[u] = queue[u]
    <2>1. \/ DoneSourceRefresh(t) \/ Fail(t, exec[t].retry)
          \/ UNCHANGED queue
        BY DEF Finish
    <2>2. CASE DoneSourceRefresh(t)
        BY <1>1, <2>2, EndsOwnRow
    <2>3. CASE Fail(t, exec[t].retry)
        <3>1. Fail(t, queue[t].retry)
            BY <1>1, <2>3 DEF Fail
        <3> QED BY <1>1, <3>1, EndsOwnRow
    <2>4. CASE UNCHANGED queue
        BY <1>1, <2>4 DEF Rows
    <2> QED BY <2>1, <2>2, <2>3, <2>4
<1>3. Idle \in [at : Point, retry : 0..(MaxRetry - 1)]
    <2>1. 0 \in 0..(MaxRetry - 1)
        BY RetryAssumption, SMT
    <2> QED BY <2>1 DEF Idle, Point
<1>4. WorkerTyped'
    <2>1. exec' = [exec EXCEPT ![t] = Idle] /\ worker' = worker
        BY DEF Finish
    <2> QED BY <1>2, <1>3, <2>1 DEF WorkerInv, WorkerTyped, Rows
<1>5. HeldUndisturbed' /\ DrainExecutes'
    BY <1>2, SMT DEF Finish, WorkerInv, WorkerTyped, HeldUndisturbed, DrainExecutes, Idle
<1> QED BY <1>4, <1>5 DEF WorkerInv

\* A crash leaves no execution.
LEMMA CrashKeeps == ASSUME WorkerInv, Crash PROVE WorkerInv'
BY RetryAssumption, SMT
DEF Crash, WorkerInv, WorkerTyped, HeldUndisturbed, DrainExecutes, Idle, Point

-----------------------------------------------------------------------------
\* Every step keeps rows, worker and executions in agreement: a claim comes when
\* nothing is executed, a reset when nothing is drained.
THEOREM WorkerHolds == Spec => []WorkerInv
<1>1. WorkerInv /\ [Next]_vars => WorkerInv'
    <2> SUFFICES ASSUME WorkerInv, [Next]_vars PROVE WorkerInv'
        OBVIOUS
    <2> DEFINE Same == UNCHANGED <<queue, worker, exec>>
    <2>0. ASSUME Same PROVE WorkerInv'
        BY <2>0 DEF WorkerInv, WorkerTyped, HeldUndisturbed, DrainExecutes
    <2>r. Rows
        BY DEF WorkerInv, WorkerTyped, Rows
    <2>1. CASE Run
        BY <2>1, RunKeeps
    <2>2. CASE Claim
        BY <2>2, ClaimKeeps
    <2>3. CASE ClaimFails
        BY <2>3, ClaimFailsKeeps
    <2>4. CASE drain
        BY <2>4 DEF drain, WorkerInv, WorkerTyped, HeldUndisturbed, DrainExecutes
    <2>5. CASE \E stale \in SUBSET InStatus("running"), aged \in SUBSET InStatus("done") :
                Maintain(stale, aged)
        BY <2>5, MaintainKeeps
    <2>6. ASSUME NEW t \in Task, RefreshSourceItemDetail(t)
          PROVE  WorkerInv'
        BY <2>6, SetKeeps DEF RefreshSourceItemDetail, Point
    <2>7. ASSUME NEW t \in Task, Finish(t) PROVE WorkerInv'
        BY <2>7, FinishKeeps
    <2>8. ASSUME NEW t \in Task, Backoff(t) PROVE WorkerInv'
        BY <2>8, <2>r, ElapseSpares, SparingKeeps DEF Backoff, work
    <2>9. ASSUME NEW i \in Item, EnsureItemDetailLoaded(i) \/ ForceRefresh(i)
          PROVE  WorkerInv'
        BY <2>0, <2>9 DEF EnsureItemDetailLoaded, ForceRefresh, Asked, work
    <2>10. ASSUME NEW i \in Item, Load(i) PROVE WorkerInv'
        <3>1. CASE ProviderDisabled(i)
            BY <3>1, AnswerKeeps DEF ProviderDisabled
        <3>2. CASE Detail(i)
            BY <2>0, <3>2 DEF Detail, Fly, work
        <3>3. CASE IngestDetail(i)
            BY <2>0, <3>3 DEF IngestDetail, Fly, work
        <3>4. CASE LoadFails(i)
            BY <3>4, AnswerKeeps DEF LoadFails
        <3>5. CASE MarkSourceItemDetailRefreshed(i)
            BY <3>5, AnswerKeeps DEF MarkSourceItemDetailRefreshed
        <3> QED BY <2>10, <3>1, <3>2, <3>3, <3>4, <3>5 DEF Load
    <2>11. ASSUME NEW i \in Item, Search(i) \/ FetchCategory(i) PROVE WorkerInv'
        BY <2>0, <2>11 DEF Search, FetchCategory, work
    <2>12. CASE Searched \/ Fetched \/ PageFails
        BY <2>0, <2>12 DEF Searched, Fetched, PageFails, work
    <2>13. CASE Categories
        BY <2>13, SetKeeps, ItemAssumption DEF Categories, Point
    <2>14. CASE FetchEnds
        BY <2>14, SetKeeps, ItemAssumption DEF FetchEnds, Fetching, Point
    <2>15. CASE sweepDetail \/ SetProviderEnabled
        BY <2>0, <2>15 DEF sweepDetail, SetProviderEnabled, work
    <2>16. CASE EnqueueCatalogFetch
        BY <2>16, <2>r, EnqueueSpares, SparingKeeps, ItemAssumption
        DEF EnqueueCatalogFetch, work
    <2>17. ASSUME NEW i \in Series, EnqueueDetailRefresh(i) PROVE WorkerInv'
        <3>1. CASE EnqueueSourceRefresh(i)
            BY <2>17, <3>1, <2>r, EnqueueSpares, SparingKeeps, ItemAssumption
            DEF EnqueueDetailRefresh, work
        <3>2. CASE UNCHANGED queue
            BY <2>0, <2>17, <3>2 DEF EnqueueDetailRefresh, work
        <3> QED BY <2>17, <3>1, <3>2 DEF EnqueueDetailRefresh
    <2>18. ASSUME NEW i \in Series, Expire(i) PROVE WorkerInv'
        BY <2>0, <2>18 DEF Expire, work
    <2>19. CASE Crash
        BY <2>19, CrashKeeps
    <2>20. CASE UNCHANGED vars
        BY <2>0, <2>20 DEF vars, work
    <2> HIDE DEF Same
    <2> QED
        BY <2>1, <2>2, <2>3, <2>4, <2>5, <2>6, <2>7, <2>8, <2>9, <2>10, <2>11, <2>12,
           <2>13, <2>14, <2>15, <2>16, <2>17, <2>18, <2>19, <2>20 DEF Next
<1> QED BY <1>1, InitHolds, PTL DEF Spec

-----------------------------------------------------------------------------
\* Steps that leave play sources, marks and loads alone need only be typed.
LEMMA DataKeeps ==
    ASSUME LoadInv, LoadsTyped', UNCHANGED sources,
           fresh' \subseteq fresh,
           \A i \in Item : flight'[i] = "mark" => flight[i] = "mark"
    PROVE  LoadInv'
BY DEF LoadInv, LoadsTyped, FreshIsComplete, MarkedIsComplete

\* The bound on requests and failures is kept.
LEMMA OutsideTyped ==
    ASSUME LoadInv, UNCHANGED outside \/ Outside
    PROVE  outside' \in 0..MaxOutside
<1>1. MaxOutside \in Nat
    BY BoundAssumption
<1> QED BY <1>1, SMT DEF Outside, LoadInv, LoadsTyped

\* A page that is looked at, written or given up.
LEMMA PagesKeep ==
    ASSUME LoadInv,
           \/ UNCHANGED item
           \/ \E w \in Writer : UpsertSourceItem(w),
           \/ \E w \in Writer, i \in Item : LookAt(w, i)
           \/ \E w \in Writer : page' = [page EXCEPT ![w] = NoPage],
           UNCHANGED <<sources, older, fresh, flight, todo, enabled>>,
           UNCHANGED outside \/ Outside,
           fetch' \in [left : 0..MaxCategories, got : BOOLEAN, failed : BOOLEAN]
    PROVE  LoadInv'
<1> DEFINE Page == [item : Item \cup {Catalog}, seen : BOOLEAN]
<1>1. outside' \in 0..MaxOutside
    BY OutsideTyped
<1>2. item' \in [Item -> {"absent", "brief", "loaded"}]
    BY DEF UpsertSourceItem, LoadInv, LoadsTyped
<1>3. NoPage \in Page
    BY DEF NoPage
<1>4. \A i \in Item : [item |-> i, seen |-> item[i] = "loaded"] \in Page
    OBVIOUS
<1>5. page \in [Writer -> Page]
    BY DEF LoadInv, LoadsTyped
<1> HIDE DEF Page
<1>6. page' \in [Writer -> Page]
    BY <1>3, <1>4, <1>5 DEF LookAt
<1>7. LoadsTyped'
    BY <1>1, <1>2, <1>6 DEF Page, LoadInv, LoadsTyped
<1> QED BY <1>7, DataKeeps

\* Each step of a load writes more, and the mark comes when all is written.
LEMMA LoadKeeps == ASSUME NEW i \in Item, LoadInv, Load(i) PROVE LoadInv'
<1> USE DEF LoadInv
<1>1. outside' \in 0..MaxOutside
    BY OutsideTyped
    DEF Load, ProviderDisabled, Detail, IngestDetail, LoadFails,
        MarkSourceItemDetailRefreshed, Fly
<1>2. ASSUME NEW at \in {"ok", "error"}, Answer(i, at), UNCHANGED data
      PROVE  LoadInv'
    <2>1. LoadsTyped'
        BY <1>1, <1>2 DEF Answer, data, rest, LoadsTyped, Stage
    <2> QED BY <1>2, <2>1, DataKeeps DEF Answer, data, LoadsTyped
<1>3. CASE ProviderDisabled(i)
    BY <1>2, <1>3 DEF ProviderDisabled
<1>4. CASE LoadFails(i)
    BY <1>2, <1>4 DEF LoadFails
<1>5. CASE Detail(i)
    <2>1. LoadsTyped'
        BY <1>1, <1>5 DEF Detail, Fly, rest, work, LoadsTyped, Stage
    <2> QED BY <1>5, <2>1, DataKeeps DEF Detail, Fly, LoadsTyped
<1>6. CASE IngestDetail(i)
    <2>1. LoadsTyped'
        BY <1>1, <1>6 DEF IngestDetail, Fly, rest, work, LoadsTyped, Stage
    <2>2. \A j \in Item : sources[j] = "all" => sources'[j] = "all"
        BY <1>6 DEF IngestDetail, LoadsTyped
    <2>3. flight'[i] = "mark" => sources'[i] = "all"
        BY <1>6 DEF IngestDetail, Fly, LoadsTyped
    <2>4. fresh' = fresh /\ \A j \in Item \ {i} : flight'[j] = flight[j]
        BY <1>6 DEF IngestDetail, Fly, LoadsTyped
    <2>5. Series \subseteq Item
        BY DEF Item
    <2> QED BY <2>1, <2>2, <2>3, <2>4, <2>5 DEF FreshIsComplete, MarkedIsComplete, LoadsTyped
<1>7. CASE MarkSourceItemDetailRefreshed(i)
    <2>1. sources[i] = "all" /\ UNCHANGED <<item, sources>>
        BY <1>7 DEF MarkSourceItemDetailRefreshed, MarkedIsComplete
    <2>2. /\ fresh' \subseteq fresh \cup ({i} \cap Series)
          /\ older' \subseteq older \cup (Series \X Series)
        BY <1>7 DEF MarkSourceItemDetailRefreshed, LoadsTyped
    <2>3. flight' = [flight EXCEPT ![i] = "none"] /\ UNCHANGED <<fetch, page, todo, enabled>>
        BY <1>7 DEF MarkSourceItemDetailRefreshed, Answer, rest
    <2>4. LoadsTyped'
        BY <1>1, <2>1, <2>2, <2>3 DEF LoadsTyped, Stage
    <2> QED BY <2>1, <2>2, <2>3, <2>4 DEF FreshIsComplete, MarkedIsComplete, LoadsTyped
<1> QED BY <1>3, <1>4, <1>5, <1>6, <1>7 DEF Load

\* Every step keeps loads and pages in order: play sources are never taken away,
\* and a detail is marked by a load that has written them all.
THEOREM LoadsHold == Spec => []LoadInv
<1>1. LoadInv /\ [Next]_vars => LoadInv'
    <2> SUFFICES ASSUME LoadInv, [Next]_vars PROVE LoadInv'
        OBVIOUS
    <2> USE DEF LoadInv
    <2>1. ASSUME UNCHANGED <<data, flight, page, todo, enabled>>,
                 UNCHANGED outside \/ Outside,
                 fetch' \in [left : 0..MaxCategories, got : BOOLEAN, failed : BOOLEAN]
          PROVE  LoadInv'
        <3>1. LoadsTyped'
            BY <2>1, OutsideTyped DEF data, LoadsTyped
        <3> QED BY <2>1, <3>1, DataKeeps DEF data
    <2>c. MaxCategories \in Nat
        BY BoundAssumption
    <2>2. CASE Run \/ Claim \/ ClaimFails \/ drain
        BY <2>1, <2>2 DEF Run, Claim, ClaimFails, drain, load, rest, LoadsTyped
    <2>3. CASE \E stale \in SUBSET InStatus("running"), aged \in SUBSET InStatus("done") :
                Maintain(stale, aged)
        BY <2>1, <2>3 DEF Maintain, work, load, rest, LoadsTyped
    <2>4. ASSUME NEW t \in Task, RefreshSourceItemDetail(t)
          PROVE  LoadInv'
        <3>1. outside' \in 0..MaxOutside
            BY <2>4, OutsideTyped DEF RefreshSourceItemDetail
        <3>2. /\ \/ flight' = [flight EXCEPT ![t] = IF @ = "none" THEN "ask" ELSE @]
                 \/ UNCHANGED flight
              /\ UNCHANGED <<fetch, data, page, rest>>
            BY <2>4 DEF RefreshSourceItemDetail
        <3>3. LoadsTyped'
            BY <3>1, <3>2 DEF data, rest, LoadsTyped, Stage
        <3> QED BY <3>2, <3>3, DataKeeps DEF data, LoadsTyped
    <2>5. ASSUME NEW t \in Task, Finish(t) \/ Backoff(t) PROVE LoadInv'
        BY <2>1, <2>5 DEF Finish, Backoff, work, load, rest, LoadsTyped
    <2>6. ASSUME NEW i \in Item, EnsureItemDetailLoaded(i) \/ ForceRefresh(i)
          PROVE  LoadInv'
        <3>1. Asked(i)
            BY <2>6 DEF EnsureItemDetailLoaded, ForceRefresh
        <3>2. outside' \in 0..MaxOutside
            BY <3>1, OutsideTyped DEF Asked
        <3>3. LoadsTyped'
            BY <3>1, <3>2 DEF Asked, work, data, rest, LoadsTyped, Stage
        <3> QED BY <3>1, <3>3, DataKeeps DEF Asked, data, LoadsTyped
    <2>7. ASSUME NEW i \in Item, Load(i) PROVE LoadInv'
        BY <2>7, LoadKeeps
    <2>8. ASSUME NEW i \in Item, Search(i) \/ FetchCategory(i) PROVE LoadInv'
        BY <2>8, PagesKeep DEF Search, FetchCategory, Writer, work, data, rest, LoadsTyped
    <2>9. CASE Searched
        BY <2>9, PagesKeep DEF Searched, UpsertSourceItem, Writer, work, rest, LoadsTyped
    <2>10. CASE Fetched \/ PageFails
        <3>1. fetch.left \in 0..MaxCategories /\ fetch.left > 0
            BY <2>10 DEF Fetched, PageFails, LoadsTyped
        <3>2. fetch.left - 1 \in 0..MaxCategories
            BY <3>1, <2>c, SMT
        <3>3. \/ fetch' = [fetch EXCEPT !.left = fetch.left - 1, !.got = TRUE]
              \/ fetch' = [fetch EXCEPT !.left = fetch.left - 1, !.failed = TRUE]
            BY <2>10 DEF Fetched, PageFails
        <3>4. fetch' \in [left : 0..MaxCategories, got : BOOLEAN, failed : BOOLEAN]
            BY <3>2, <3>3 DEF LoadsTyped
        <3> QED BY <2>10, <3>4, PagesKeep
                DEF Fetched, PageFails, UpsertSourceItem, Writer, data, rest
    <2>11. CASE Categories
        <3>1. \/ \E n \in 0..MaxCategories : fetch' = [NoFetch EXCEPT !.left = n]
              \/ UNCHANGED fetch
            BY <2>11 DEF Categories
        <3>2. fetch' \in [left : 0..MaxCategories, got : BOOLEAN, failed : BOOLEAN]
            BY <3>1 DEF NoFetch, LoadsTyped
        <3> QED BY <2>1, <2>11, <3>2 DEF Categories, load, rest
    <2>n. NoFetch \in [left : 0..MaxCategories, got : BOOLEAN, failed : BOOLEAN]
        BY <2>c DEF NoFetch
    <2>12. CASE FetchEnds
        BY <2>1, <2>12, <2>n DEF FetchEnds, load, rest
    <2>13. CASE sweepDetail
        <3>1. todo' \subseteq Series
            BY <2>13 DEF sweepDetail, ListStaleSeriesItemIDs, Stale
        <3>2. LoadsTyped'
            BY <2>13, <3>1 DEF sweepDetail, work, data, load, LoadsTyped
        <3> QED BY <2>13, <3>2, DataKeeps DEF sweepDetail, data, load
    <2>14. ASSUME NEW i \in Series, EnqueueDetailRefresh(i) PROVE LoadInv'
        <3>1. outside' \in 0..MaxOutside
            BY <2>14, OutsideTyped DEF EnqueueDetailRefresh
        <3>2. LoadsTyped'
            BY <2>14, <3>1 DEF EnqueueDetailRefresh, work, data, load, LoadsTyped
        <3> QED BY <2>14, <3>2, DataKeeps DEF EnqueueDetailRefresh, data, load
    <2>15. CASE EnqueueCatalogFetch
        BY <2>1, <2>15 DEF EnqueueCatalogFetch, work, load, rest, LoadsTyped
    <2>16. ASSUME NEW i \in Series, Expire(i) PROVE LoadInv'
        <3>1. LoadsTyped'
            BY <2>16 DEF Expire, work, load, rest, LoadsTyped
        <3> QED BY <2>16, <3>1, DataKeeps DEF Expire, load
    <2>17. CASE SetProviderEnabled
        <3>1. outside' \in 0..MaxOutside
            BY <2>17, OutsideTyped DEF SetProviderEnabled
        <3>2. LoadsTyped'
            BY <2>17, <3>1 DEF SetProviderEnabled, work, data, load, LoadsTyped
        <3> QED BY <2>17, <3>2, DataKeeps DEF SetProviderEnabled, data, load
    <2>18. CASE Crash
        <3>1. outside' \in 0..MaxOutside
            BY <2>18, OutsideTyped DEF Crash
        <3>2. flight' \in [Item -> Stage] /\ \A i \in Item : flight'[i] = "none"
            BY <2>18 DEF Crash, Stage
        <3>3. page' \in [Writer -> [item : Item \cup {Catalog}, seen : BOOLEAN]]
            BY <2>18 DEF Crash, NoPage
        <3>4. LoadsTyped'
            BY <2>18, <2>n, <3>1, <3>2, <3>3 DEF Crash, data, LoadsTyped
        <3> QED BY <2>18, <3>2, <3>4, DataKeeps DEF Crash, data
    <2>19. CASE UNCHANGED vars
        BY <2>1, <2>19 DEF vars, work, load, rest, LoadsTyped
    <2> QED
        BY <2>2, <2>3, <2>4, <2>5, <2>6, <2>7, <2>8, <2>9, <2>10, <2>11, <2>12,
           <2>13, <2>14, <2>15, <2>16, <2>17, <2>18, <2>19 DEF Next
<1> QED BY <1>1, InitHolds, PTL DEF Spec

-----------------------------------------------------------------------------
\* The types are those of TypeOK, for any number of series, films, retries,
\* categories and faults.
THEOREM TypesHold == Spec => []TypeOK
<1>1. WorkerInv /\ LoadInv => TypeOK
    BY DEF WorkerInv, WorkerTyped, LoadInv, LoadsTyped, TypeOK
<1> QED BY <1>1, WorkerHolds, LoadsHold, PTL

\* A row in execution is running, with the count of attempts its execution read:
\* requests spare it, and resets come from the goroutine that waits for the batch.
THEOREM ExecutionUndisturbed == Spec => []HeldUndisturbed
<1>1. WorkerInv => HeldUndisturbed
    BY DEF WorkerInv
<1> QED BY <1>1, WorkerHolds, PTL

\* A fresh series has all its play sources: the mark is written last.
THEOREM FreshComplete == Spec => []FreshIsComplete
<1>1. LoadInv => FreshIsComplete
    BY DEF LoadInv
<1> QED BY <1>1, LoadsHold, PTL

=============================================================================
