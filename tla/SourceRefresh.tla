--------------------------- MODULE SourceRefresh ---------------------------
(***************************************************************************)
(* Online series: the worker that refreshes them, the scheduler that finds *)
(* the ones whose detail is older than its TTL, the loader that fetches a  *)
(* detail once for all who ask, and the pages of searches and of catalogs  *)
(* that write the same items beside it.                                    *)
(*                                                                         *)
(* All items are of one provider, which an administrator or its failures   *)
(* switch off and on.  A category is a page of one item, a detail has a    *)
(* first and a last play source.                                           *)
(***************************************************************************)
EXTENDS SourceQueue

CONSTANTS
    Series, Movie,  \* the items
    Gone,           \* the series that the provider has dropped
    Catalog,        \* the provider, as the target of catalog_fetch
    ClaimBatch,     \* sourceRefreshClaimBatch
    SweepBatch,     \* sourceDetailSweepBatch
    MaxCategories,  \* sourceCatalogFetchMaxCategories
    MaxOutside      \* bound on requests and on failures of database, network or process

Item == Series \cup Movie

ASSUME ItemAssumption ==
    /\ Task = Series \cup {Catalog}
    /\ Catalog \notin Item
    /\ Series \cap Movie = {}
    /\ Gone \subseteq Series

ASSUME BoundAssumption == {ClaimBatch, SweepBatch, MaxCategories, MaxOutside} \subseteq Nat

VARIABLES
    worker,    \* the goroutine of SourceRefreshWorker.Run
    exec,      \* a claimed task: how far process is, and the retry count it read
    fetch,     \* runCatalogFetch: categories left, any ingested, any failed
    item,      \* source_items, with detail_loaded
    sources,   \* source_play_sources of an item
    older,     \* <<i, j>>: detail_refreshed_at of i is before that of j
    fresh,     \* the series whose detail_refreshed_at is within the TTL
    flight,    \* sourceDetailLoadGroup: how far the one load of an item is
    page,      \* an ingestion between its look at the item and its write
    todo,      \* the series a sweep has listed and not enqueued yet
    enabled,   \* the provider is enabled
    outside    \* requests and failures so far

work == <<worker, exec, fetch>>
data == <<item, sources, older, fresh>>
load == <<flight, page>>
rest == <<todo, enabled>>
vars == <<queue, work, data, load, rest, outside>>

Writer == {"catalog", "search"}
NoPage == [item |-> Catalog, seen |-> FALSE]
Idle   == [at |-> "idle", retry |-> 0]
NoFetch == [left |-> 0, got |-> FALSE, failed |-> FALSE]

Point  == {"idle", "claimed", "asked", "fetching", "ok", "error"}
Stage  == {"none", "ask", "item", "first", "last", "mark"}

Outside == outside < MaxOutside /\ outside' = outside + 1

\* A loaded item has play sources; those of a series may be incomplete, as a load
\* may have broken off.  What the provider has dropped, it once had.
Init ==
    /\ queue = [t \in Task |-> Absent]
    /\ worker = "down"
    /\ exec = [t \in Task |-> Idle]
    /\ fetch = NoFetch
    /\ item \in [Item -> {"absent", "brief", "loaded"}]
    /\ sources \in [Item -> {"none", "some", "all"}]
    /\ \A i \in Item : item[i] = "loaded" <=> sources[i] # "none"
    /\ \A i \in Gone : sources[i] = "all"
    /\ \A i \in Movie : sources[i] # "some"
    /\ older \in SUBSET (Series \X Series)
    /\ \A i, j \in Series : i # j => (<<i, j>> \in older <=> <<j, i>> \notin older)
    /\ \A i \in Series : <<i, i>> \notin older
    /\ \A i, j, k \in Series : <<i, j>> \in older /\ <<j, k>> \in older => <<i, k>> \in older
    /\ fresh = {}
    /\ flight = [i \in Item |-> "none"]
    /\ page = [w \in Writer |-> NoPage]
    /\ todo = {}
    /\ enabled = TRUE
    /\ outside = 0

Set(t, at) == exec' = [exec EXCEPT ![t].at = at]

-----------------------------------------------------------------------------
(* The worker.                                                             *)

\* The rows a process that died has left are taken back, unless that fails.
Run ==
    /\ worker = "down"
    /\ worker' = "draining"
    /\ \/ ReconcileSourceRefreshOnStartup /\ UNCHANGED outside
       \/ Outside /\ UNCHANGED queue
    /\ UNCHANGED <<exec, fetch, data, load, rest>>

Working == \E t \in Task : exec[t].at # "idle"

\* drain claims when nothing of the batch before is left, and ends when nothing
\* is due.
Claim ==
    /\ worker = "draining"
    /\ ~Working
    /\ \E S \in SUBSET Due :
          /\ ClaimAnswer(S, ClaimBatch)
          /\ Rewrite(S, Claimed)
          /\ exec' = [t \in Task |-> IF t \in S THEN [at |-> "claimed", retry |-> queue[t].retry]
                                     ELSE exec[t]]
          /\ worker' = IF S = {} THEN "ready" ELSE worker
    /\ UNCHANGED <<fetch, data, load, rest, outside>>

\* The answer is lost, and with it perhaps the rows it has marked.
ClaimFails ==
    /\ worker = "draining"
    /\ ~Working
    /\ Outside
    /\ worker' = "ready"
    /\ \E S \in SUBSET Due : (ClaimAnswer(S, ClaimBatch) \/ S = {}) /\ Rewrite(S, Claimed)
    /\ UNCHANGED <<exec, fetch, data, load, rest>>

drain ==
    /\ worker = "ready"
    /\ worker' = "draining"
    /\ UNCHANGED <<queue, exec, fetch, data, load, rest, outside>>

\* Mutant: the maintenance ticker has a goroutine of its own.
Maintain_Beside(stale, aged) ==
    /\ worker # "down"
    /\ Maintained(stale, aged)
    /\ UNCHANGED <<work, data, load, rest, outside>>

Maintain(stale, aged) ==
    /\ worker = "ready"
    /\ Maintained(stale, aged)
    /\ UNCHANGED <<work, data, load, rest, outside>>

\* runDetailRefresh joins the load of its item, or starts it.
RefreshSourceItemDetail(t) ==
    /\ exec[t].at = "claimed"
    /\ t \in Series
    /\ \/ /\ flight' = [flight EXCEPT ![t] = IF @ = "none" THEN "ask" ELSE @]
          /\ Set(t, "asked")
          /\ UNCHANGED outside
       \/ Outside /\ Set(t, "error") /\ UNCHANGED flight
    /\ UNCHANGED <<queue, worker, fetch, data, page, rest>>

\* The task's last statement; what it returns is ignored.
Finish(t) ==
    /\ exec[t].at \in {"ok", "error"}
    /\ exec' = [exec EXCEPT ![t] = Idle]
    /\ \/ /\ IF exec[t].at = "ok" THEN DoneSourceRefresh(t) ELSE Fail(t, exec[t].retry)
          /\ UNCHANGED outside
       \/ Outside /\ UNCHANGED queue
    /\ UNCHANGED <<worker, fetch, data, load, rest>>

-----------------------------------------------------------------------------
(* The loader: one load of an item at a time, whoever asks.                *)

\* Whoever waits for the load of i has its answer.
Answer(i, at) ==
    /\ flight' = [flight EXCEPT ![i] = "none"]
    /\ exec' = [t \in Task |-> IF t = i /\ exec[t].at = "asked" THEN [exec[t] EXCEPT !.at = at]
                               ELSE exec[t]]
    /\ UNCHANGED <<queue, worker, fetch, page, rest>>

Fly(i, from, to) ==
    /\ flight[i] = from
    /\ flight' = [flight EXCEPT ![i] = to]
    /\ UNCHANGED <<queue, work, older, fresh, page, rest, outside>>

\* A client starts a load, or joins the one there is.
Asked(i) ==
    /\ Outside
    /\ flight[i] = "none"
    /\ flight' = [flight EXCEPT ![i] = "ask"]
    /\ UNCHANGED <<queue, work, data, page, rest>>

\* EnsureItemDetailLoaded: a detail that is loaded and, of a series, within the
\* TTL is taken as it is.
EnsureItemDetailLoaded(i) ==
    /\ worker # "down"
    /\ item[i] # "absent"
    /\ item[i] = "loaded" => i \in Series \ fresh
    /\ Asked(i)

\* The administrator's button loads it in any case.
ForceRefresh(i) ==
    /\ worker # "down"
    /\ item[i] # "absent"
    /\ Asked(i)

\* A provider that is off has no error for the worker (IsProviderDisabledError).
ProviderDisabled(i) ==
    /\ flight[i] = "ask"
    /\ ~enabled
    /\ Answer(i, "ok")
    /\ UNCHANGED <<data, outside>>

Detail(i) ==
    /\ enabled
    /\ i \notin Gone
    /\ Fly(i, "ask", "item")
    /\ UNCHANGED <<item, sources>>

\* Mutant: a play source that cannot be written is passed over.
IngestDetail_Skips(i) ==
    \/ /\ Fly(i, "item", "first")
       /\ item' = [item EXCEPT ![i] = "loaded"]
       /\ UNCHANGED sources
    \/ Fly(i, "first", "last") /\ UNCHANGED <<item, sources>>
    \/ Fly(i, "last", "mark") /\ UNCHANGED <<item, sources>>

\* IngestDetail: the item first, then its play sources one by one.
IngestDetail(i) ==
    \/ /\ Fly(i, "item", "first")
       /\ item' = [item EXCEPT ![i] = "loaded"]
       /\ UNCHANGED sources
    \/ /\ Fly(i, "first", "last")
       /\ sources' = [sources EXCEPT ![i] = IF @ = "none" THEN "some" ELSE @]
       /\ UNCHANGED item
    \/ /\ Fly(i, "last", "mark")
       /\ sources' = [sources EXCEPT ![i] = "all"]
       /\ UNCHANGED item

\* The provider has dropped the series, or a step failed or took too long.
LoadFails(i) ==
    /\ \/ flight[i] = "ask" /\ enabled /\ i \in Gone /\ UNCHANGED outside
       \/ flight[i] \in {"ask", "item", "first", "last"} /\ Outside
    /\ Answer(i, "error")
    /\ UNCHANGED data

\* Mutant: only updated_at is written.
MarkSourceItemDetailRefreshed_Updated(i) ==
    /\ flight[i] = "mark"
    /\ UNCHANGED <<data, outside>>
    /\ Answer(i, "ok")

\* detail_refreshed_at is the latest of all, of which only that of a series is ever
\* read; that it was written is not checked.
MarkSourceItemDetailRefreshed(i) ==
    /\ flight[i] = "mark"
    /\ \/ /\ UNCHANGED outside
          /\ fresh' = fresh \cup ({i} \cap Series)
          /\ older' = {p \in older : p[1] # i} \cup
                          ((Series \ {i}) \X ({i} \cap Series))
       \/ Outside /\ UNCHANGED <<older, fresh>>
    /\ Answer(i, "ok")
    /\ UNCHANGED <<item, sources>>

Load(i) == ProviderDisabled(i) \/ Detail(i) \/ IngestDetail(i) \/ LoadFails(i)
               \/ MarkSourceItemDetailRefreshed(i)

-----------------------------------------------------------------------------
(* Pages.                                                                  *)

\* IngestItem looks whether the item has a detail that is to be kept.
LookAt(w, i) == page' = [page EXCEPT ![w] = [item |-> i, seen |-> item[i] = "loaded"]]

\* And writes what it saw.
UpsertSourceItem(w) ==
    /\ page[w] # NoPage
    /\ item' = [item EXCEPT ![page[w].item] = IF page[w].seen THEN "loaded" ELSE "brief"]
    /\ page' = [page EXCEPT ![w] = NoPage]

Search(i) ==
    /\ worker # "down"
    /\ enabled
    /\ page["search"] = NoPage
    /\ Outside
    /\ LookAt("search", i)
    /\ UNCHANGED <<queue, work, data, flight, rest>>

Searched ==
    /\ UpsertSourceItem("search")
    /\ UNCHANGED <<queue, work, sources, older, fresh, flight, rest, outside>>

\* runCatalogFetch asks for the categories first.
Categories ==
    /\ exec[Catalog].at = "claimed"
    /\ \/ /\ enabled
          /\ \E n \in 0..MaxCategories : fetch' = [NoFetch EXCEPT !.left = n]
          /\ Set(Catalog, "fetching")
          /\ UNCHANGED outside
       \/ ~enabled /\ Set(Catalog, "ok") /\ UNCHANGED <<fetch, outside>>
       \/ Outside /\ Set(Catalog, "error") /\ UNCHANGED fetch
    /\ UNCHANGED <<queue, worker, data, load, rest>>

Fetching == exec[Catalog].at = "fetching"

FetchCategory(i) ==
    /\ Fetching
    /\ fetch.left > 0
    /\ enabled
    /\ page["catalog"] = NoPage
    /\ LookAt("catalog", i)
    /\ UNCHANGED <<queue, work, data, flight, rest, outside>>

Fetched ==
    /\ Fetching
    /\ fetch.left > 0
    /\ UpsertSourceItem("catalog")
    /\ fetch' = [fetch EXCEPT !.left = @ - 1, !.got = TRUE]
    /\ UNCHANGED <<queue, worker, exec, sources, older, fresh, flight, rest, outside>>

\* A category that fails does not end the fetch.
PageFails ==
    /\ Fetching
    /\ fetch.left > 0
    /\ \/ ~enabled /\ page["catalog"] = NoPage /\ UNCHANGED outside
       \/ Outside
    /\ page' = [page EXCEPT !["catalog"] = NoPage]
    /\ fetch' = [fetch EXCEPT !.left = @ - 1, !.failed = TRUE]
    /\ UNCHANGED <<queue, worker, exec, data, flight, rest>>

\* The task has taken five minutes, or all categories are done: only a fetch that
\* got nothing is an error.
FetchEnds ==
    /\ Fetching
    /\ page["catalog"] = NoPage
    /\ \/ /\ fetch.left = 0
          /\ Set(Catalog, IF ~fetch.got /\ fetch.failed THEN "error" ELSE "ok")
          /\ UNCHANGED outside
       \/ fetch.left > 0 /\ Outside /\ Set(Catalog, "error")
    /\ fetch' = NoFetch
    /\ UNCHANGED <<queue, worker, data, load, rest>>

-----------------------------------------------------------------------------
(* The scheduler.                                                          *)

Stale == {i \in Series \ fresh : item[i] = "loaded"}

\* The first of the stale series, in the order of detail_refreshed_at.
ListStaleSeriesItemIDs ==
    {i \in Stale : Cardinality({j \in Stale : <<j, i>> \in older}) < SweepBatch}

sweepDetail ==
    /\ worker # "down"
    /\ todo = {}
    /\ todo' = ListStaleSeriesItemIDs
    /\ UNCHANGED <<queue, work, data, load, enabled, outside>>

EnqueueDetailRefresh(i) ==
    /\ i \in todo
    /\ todo' = todo \ {i}
    /\ \/ EnqueueSourceRefresh(i) /\ UNCHANGED outside
       \/ Outside /\ UNCHANGED queue
    /\ UNCHANGED <<work, data, load, enabled>>

\* sweepCatalog, or an administrator's request.
EnqueueCatalogFetch ==
    /\ worker # "down"
    /\ Outside
    /\ EnqueueSourceRefresh(Catalog)
    /\ UNCHANGED <<work, data, load, rest>>

-----------------------------------------------------------------------------
(* The rest of the world.                                                  *)

\* The oldest of the fresh details passes the TTL.
Expire(i) ==
    /\ i \in fresh
    /\ \A j \in fresh : <<j, i>> \notin older
    /\ fresh' = fresh \ {i}
    /\ UNCHANGED <<queue, work, item, sources, older, load, rest, outside>>

SetProviderEnabled ==
    /\ Outside
    /\ enabled' = ~enabled
    /\ UNCHANGED <<queue, work, data, load, todo>>

Backoff(t) == Elapse(t) /\ UNCHANGED <<work, data, load, rest, outside>>

Crash ==
    /\ worker # "down"
    /\ Outside
    /\ worker' = "down"
    /\ exec' = [t \in Task |-> Idle]
    /\ fetch' = NoFetch
    /\ flight' = [i \in Item |-> "none"]
    /\ page' = [w \in Writer |-> NoPage]
    /\ todo' = {}
    /\ UNCHANGED <<queue, data, enabled>>

Next ==
    \/ Run \/ Claim \/ ClaimFails \/ drain
    \/ \E stale \in SUBSET InStatus("running"), aged \in SUBSET InStatus("done") :
          Maintain(stale, aged)
    \/ \E t \in Task : RefreshSourceItemDetail(t) \/ Finish(t) \/ Backoff(t)
    \/ \E i \in Item : EnsureItemDetailLoaded(i) \/ ForceRefresh(i) \/ Load(i)
                          \/ Search(i) \/ FetchCategory(i)
    \/ Searched \/ Categories \/ Fetched \/ PageFails \/ FetchEnds
    \/ sweepDetail \/ EnqueueCatalogFetch
    \/ \E i \in Series : EnqueueDetailRefresh(i) \/ Expire(i)
    \/ SetProviderEnabled \/ Crash

Spec == Init /\ [][Next]_vars

-----------------------------------------------------------------------------
(* Fairness: the goroutines, their tickers, loads that time out, and the   *)
(* supervisor that starts the process again; nothing of clients, of        *)
(* administrators or of the TTL.                                           *)
Process ==
    \/ \E t \in Task : RefreshSourceItemDetail(t) \/ Finish(t)
    \/ Categories \/ Fetched \/ PageFails \/ FetchEnds
    \/ \E i \in Item : FetchCategory(i)

TakeBack ==
    \E stale \in (SUBSET InStatus("running")) \ {{}}, aged \in SUBSET InStatus("done") :
        Maintain(stale, aged)

Fairness ==
    /\ WF_vars(Run) /\ WF_vars(Claim) /\ WF_vars(drain)
    /\ WF_vars(Process) /\ SF_vars(TakeBack)
    /\ WF_vars(sweepDetail) /\ WF_vars(\E i \in Series : EnqueueDetailRefresh(i))
    /\ WF_vars(\E t \in Task : Backoff(t))
    /\ \A i \in Item : WF_vars(Load(i))

FairSpec == Spec /\ Fairness

-----------------------------------------------------------------------------
TypeOK ==
    /\ queue \in [Task -> Row]
    /\ worker \in {"down", "ready", "draining"}
    /\ exec \in [Task -> [at : Point, retry : 0..(MaxRetry - 1)]]
    /\ fetch \in [left : 0..MaxCategories, got : BOOLEAN, failed : BOOLEAN]
    /\ item \in [Item -> {"absent", "brief", "loaded"}]
    /\ sources \in [Item -> {"none", "some", "all"}]
    /\ older \subseteq Series \X Series
    /\ fresh \subseteq Series
    /\ flight \in [Item -> Stage]
    /\ page \in [Writer -> [item : Item \cup {Catalog}, seen : BOOLEAN]]
    /\ todo \subseteq Series
    /\ enabled \in BOOLEAN
    /\ outside \in 0..MaxOutside

\* Nothing touches the row of a task in execution, so that its end counts the
\* attempt it was: not a request, and not the reset of stale rows, which comes
\* from the goroutine that waits for the batch (refresh_worker.go:78).
HeldUndisturbed ==
    \A t \in Task : exec[t].at # "idle" =>
        queue[t].status = "running" /\ queue[t].retry = exec[t].retry

\* A series whose detail counts as fresh has all its play sources: a load that
\* broke off is not taken for one that need not be repeated
\* (detail_loader.go:122, ingest.go:48).
FreshIsComplete == \A i \in fresh : sources[i] = "all"

\* As long as the worker gets through its queue, a loaded series that the
\* provider still has is refreshed once it is stale, through failures, restarts
\* and lost writes, unless the provider is switched off or a page that had seen
\* it without its detail takes the detail away (refresh_scheduler.go:112).
SeriesFollowed ==
    []<>(worker = "ready") =>
        \A i \in Series \ Gone :
            i \in Stale ~> i \notin Stale \/ ~enabled

\* A film whose detail counts as loaded has its play sources, as nothing loads
\* it again (detail_loader.go:56).
LoadedIsComplete ==
    \A i \in Movie : item[i] = "loaded" /\ flight[i] = "none" => sources[i] = "all"

=============================================================================
