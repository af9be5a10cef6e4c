# Formal models of FYMS

FYMS is a media server in Go with an Emby-compatible API: it scans libraries
of films and series, scrapes metadata from TMDB and other sources, refreshes
items when a file next to them changes, and records what its users play.
This directory holds TLA+ models of the parts of it that run concurrently,
TLC configurations that check them on small instances, and proofs checked by
TLAPS. Paths below are relative to `src/internal/` unless they start with
`src/`.

    tlc -config MCScrapeWorker.cfg MCScrapeWorker     check a model
    tlapm ScrapeWorkerProofs.tla                      check its proofs

`PROJECT.json` lists the components, the runs, the source lines every
definition stands for, the mutants that show each property can fail, the
hazards the properties are for, and the theorems.

## 1. The system

| part | state | operations | who calls it |
|---|---|---|---|
| scrape queue and worker (`services/scrape_queue.go`, `scrape_worker.go`) | table `scrape_queue`, one row per item and task type; goroutines with a stop channel, a claimed batch and a current task | Enqueue, Claim, Done, Fail, reconcile at start and of stale rows, prune, retry by hand, SetWorkerCount | scans, refreshes, administrators, its own consumers and tickers |
| TMDB breaker (`services/scrape_worker_health.go`) | `runtime` under a mutex; the atomic pointer `cachedClient`; the configuration in the database | remoteClaimsAllowed, noteRemoteSuccess, noteRemoteFailure, noteTMDBConfigError, tmdbClient, ReloadTmdbClient, InvalidateCachedClient | consumers before a claim and after a call, a watcher, the admin handler |
| refresh scheduler, queue and worker (`services/refresh_*.go`, `series_refresh.go`) | debounce entries per directory; table `refresh_queue`; goroutines as above | OnSidecarChange, flush, Enqueue, Claim, Done, Fail, dispatch | the file watcher, administrators, its own consumers |
| playback (`handlers/playback/playback.go`) | map `activePlaybacks` under a lock; rows of activity | start, progress, stop, mark played; the ticker for silent playbacks | clients, several requests at a time |
| sessions (`services/session_manager.go`) | what each device shows as playing | SetNowPlaying, ClearNowPlaying, cleanup | playback handlers, a ticker, administrators |
| progress buffer (`services/progress_buffer.go`) | map of positions to be written, by item and version, under a lock | BufferProgress, flushOnce every three seconds | playback handlers |
| ingest worker (`services/ingest_*.go`) | a bounded channel; the rename buffer with a timer per file name; counters per tag; the set of paths being waited for | Submit, OnDelete, OnCreate, flushIfStillPending, consume, Barrier | file watcher, scans, webhook |
| library scan (`services/scanner*.go`, `scan_progress.go`) | the status per library; what a scan has seen | ScanLibrary, pruneMissingPaths | administrators, schedules |
| file watcher (`services/file_watcher.go`) | fsnotify watches | handle, Start, Stop, Restart | the operating system |
| tasks and their adapters (`services/probe_task.go`, `backfill_task.go`, `taskcenter/adapters`) | one progress record and stop flag per task; the adapter's current run; rows of `task_runs`; a tracker goroutine per row | Start, Stop, the end of a run, a tracker's tick, the reconcile at start | administrators, the hook after a scan, the chain engine |
| task center (`services/taskcenter/registry.go`, `chain.go`) | the last snapshots sent; a bounded channel per subscriber; the engine's last statuses | SnapshotAll, StartBroadcaster, dispatch | polling, once a second |
| updater (`services/updater*.go`, `adapters/update.go`) | `state.json`, shared with a helper container; the executable and its backups; containers; a row of `task_runs` | Check, apply, rollback, the helper's run, the restart that finalizes | administrators, the helper, the supervisor |
| source refresh queue, worker and scheduler (`source/refresh_*.go`) | table `source_refresh_queue`, one row per series followed and one for a provider's catalog; one goroutine | Enqueue, drain, process, maintenance; the sweeps of stale details and of catalogs | the scheduler's ticker, administrators, the worker's own ticker |
| source items (`source/ingest.go`, `detail_loader.go`) | tables of items and play sources; one load per item in flight (singleflight) | EnsureItemDetailLoaded, ForceRefresh, RefreshSourceItemDetail, IngestDetail, IngestItem | clients that open an item, the worker, searches, catalog pages |
| rate limiter and gate (`services/scraper/ratelimit.go`) | tokens, error window, open time | Wait, Report | providers |
| the rest | see the components of `PROJECT.json` | | |

They interact through the database (a scan enqueues scrape tasks; a refresh
may hand a task to the scraper), through channels (watcher to ingest), through
shared maps under locks that are released between two critical sections
(playback), and through polling (Barrier, tickers, the chain engine).

What is hard in it: several goroutines claim from one table and write back by
row id; rows that look abandoned are taken back after ten minutes whether or
not someone still works on them; state is read before and used after a lock is
released; requests meet executions that are running; anything in memory is
lost with the process; events are dropped at a full channel, replaced in a
buffer, or paired wrongly; a status is taken for a lock; a poll misses what is
over between two ticks; an update kills the process that has to write its end.
The hazards of `PROJECT.json` name the line of each.

What makes each part correct: a task is executed by one consumer at a time, is
retried within its budget, and no accepted request is forgotten, as long as its
executions are in time (queues); the
breaker's fields agree and it always probes again (breaker); a changed file
reaches its item and never loses to an older one (refresh); the last report
decides where to resume, and a playback is recorded once (playback); a scan
ends, and leaves items and files in agreement (ingest and scan); one run of a
task is at work at a time and the history says how it ended (tasks); a success
starts the next task once (task center); a stale online series is refreshed, a
fresh one is complete, and a row in execution is left alone (source refresh); an
update never leaves the machine without a server or with two, and never locks out
the next one (updater).

## 2. Modules

    ScrapeQueue ──► ScrapeWorker ──► MCScrapeWorker          JobLedger (abstract)
                         └────────► ScrapeWorkerProofs
    TmdbHealth ───► MCTmdbHealth,  TmdbHealthProofs
    RefreshQueue ─► SidecarRefresh ► MCSidecarRefresh, SidecarRefreshProofs
    ProgressBuffer ► Playback ─────► MCPlayback, PlaybackProofs
    Ingest ───────► LibraryScan ───► MCLibraryScan, LibraryScanProofs
    TaskRuns ─────► TaskCenter ────► MCTaskCenter, TaskCenterProofs
         └────────► MCTaskRuns
    Updater ──────► MCUpdater,  UpdaterProofs
    SourceQueue ──► SourceRefresh ─► MCSourceRefresh, SourceRefreshProofs

**ScrapeQueue** is the table: one operator per statement of
`db/queries/scrape_queue.sql`, with the ages the statements compare. **ScrapeWorker**
is the worker around it: `consume` step by step (claim, start, end, pause),
`SetWorkerCount`, `Run` with its reconcile, both tickers, callers,
administrators, the deletion of an item, and the faults: the answer of a claim
or of a state write is lost with or without its effect, and the process
crashes. Nothing makes a consumer finish before its rows turn stale: a claim is
`late` once it was held until then, or once somebody else has written its row,
and `disturbed` are the tasks that a late execution has written. No action
looks at either; the properties do. **JobLedger** is what such a queue promises
nevertheless: one owner per job; a worker that takes too long stops being the
owner but works on; only the owner ends a job, or one that is late with it; and
only a job without an owner is taken back.

**TmdbHealth** has one action per critical section of the breaker and one per
load, store or compare-and-swap of the client pointer, for consumers, the
watcher and the admin handler, over a configuration that appears, changes,
disappears or cannot be read. A consumer that lost the swap may be left with a
nil client; if its task uses it, the process panics and starts again (`Panic`).

**RefreshQueue** is the second table, **SidecarRefresh** everything from an edit
of a sidecar file over the watcher, the debounce timer, the flush and the table
to the execution that reads the file and writes the item. `lost` names the ways
in which the code gives a change up: nobody watched, the flush failed or died,
the row was running and its execution had read the file before, the options of
the row were replaced, the write was ignored or wrote something older.

**ProgressBuffer** is the buffer, keyed by item and media version, and its flush,
which writes what it took in any order, each entry to the row of its item and,
if it names a version, to the version's, by statements that fail one by one.
**Playback** is the three handlers, each a process that goes from one critical
section to the next, with the ticker, mark-played, failures and crashes.
`latest` says what last decided the position of a row: a stop, a mark, or
reports, of which there are several once a flush has taken them together.
`excused` names the ways in which an activity row is given up, `switched` the
playbacks that a report about another item or version recorded.

**Ingest** is Submit, the rename buffer, the channel and the consumers;
**LibraryScan** adds the files, the watcher's translation of their changes and
the scans: the status check, the walk path by path, the submissions, both
barriers, the query for prune candidates, and mounts that come and go.

**TaskRuns** is one call of Start after another: the adapter's gate, the task's
check and start, the row, the current run, the tracker; with the goroutine that
works, stops or fails, Stop, errors of the database and the restart. `outcome`
records how a run really ended and `why` what came between the call and its row:
a race of two starts (`raced`), a run started beside one that a race left
(`joined`), an end that stamped the next run's status (`stamped`), a status
written over a followed one (`overlaid`), a stop that was reset (`early`), a row
that could not be written (`unwritten`), a run that was over before its tracker
looked (`quick`), a current run that was replaced (`displaced`). **TaskCenter**
adds the scans' statuses, the broadcaster, the channel and the chain engine,
whose calls of Start are those of TaskRuns.

**Updater** has one action per critical section, Docker call or file operation
of the requests, of the helper container, of a server that starts, and of the
tracker, for a deployment in Docker and one as a binary. `stray` names the ways
in which the code leaves a status behind, lets two updates meet or misses an
end; each property says which of them it depends on.

**SourceQueue** is the third table, with a single consumer. **SourceRefresh** is
that consumer (`drain`, `process`, the catalog fetch category by category, the
maintenance of the same goroutine), the scheduler's sweep with the request it
makes for each series it has listed, the loader whose one load per item serves
the worker, clients and administrators, `IngestDetail` (the row first, then the
play sources one by one, then `detail_refreshed_at`), and the pages of searches
and catalogs, which look at an item and write it afterwards. A provider is
switched off and on, drops series, fails and times out; the process crashes.

The module's names are the code's wherever TLA+ allows it; `map` in
`PROJECT.json` gives the lines of each definition.

### Abstractions

* A database statement is one atomic step, and a lock's critical section is
  another. Statements of one transaction are one step.
* Scrape queue: time is relative (the age of a row, the ticks until it is due),
  in units that keep the order of the timeouts; rows due at the same moment are
  claimed in any order; a batch is a set, since RETURNING has no order.
* Goroutines are slots that are on or off.
* TmdbHealth: an abandoned batch is a shorter one; `circuitLevel` is kept as the
  cooldown it leads to.
* SidecarRefresh: priorities and the exact time are open (any due rows may be
  claimed); a row turns stale only when nobody holds it, as executions are short;
  the stop channel and the consumer that notices it are one step; a file's
  content is a version number; pending events are a set.
* Playback: one user; versions belong to every item; what sessions show is left
  out, since no guard or property reads it; the n-th request reports the
  position n; times are three flags (long, watched, quiet); a handler spends less
  than five seconds between two of its critical sections.
* TaskRuns: the items of a run, their progress and the rows of a backfill's
  stages are left out; reading a snapshot is one step. A call of Start is used
  once, with its goroutine, row and tracker.
* TaskCenter: scans have no rows; a tick of the broadcaster looks at all kinds in
  one step; the channel holds two snapshots instead of 64. The changes of an
  item counter, which also send snapshots, are left out.
* Updater: a version is a number; a download, an unpacking or a call of Docker is
  one step that succeeds or fails, a copy that breaks off leaves a truncated file;
  the supervisor always restarts a process that dies.
* SourceRefresh: one provider; a category is a page of one item; a detail has a
  first and a last play source; an item keeps its type, which a page could
  rewrite. Order is all that is kept of `detail_refreshed_at`, and whether it is
  within the TTL. Priorities, ages and backoffs are open. The look at the
  provider's switch and the request it permits are one step, the counter of
  failures that also turns the switch is `SetProviderEnabled`, and the switches of the
  scheduler are on. `MaxOutside` bounds requests and failures.
* LibraryScan: a path is the video file of one film, flat or in a directory of
  its own; a file's identity and its item's metadata do not show; a timer of the
  rename buffer that has fired already when it is stopped is left out. The number
  of file changes, scan requests, mounts and crashes is bounded by `MaxOutside`.

## 3. Runs

Twelve runs, two of which are violated by the code; the mutants of
`PROJECT.json` show that each property of a passing run is violated by a
plausible slip in the code.

| run | asks | bounds |
|---|---|---|
| `scrape_worker` | types; of those who hold a task all but one are late; retry budget; accepted requests stay; results stay; the worker implements JobLedger; every queued task ends | one remote task, two consumers, batches of one, two retries, one priority; executions of any length |
| `tmdb_health` | types; the breaker's fields agree; claims are allowed again and again while the configuration can be read | two consumers, watcher and admin, threshold two, two cooldown lengths, batches of one; the process may die of a nil client |
| `tmdb_health_recover` | the same after a spell without configuration: violated | one consumer |
| `sidecar` | types; every change accounted for; no older version of a film's files shown | NFO and image of a film, two consumers, batches of two |
| `sidecar_live` | every change is in the end shown, failed or lost in a named way | a series, its subtree and files, one consumer, two retries |
| `playback` | types; the last report is kept, by every row; activity is recorded | one device, one item with two versions, which clients name, three requests, two at a time |
| `library_scan` | types; exact counters; no path stays marked; a scan repairs the table; a file that stays keeps its item; every scan ends | two films of one file name, an empty remote library, two scans, two consumers, a channel of one, two outside events, any initial disagreement of files and items |
| `task_runs` | types; one run of a task at work; rows end truly; a running row is followed | three calls of Start of one task, either of the two, which share nothing; four outside events out of starts by hand, hooks, stops, errors and restarts |
| `task_center` | types; the engine knows what was not dropped; the next task is started once per success | two calls, two libraries, a channel of one, two outside events out of scans, switches and restarts |
| `updater` | types; an active status has an owner; one server runs, and no failure leaves the machine without one; completed is true; backups are what they say; a running row is followed | two requests of any kind in both deployments, two versions, one crash, failures at every step |
| `source_refresh` | types; a task in execution is left alone; a fresh detail is complete; a stale series is refreshed in the end | a series the provider has and one it has dropped, in either order; batches of two; two retries, two categories; two outside events out of requests, failures of any step, switches and crashes; any initial disagreement of items and play sources |
| `updater_apply` | an update is refused for a reason: violated | one request |

The bounds are the smallest in which the cases of interest happen: two
consumers for every race on a row, a row that ages past the stale limit while
held and is taken by the other consumer, batches of two of the refresh queue for
the rest of a batch that is abandoned, two versions of an item so that a flush
finds two entries for one row, a channel of one
so that it overflows, two films of one name so that deletions collide, two
requests in flight so that a stop meets a report, three calls of Start so that
one meets the remains of two others, an engine's channel of one so that a
snapshot is dropped while another is on its way, two updates so that they meet,
a dropped series whose row fails for good beside one that must not wait for it.
Rows of the scrape queue meet only in a batch: `MCScrapeWorkerBatch.cfg`, with two
tasks in batches of two, passes as well, and the theorems hold for any number of
tasks and any batch. `MCPlaybackUnnamed.cfg`, where clients also leave the version
out, passes too. Both take longer than a run of the list should. That snapshots wait in a
longer channel is left to the theorems of TaskCenterProofs, which hold for any
capacity; with two the same run passes with twice the states. `library_scan`
runs from every
combination of files and items, which stands for the histories that a larger
bound on outside events would reach.

`updater` tells states apart by what is read again (`Seen` in `MCUpdater`).

Deadlock is not checked where a model may stop because its bounds are used up
(library scan, tasks, task center, updater).

### What the violated runs show

* **tmdb_health_recover.** A failure that arrives after a configuration error
  sets the state to degraded with claims off; neither watcher nor probe leaves
  that state, and the admin page calls the workers available.
* **updater_apply.** The button "update at once" first writes `backing_up` to
  the state file (`handlers/system/system.go:802`), which the guard of
  `StartApply` reads as an update that runs: the request is always refused, and
  marked as failed.

### Divergences without a run

Nine more properties fail by what the code does. They are kept in the modules
with the configuration that shows it, to be tried again when the code changes:

* `MCScrapeWorkerStale.cfg`, `StaleRowsAreOrphans`. A batch of up to eight is
  stamped once, at claim time, and worked off one by one. A slow batch turns
  stale in the hands of its consumer and its rows are executed twice, against
  the comment at `scrape_queue.go:310`. The passing run has these executions in
  it, and says of everything else that it holds but for what they write.
* `MCScrapeWorkerFailed.cfg`, `FailedNotReopened`. The comment at
  `scrape_queue.go:61-63` says that a task which is queued, be it pending, running
  or failed, is not enqueued again; the statement opens a failed one again
  (`db/queries/scrape_queue.sql:6`). `AcceptedRequestKept` speaks of what the
  statement does: a request for a failed row is accepted and kept like any other.
* `MCTmdbHealthClient.cfg`, `CallHasClient`. The pointer loaded after a lost
  compare-and-swap may have been cleared in between (`scrape_worker.go:477`); the
  caller, which was to use the winner's client (`scrape_worker.go:476`), goes on
  with nil and no error. A task that uses it ends the process
  (`tmdb_scrape.go:243`; no consumer recovers), in the passing run as well.
* `MCPlaybackVersions.cfg`, `OneReportAtATime`. Reports about two versions of an
  item within three seconds are two entries of one flush, which walks a Go map
  (`progress_buffer.go:61`) and writes both to the row of the item (74-77): the
  earlier report can land last. `LastReportKept` says what is left: the item keeps
  one of the reports taken together, a version keeps its last.
* `MCSidecarRefreshSubtree.cfg`, `SubtreeTakesEffect`. The batch statement of
  `db/queries/refresh_queue.sql:19` names seven columns and selects six values;
  the subtree refresh of a series with children always fails.
* `MCPlaybackFinished.cfg`, `FinishedLeavesResume`. A flush that took a report
  before the stop writes it after the stop has cleared the position, against
  `handlers/playback/playback.go:619`.
* `MCLibraryScanMount.cfg`, `FilesSpared`. A root counts as trusted because
  os.Stat succeeds (`scanner.go:110`); the walk takes an unreadable or empty
  mount point for an empty library, against `scanner_cleanup.go:22`.
* `MCSourceRefreshBatch.cfg`, `SeriesFollowed`. A series that the provider has
  dropped keeps its `detail_refreshed_at` and stays first in the sweep's order
  (`repository/source_refresh_repository.go:130`); as many of them as the
  sweep's limit (200 in the code, `refresh_scheduler.go:18`, one in the configuration) keep every other
  series from being refreshed. The passing run has a limit above their number.
* `MCSourceRefreshMovie.cfg`, `LoadedIsComplete`. `ingest.go:53` writes
  `detail_loaded` before the play sources; a film whose load broke off in between
  counts as loaded for ever, against the comment at `detail_loader.go:59`. A
  series heals at its next refresh.

Others show in the models as named exceptions of a property:

* `scrape_queue.sql:51`: Done and Fail name the row by id alone, so that a late
  execution writes over what its successor has written. Each property of the
  scrape worker names this case (`disturbed`, `LateEnd`).
* `ingest_rename.go:44`: two deletions of one file name within half a second
  leave the first item in the table until the next scan. `ScanAgrees` allows
  exactly this exception.
* `ingest_rename.go:80`: a file deleted and made again within half a second
  may be created before it is deleted.
* `ingest_rename.go:76`: a deletion and a creation of one name in two libraries
  become a rename, and the item keeps the old library.
* A library with more entries than the channel holds may lose the same tail of
  them at every scan.
* `playback.go:296`: two simultaneous starts both pass the stream limit, and a
  progress report enters a playback without a check; `playback.go:522`: a report
  that overtakes its stop brings the playback back until a ticker ends it.
* A refresh of a series shares its files with the rows of their own scopes. An
  execution of such a row that has read the file before can write after the
  series' refresh has written something newer and is over, and the item goes back:
  `ShownNeverGoesBack` speaks of items without subtree refreshes.
* Tasks, `quick`: a run without items, or over before the tracker's first tick,
  is never seen running. Its tracker waits for ever, its row says running until
  the next restart, and Start answers with its id from then on, though
  `task.go:86` means a run in progress: the chain does not start the task again.
* Tasks, `raced`: two starts that meet between the probe's check and its start
  (`probe_task.go:61-74`) run two workers, and the later resets the stop flag of
  the earlier.
* Tasks, `stamped`: a backfill whose stage failed has given up its status before
  its goroutine ends; the deferred end marks a run started meanwhile completed.
* Tasks, `early`: `stopRequested` is reset outside the lock after the row exists
  (`adapters/probe.go:104`), and a stopped run is recorded as succeeded.
* Tasks, `displaced`: the tracker of a backfill closes the adapter's current row,
  not the one it was started for.
* Task center: `registry.go:90` says a later snapshot makes up for one that is
  dropped; the last snapshot of a run has no later one, and its chain is not
  started. A scan that fails beside the entry of one that completed starts the
  chain.
* Source refresh, `ingest.go:121`: a page that looked at an item before its
  detail came takes `detail_loaded` back; the series leaves the sweep until a
  client loads it again. `SeriesFollowed` allows it.
* Updater, `exec`: after a restart that failed, the process runs an old version
  over a new file; a second update keeps the new file as the old version's backup,
  and a rollback then installs it.
* Updater, `late`, `back`: the server's last section overwrites what the helper
  has written, and a rollback's helper writes "restarting" after the new server
  has finalized; either leaves the status active for good. `gate`, `killed`: so do
  a refused request that had marked the status, and a request killed by the exec
  of another.
* Updater, `overlap`: two requests can pass the look at the status before either
  writes it, and two servers run.
* Updater: `mapLegacyStatus` does not know "rolling_back", so that a rollback of
  a binary is idle to the task center; a server that starts before the helper's
  last word leaves its row running (`early`).

### Fairness

Weak fairness is assumed of what the program itself keeps running: goroutines
that are on, timers and tickers, the reload of the watcher, the flush, and the
restart of the process by its supervisor. Nothing is assumed of clients,
administrators, files or the configuration. The claim of a scrape consumer is
strongly fair for remote tasks, because the breaker allows them again and again
(`ClaimsResume`) without allowing them for ever. `QueueDrains` and `ChangeShown`
speak of behaviours in which callers and faults eventually stop (`Calm`): a queue
fed for ever need not drain. `ScanEnds` needs no calm, since a scan waits for
its own events only. `ClaimsResume` speaks of
behaviours in which the configuration stays readable, `SeriesFollowed` of those in
which the source worker gets through its queue again and again; the reset of
rows it lost is strongly fair, as Go's select picks at random among tickers that
are ready and the maintenance ticker is ready each time.

## 4. Proofs

TLAPS proves the following for every value of the constants that satisfies the
assumptions the modules name (limits are positive, the absent values are not
members of the sets they stand beside).

* **ScrapeWorkerProofs.** Every behaviour, slow executions included: `TypeCorrect`,
  `InvariantHolds`, and from it `Exclusive`, `RetriesBounded` and `RequestsKept`.
  The three properties are not inductive: a claim could be held on a row that
  has moved on. `IInv` adds what ties claim and row together: every claim that is
  not late has a row that is running, with the retry count that was read, and
  younger than the stale limit (`ClaimsCurrent`); it has one holder (`SoleHolder`);
  nobody has a task twice, and the current one has left the batch (`OneEach`);
  control points and claims agree (`ControlOK`); an execution in time is not also
  an accepted request (`ExecutingNotAsked`). That claims are late once their rows
  turn stale is not assumed of the code but how `late` is defined: the passing of
  time may always happen, and what the reconcile then takes back is held only by
  late claims. Nothing that a late execution writes may break what is said of the
  rest, and this is most of the proof: its end makes whoever has the row by then
  late, too. Claims on deleted rows are dead and keep nothing.

  `LedgerImplemented` is the refinement: with who owns a task, and who is late
  with it, read off batches and hands, every step of queue and worker is one of
  JobLedger's (submit, take, expire, finish, lose, recover, forget), several of
  them at once, or none. `SoleHolder` makes the owner well defined; a row that is
  taken back has none. `ResultsKept` (`ResultsStay`) is a property of steps, and
  rests on `RowMoves`, which says for each row how a step may move it and on whose
  account: a finished row is moved by a request, by its deletion, or by the end
  of a late execution, and by nothing else.
* **TmdbHealthProofs.** `HealthTyped`, `BreakerAlwaysAgrees`, `ProbeAlwaysSingle`
  (`ProbeIsSingle`: one failure reopens a probing circuit; no run repeats it)
  from `HealthInv`, which adds that a probing breaker has one failure less than it
  takes and that the next cooldown is at least the doubled first one.
* **PlaybackProofs.** `TypeCorrect` and `LastReport`, for any items and versions:
  `LastReportKept` is an invariant of its own once types are known. What is due to
  a row moves from the buffer to `taken` to the table without passing a newer
  report; while a flush is at work, every entry it has left for the row is one of
  the reports taken together, and so is what the last of them leaves there.
  `ActivityRecorded` (`ActivityKept`) needs `RowInv`: where a request between two
  of its critical sections can be and what it then holds (`Places`), that a row
  is written before the map forgets its playback only by who will forget it
  (`EarlyRows`), and that a playback is replaced only by a report about another
  item or version, which has recorded it (`Replaced`).
* **SidecarRefreshProofs.** `SidecarTypes`, `ChangesAccounted`,
  `ExecutionsExclusive` and `NeverGoesBack` (`ShownNeverGoesBack`), for any items,
  consumers and batches. `ChangeAccounted` is not inductive: a failed row with
  other options would be retried to no avail, and an execution that has read what
  is on disk might not write it. `Accounted` says which row stands for a change:
  one with the local option, and if it is held, by an execution that will read, or
  has read, what is on disk (`Standing`, `Served`). For this a claim has one
  holder and its row is running (`Exclusive`), a plan has one step on its own file
  (`Plans`), what is read is not newer than the file (`Reads`), what is shown
  neither (`Behind`). The bound on flushes in `TypeOK` holds because each stands
  for one change (`Arrivals`); the one on retries because a row that is to be
  worked on has one left (`RetriesLeft`). `Ahead`, that an execution of a file's
  own row has read what is shown or later, gives `ShownNeverGoesBack`; the proof
  attempt showed that it fails beside subtree refreshes (see section 3).
* **UpdaterProofs.** All six invariants of the run, `UpdaterTypes`,
  `ActiveIsOwned`, `OneServerRuns`, `CompletedIsTrue`, `BackupsAreTrue` and
  `RowsAreFollowed`, for any number of requests, versions and faults, from
  `UInv`: where a request, its helper and its container are goes together
  (`Ways`, `Births`), versions are published ones (`Versions`), a request past the
  second look is alone unless two overlapped (`Alone`), what a status that is
  active waits for (`Owned`), which containers run while a helper is where
  (`OneAtATime`), what the executable and the file say of each other
  (`FileRuns`, `OneFileEach`), that a status which will be read as completed has a
  target that runs (`Truth`), and that a row which says running is waited for
  (`RowsAwaited`). The effect of each step on status, requests, helpers, servers
  and files is a lemma; the parts follow from these.
* **TaskCenterProofs.** The tasks, for any number of calls of Start: `TasksTyped`,
  `WorkersAlone`, `RowsFollowed`, `RowsTrue`. `OneWorker` speaks of goroutines
  only; `WorkerInv` adds the calls that are past the check and will have one
  (`Alone`), and that the status of a task with a goroutine shows it.
  `RunFollowed` needs what happens before a tracker exists: a row is opened only
  behind a run that is at work or was quick (`Backed`), and a backfill that is
  followed keeps the adapter's place (`Held`). `EndsTrue` compares a row with an
  outcome that the tracker never sees; `EndInv` follows the run through what it
  does see: nobody else is past the check (`Fresh`) or at work (`Sole`), so the
  status the task shows is this run's (`Tells`), and what is written is final
  (`Written`). Each part holds of a call only while none of the named cases came
  near it, which is why those cases are part of the state.

  The chain, for any channel and any libraries: `ChainTyped`, `EngineKnows`
  (`EngineCatchesUp`) and `ChainPays` (`ChainEarned`), from `ChainInv`. Neither is
  inductive, as what the engine will know and start is still in the channel.
  `AllKnown` says of every kind that was not dropped that its last snapshot in
  the channel, or with none there the engine's word, is the one that was sent.
  `AllCovered` says that the successes the engine will meet in the channel, and
  after it in the present status, are earned. How many those are is a count over
  a sequence, which the provers cannot unfold; it is stated instead by a course
  of statuses along the channel and a count that grows at its successes
  (`Course`, `Counts`), which each step extends or shortens by one.
* **LibraryScanProofs.** All invariants and the step property of the run:
  `TypeCorrect`, `MarksExact`, `InflightTrue` (`InflightExact`), `ScansAgree`
  (`ScanAgrees`) and `FilesKeepItems` (`ResidentsKept`). A mark is
  exact because two consumers never wait for one file (`MarksInv`). A counter is
  exact because every event enters and leaves the channel and a hand with it;
  `CountInv` adds that the consumers at work on a library, of however many, are
  finitely many, without which their number means nothing. `ScanAgrees` speaks
  of the end of a scan only; `AgreeInv` follows the scan there: while nothing
  but one scan is at work, what is on its way is its own (`Own`), and the stage it
  has come to, with those events, says what every item is (`Orderly`, from
  `Walked` over `Entering` and `Listing` to `Pruned`). A deletion that took another
  one's place in the rename buffer is part of it from there on (`Leaving`). That a file
  which is always there keeps its item rests on every place an event can be
  (`ResidentsInv`): watcher queue, rename buffer, channel and hands hold no
  deletion or renaming of such a file, and a scan that walks still has it to
  visit or has seen it (`Knows`), so that what it prunes once had no file.
* **SourceRefreshProofs.** `TypesHold`, `ExecutionUndisturbed`, `FreshComplete`,
  from two invariants that do not need each other. `WorkerInv` adds to
  `HeldUndisturbed` that a batch exists only while the goroutine drains it, so
  that neither its claim nor its maintenance meets a task in execution. `LoadInv`
  adds to `FreshIsComplete` that a load which has come to its last statement has
  written all play sources; nothing removes one.

Two properties were restated because they could not be proved, being false
beyond the bounds of their runs: `ShownNeverGoesBack`, above, and
`CompletedTrue`, whose former text asked for some server that runs the target.
With two faults, a server completes the update and is then stopped by a helper
that dies, and none runs. It now says of every server there is that it runs the
target.

The theorems assume `NothingAssumption` where a module names a value for the
absence of something (no playback, no claim, no version): it is not one of the
values it stands beside.

Every invariant and every step property that a passing run checks is stated by
a theorem. Model-checked only is what is temporal beyond a step: `QueueDrains`,
`ClaimsResume`, `ChangeShown`, `ScanEnds`, `SeriesFollowed`. Liveness under
fairness, ENABLED and induction over recursive data are out of the prover's reach.

## 5. Not modelled

The components with status `not_modelled` in `PROJECT.json`, each with its
reason: most of the rest of the program is request translation, generated
statements, network I/O and rendering, whose errors a test finds more cheaply
than a model. They are also most of its lines, so that the modelled share of the
whole stays small however much of the concurrent core is covered. One part has
control worth modelling that is close to what is there: the rate limiter keeps a
window under one lock.

Within the modelled parts: what a scrape or refresh writes to an item,
directory events and TV or mixed libraries, the webhook, resizing of the ingest
worker, jobs after a scan, what sessions show as playing, the garbage collection
of expired source items, play counts and favourites, the probing and caching of online
streams, federated search, library
refreshes of the refresh queue, the stages and items of tasks, the cleanup
adapter, and the updater's downloads.

## 6. Plan

1. LibraryScan: directories and TV libraries as a second kind of entry; two
   local libraries (renames across them); the webhook; resizing; Start and Stop
   of the watcher.
2. Task center: the stages of a backfill with their rows, scans with rows, the
   cleanup adapter.
3. The rate limiter; the failure counter that switches a provider off, and the
   federated search that feeds it.
4. Proofs: that SidecarRefresh implements an abstract queue, as ScrapeWorker
   does the ledger; for the liveness properties, the step lemmas they rest on (a
   scan's barrier is reached by fewer events each time).

The set of runs stays one that a change to the code can be checked against in
minutes.
