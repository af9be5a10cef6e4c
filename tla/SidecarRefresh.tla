--------------------------- MODULE SidecarRefresh ---------------------------
(***************************************************************************)
(* From a changed sidecar file (an NFO or an image next to a media file)   *)
(* to the item that shows it: the watcher's events, the debouncing         *)
(* RefreshScheduler, refresh_queue, and the consumers of RefreshWorker,    *)
(* with the administrator's requests and the crash of the process.         *)
(*                                                                         *)
(* A sidecar file is named by the row that refreshes it: <<item, scope>>   *)
(* with scope metadata or images.  Its content is a version number.  An    *)
(* execution reads the file and writes the item in two steps.              *)
(***************************************************************************)
EXTENDS RefreshQueue, Sequences

CONSTANTS
    Item,
    DirOf,       \* the directory of an item's sidecar files
    Children,    \* the seasons and episodes of an item
    Consumer,    \* goroutine slots
    NoClaim,     \* the value of current when no task is being executed
    NoVersion,   \* the value of seen when nothing has been read
    ClaimBatch,  \* refreshClaimBatch
    WorkerMax,   \* refreshWorkerMax
    Asked,       \* the keys the administrator asks for
    MaxEdits     \* bound: changes of one sidecar file

Facet == {"metadata", "images"}

File == {k \in Key : k[2] \in Facet}

ASSUME SidecarAssumption ==
    /\ Key \subseteq Item \X (Facet \cup {"subtree"})
    /\ \A k \in Key : k[2] = "subtree" => {k[1]} \X Facet \subseteq Key
    /\ Asked \subseteq Key
    /\ MaxEdits \in Nat
    /\ ClaimBatch \in Nat \ {0}
    /\ WorkerMax \in Nat \ {0}

Dir == {DirOf[i] : i \in Item}

Claims == [key : Key, option : Option, retry : 0..MaxRetry]

ASSUME NothingAssumption == NoClaim \notin Claims /\ NoVersion \notin Nat

VARIABLES
    disk,     \* the version of each file on disk
    shown,    \* the version its item shows
    events,   \* files with an undelivered fsnotify event
    entry,    \* RefreshScheduler.pending: the paths collected per directory
    flight,   \* enqueues that flushes in progress still have to make
    up,       \* the process runs
    pc,       \* where a consumer is
    batch,    \* the claims it still has to process
    current,  \* the claim it is executing
    todo,     \* the steps that execution has left
    seen,     \* the version it has read and not yet written
    lost      \* files whose change was lost, in one of the ways named below

scheduler == <<events, entry, flight>>
worker == <<pc, batch, current, todo, seen>>
vars == <<row, disk, shown, scheduler, up, worker, lost>>

On == {c \in Consumer : pc[c] # "off"}

Executing(k) ==
    {c \in Consumer : current[c] # NoClaim /\ current[c].key = k}

Holds(c, k) ==
    \/ c \in Executing(k)
    \/ \E m \in batch[c] : m.key = k

Held(k) == \E c \in Consumer : Holds(c, k)

\* An execution of f that will still read the file, or will be repeated.
WillRead(f) ==
    \/ \E c \in Consumer : \E m \in batch[c] :
          m.key = f /\ m.option = "local"
    \/ \E c \in Executing(f) :
          \/ pc[c] = "failing"
          \/ /\ current[c].option = "local"
             /\ todo[c] # <<>>
             /\ seen[c] = NoVersion

Lose(S) == lost' = lost \cup {f \in S : shown[f] # disk[f]}

-----------------------------------------------------------------------------
Init ==
    /\ row = [k \in Key |-> Absent]
    /\ disk = [f \in File |-> 0]
    /\ shown = [f \in File |-> 0]
    /\ events = {}
    /\ entry = [d \in Dir |-> {}]
    /\ flight = [f \in File |-> 0]
    /\ up = FALSE
    /\ pc = [c \in Consumer |-> "off"]
    /\ batch = [c \in Consumer |-> {}]
    /\ current = [c \in Consumer |-> NoClaim]
    /\ todo = [c \in Consumer |-> <<>>]
    /\ seen = [c \in Consumer |-> NoVersion]
    /\ lost = {}

-----------------------------------------------------------------------------
(* The file system, the watcher and the scheduler.                         *)

\* Nobody watches while the process is down.
Edit(f) ==
    /\ disk[f] < MaxEdits
    /\ disk' = [disk EXCEPT ![f] = @ + 1]
    /\ IF up THEN events' = events \cup {f} /\ UNCHANGED lost
             ELSE lost' = lost \cup {f} /\ UNCHANGED events
    /\ UNCHANGED <<row, shown, entry, flight, up, worker>>

\* Mutant: a directory that has an entry already keeps it as it is.
OnSidecarChange_KeepsEntry(f) ==
    /\ up
    /\ f \in events
    /\ events' = events \ {f}
    /\ entry' = [entry EXCEPT ![DirOf[f[1]]] = IF @ = {} THEN {f} ELSE @]
    /\ UNCHANGED <<row, disk, shown, flight, up, worker, lost>>

\* The path joins its directory's entry, whose timer is started anew.
OnSidecarChange(f) ==
    /\ up
    /\ f \in events
    /\ events' = events \ {f}
    /\ entry' = [entry EXCEPT ![DirOf[f[1]]] = @ \cup {f}]
    /\ UNCHANGED <<row, disk, shown, flight, up, worker, lost>>

\* The timer fires: flush takes the entry out of the map under the lock.
FlushTake(d) ==
    /\ entry[d] # {}
    /\ entry' = [entry EXCEPT ![d] = {}]
    /\ flight' = [f \in File |-> flight[f] + IF f \in entry[d] THEN 1 ELSE 0]
    /\ UNCHANGED <<row, disk, shown, events, up, worker, lost>>

\* flush enqueues one of its targets.  A row that is running absorbs the
\* request; the change is lost when that execution has read the file before.
FlushEnqueue(f) ==
    /\ flight[f] > 0
    /\ flight' = [flight EXCEPT ![f] = @ - 1]
    /\ Enqueue(f, "local")
    /\ IF row[f].status = "running" /\ Held(f) /\ ~WillRead(f)
         THEN Lose({f}) ELSE UNCHANGED lost
    /\ UNCHANGED <<disk, shown, events, entry, up, worker>>

\* The target could not be resolved or enqueued: it is logged, or not even
\* that, and forgotten.
FlushDrop(f) ==
    /\ flight[f] > 0
    /\ flight' = [flight EXCEPT ![f] = @ - 1]
    /\ Lose({f})
    /\ UNCHANGED <<row, disk, shown, events, entry, up, worker>>

-----------------------------------------------------------------------------
(* The administrator.                                                      *)

\* refreshItem: the new options replace those of an active row, the local
\* refresh of a changed file included.
RefreshItem(k, o) ==
    /\ up
    /\ k \in Asked
    /\ Enqueue(k, o)
    /\ IF /\ k \in File
          /\ o # "local"
          /\ row[k].status \in {"pending", "running", "failed"}
         THEN Lose({k}) ELSE UNCHANGED lost
    /\ UNCHANGED <<disk, shown, scheduler, up, worker>>

AdminRetry(S) ==
    /\ up
    /\ Retry(S)
    /\ UNCHANGED <<disk, shown, scheduler, up, worker, lost>>

-----------------------------------------------------------------------------
(* Tickers, time, starting and stopping.                                   *)

PruneTicker(k) ==
    /\ up
    /\ PruneDone({k})
    /\ UNCHANGED <<disk, shown, scheduler, up, worker, lost>>

\* Mutant: the stale ticker is never started.
StaleTicker_Never(k) == FALSE /\ UNCHANGED vars

\* A row that has been running for ten minutes.
StaleTicker(k) ==
    /\ up
    /\ row[k].status = "running"
    /\ Reset({k})
    /\ UNCHANGED <<disk, shown, scheduler, up, worker, lost>>

TimePasses(k) ==
    /\ BackoffEnds(k)
    /\ UNCHANGED <<disk, shown, scheduler, up, worker, lost>>

\* Run, with n consumers; it goes on when the startup reconcile fails.
Run(n) ==
    /\ ~up
    /\ up' = TRUE
    /\ ReconcileOnStartup \/ UNCHANGED row
    /\ \E S \in SUBSET Consumer :
          /\ Cardinality(S) = Lesser(n, WorkerMax)
          /\ pc' = [c \in Consumer |-> IF c \in S THEN "poll" ELSE "off"]
    /\ UNCHANGED <<disk, shown, scheduler, batch, current, todo, seen, lost>>

\* Everything in memory is gone, the changes on their way to the table too.
Crash ==
    /\ up
    /\ up' = FALSE
    /\ events' = {}
    /\ entry' = [d \in Dir |-> {}]
    /\ flight' = [f \in File |-> 0]
    /\ pc' = [c \in Consumer |-> "off"]
    /\ batch' = [c \in Consumer |-> {}]
    /\ current' = [c \in Consumer |-> NoClaim]
    /\ todo' = [c \in Consumer |-> <<>>]
    /\ seen' = [c \in Consumer |-> NoVersion]
    /\ Lose(events \cup {f \in File : flight[f] > 0}
                    \cup UNION {entry[d] : d \in Dir})
    /\ UNCHANGED <<row, disk, shown>>

\* SetWorkerCount adds a consumer.
Spawn(c) ==
    /\ up
    /\ pc[c] = "off"
    /\ Cardinality(On) < WorkerMax
    /\ pc' = [pc EXCEPT ![c] = "poll"]
    /\ UNCHANGED <<row, disk, shown, scheduler, up, batch, current, todo,
                   seen, lost>>

\* SetWorkerCount closes a stop channel, never the last one, and consume
\* sees it: before a claim, asleep, or between two tasks, when the rest of
\* its batch stays running, held by nobody.
Quit(c) ==
    /\ pc[c] \in {"poll", "sleep", "batch"}
    /\ On # {c}
    /\ pc' = [pc EXCEPT ![c] = "off"]
    /\ batch' = [batch EXCEPT ![c] = {}]
    /\ UNCHANGED <<row, disk, shown, scheduler, up, current, todo, seen, lost>>

-----------------------------------------------------------------------------
(* consume.                                                                *)

ClaimsOn(S) ==
    {[key |-> k, option |-> row[k].option, retry |-> row[k].retry] : k \in S}

ClaimTasks(c) ==
    /\ pc[c] = "poll"
    /\ \E S \in SUBSET Due :
          /\ ClaimAnswer(S, ClaimBatch)
          /\ Claim(S)
          /\ batch' = [batch EXCEPT ![c] = ClaimsOn(S)]
          /\ pc' = [pc EXCEPT ![c] = IF S = {} THEN "sleep" ELSE "batch"]
    /\ UNCHANGED <<disk, shown, scheduler, up, current, todo, seen, lost>>

\* Claim returns an error, after or without having taken effect.
ClaimError(c) ==
    /\ pc[c] = "poll"
    /\ \/ \E S \in SUBSET Due : ClaimAnswer(S, ClaimBatch) /\ Claim(S)
       \/ UNCHANGED row
    /\ pc' = [pc EXCEPT ![c] = "sleep"]
    /\ UNCHANGED <<disk, shown, scheduler, up, batch, current, todo, seen,
                   lost>>

Wake(c) ==
    /\ pc[c] = "sleep"
    /\ pc' = [pc EXCEPT ![c] = "poll"]
    /\ UNCHANGED <<row, disk, shown, scheduler, up, batch, current, todo, seen,
                   lost>>

\* What dispatch does for a claim, in order.
Steps(m) ==
    IF m.key[2] = "subtree"
      THEN <<"metadata", "images", "children">>
             \o IF m.option = "remote" THEN <<"scrape">> ELSE <<>>
    ELSE IF m.key[2] = "metadata" /\ m.option = "remote"
      THEN <<"scrape">>
      ELSE <<m.key[2]>>

StartTask(c) ==
    /\ pc[c] = "batch"
    /\ \E m \in batch[c] :
          /\ batch' = [batch EXCEPT ![c] = @ \ {m}]
          /\ current' = [current EXCEPT ![c] = m]
          /\ todo' = [todo EXCEPT ![c] = Steps(m)]
    /\ pc' = [pc EXCEPT ![c] = "exec"]
    /\ UNCHANGED <<row, disk, shown, scheduler, up, seen, lost>>

-----------------------------------------------------------------------------
(* dispatch, step by step.                                                 *)

\* The file the next step of c is about.
Subject(c) == <<current[c].key[1], Head(todo[c])>>

AtStep(c, S) == pc[c] = "exec" /\ todo[c] # <<>> /\ Head(todo[c]) \in S

StepDone(c) ==
    /\ todo' = [todo EXCEPT ![c] = Tail(@)]
    /\ seen' = [seen EXCEPT ![c] = NoVersion]

ReadSidecar(c) ==
    /\ AtStep(c, Facet)
    /\ seen[c] = NoVersion
    /\ seen' = [seen EXCEPT ![c] = disk[Subject(c)]]
    /\ UNCHANGED <<row, disk, shown, scheduler, up, pc, batch, current, todo,
                   lost>>

\* The item takes over what was read; nothing is written to validate.  A
\* write of something older than what the item shows loses the change.
WriteItem(c) ==
    /\ AtStep(c, Facet)
    /\ seen[c] # NoVersion
    /\ LET f == Subject(c)
       IN  IF current[c].option = "validate"
             THEN UNCHANGED <<shown, lost>>
             ELSE /\ shown' = [shown EXCEPT ![f] = seen[c]]
                  /\ lost' = IF seen[c] = disk[f] THEN lost \ {f}
                             ELSE IF seen[c] < shown[f] THEN lost \cup {f}
                             ELSE lost
    /\ StepDone(c)
    /\ UNCHANGED <<row, disk, scheduler, up, pc, batch, current>>

\* Applying an NFO returns no error: the task goes on without its effect.
WriteIgnored(c) ==
    /\ AtStep(c, {"metadata"})
    /\ seen[c] # NoVersion
    /\ Lose({Subject(c)})
    /\ StepDone(c)
    /\ UNCHANGED <<row, disk, shown, scheduler, up, pc, batch, current>>

\* RefreshSeriesSubtree enqueues the children in batches.
EnqueueChildren(c) ==
    /\ AtStep(c, {"children"})
    /\ IF BatchAccepted(Children[current[c].key[1]])
         THEN StepDone(c) /\ UNCHANGED pc
         ELSE /\ pc' = [pc EXCEPT ![c] = "failing"]
              /\ UNCHANGED <<todo, seen>>
    /\ UNCHANGED <<row, disk, shown, scheduler, up, batch, current, lost>>

\* The remote part is handed to scrape_queue.
HandToScraper(c) ==
    /\ AtStep(c, {"scrape"})
    /\ StepDone(c)
    /\ UNCHANGED <<row, disk, shown, scheduler, up, pc, batch, current, lost>>

\* A query, a file or a write of the step returns an error.
StepError(c) ==
    /\ pc[c] = "exec"
    /\ todo[c] # <<>>
    /\ ~(Head(todo[c]) = "metadata" /\ seen[c] # NoVersion)
    /\ pc' = [pc EXCEPT ![c] = "failing"]
    /\ UNCHANGED <<row, disk, shown, scheduler, up, batch, current, todo, seen,
                   lost>>

-----------------------------------------------------------------------------
(* The end of runTask.                                                     *)

EndTask(c) ==
    /\ pc' = [pc EXCEPT ![c] = IF batch[c] = {} THEN "poll" ELSE "batch"]
    /\ current' = [current EXCEPT ![c] = NoClaim]
    /\ todo' = [todo EXCEPT ![c] = <<>>]
    /\ seen' = [seen EXCEPT ![c] = NoVersion]
    /\ UNCHANGED <<disk, shown, scheduler, up, batch, lost>>

Succeed(c) ==
    /\ pc[c] = "exec"
    /\ todo[c] = <<>>
    /\ Done(current[c].key)
    /\ EndTask(c)

GiveBack(c) ==
    /\ pc[c] = "failing"
    /\ Fail(current[c].key, current[c].retry)
    /\ EndTask(c)

\* The error of the state write is ignored; the row stays running.
EndUnrecorded(c) ==
    /\ \/ pc[c] = "failing"
       \/ pc[c] = "exec" /\ todo[c] = <<>>
    /\ EndTask(c)
    /\ UNCHANGED row

-----------------------------------------------------------------------------
Consume(c) ==
    \/ ClaimTasks(c) \/ Wake(c) \/ StartTask(c)
    \/ ReadSidecar(c) \/ WriteItem(c) \/ EnqueueChildren(c) \/ HandToScraper(c)
    \/ Succeed(c) \/ GiveBack(c)

Watch ==
    \/ \E f \in File : OnSidecarChange(f) \/ FlushEnqueue(f)
    \/ \E d \in Dir : FlushTake(d)

Restart == \E n \in 1..WorkerMax : Run(n)

\* Tasks are quick: none is held when its row turns stale.
System ==
    \/ \E c \in Consumer : Consume(c)
    \/ Watch
    \/ Restart
    \/ \E k \in Key :
          PruneTicker(k) \/ TimePasses(k) \/ (~Held(k) /\ StaleTicker(k))

Administrator ==
    \/ \E k \in Asked, o \in Option : RefreshItem(k, o)
    \/ \E k \in Key : AdminRetry({k})
    \/ AdminRetry(InStatus("failed"))
    \/ \E c \in Consumer : Spawn(c) \/ Quit(c)

Faults ==
    \/ \E f \in File : FlushDrop(f)
    \/ \E c \in Consumer :
          ClaimError(c) \/ WriteIgnored(c) \/ StepError(c) \/ EndUnrecorded(c)
    \/ Crash

Edits == \E f \in File : Edit(f)

Next == System \/ Edits \/ Administrator \/ Faults

Spec == Init /\ [][Next]_vars

\* Nothing goes wrong around the program.
FaultFreeNext == System \/ Edits \/ Administrator

-----------------------------------------------------------------------------
(* Properties.                                                             *)

\* The shape of the state, whatever happens around the program.
TypeOK ==
    /\ row \in [Key -> Row]
    /\ disk \in [File -> 0..MaxEdits]
    /\ shown \in [File -> 0..MaxEdits]
    /\ events \subseteq File
    /\ entry \in [Dir -> SUBSET File]
    /\ flight \in [File -> 0..MaxEdits]
    /\ up \in BOOLEAN
    /\ pc \in [Consumer -> {"off", "poll", "sleep", "batch", "exec", "failing"}]
    /\ batch \in [Consumer -> SUBSET Claims]
    /\ current \in [Consumer -> Claims \cup {NoClaim}]
    /\ todo \in [Consumer -> Seq(Facet \cup {"children", "scrape"})]
    /\ seen \in [Consumer -> 0..MaxEdits \cup {NoVersion}]
    /\ lost \subseteq File

\* A change is on its way through the watcher and the scheduler.
Announced(f) ==
    \/ f \in events
    \/ \E d \in Dir : f \in entry[d]
    \/ flight[f] > 0

\* A change is in the table: waiting, running and abandoned, or being
\* executed by someone who has not missed it.
Queued(f) ==
    \/ row[f].status = "pending" /\ row[f].option = "local"
    \/ row[f].status = "running" /\ ~Held(f) /\ row[f].option = "local"
    \/ WillRead(f)
    \/ \E c \in Executing(f) : seen[c] = disk[f]

\* A changed sidecar file that its item does not show yet is on its way, or
\* its refresh has failed for good, or it was lost in a way this module
\* names: no other interleaving of watcher, debounce timer, flush, claim,
\* retry, stale reconcile and restart loses one (OnSidecarChange, flush,
\* UpsertRefreshQueueTask, consume, runTask).
ChangeAccounted ==
    \A f \in File :
        shown[f] # disk[f] =>
            \/ Announced(f)
            \/ Queued(f)
            \/ row[f].status = "failed"
            \/ f \in lost

\* An item without subtree refreshes never goes back to an older version of a
\* sidecar: an execution of a file's own row is exclusive (Claim, runTask).  A
\* subtree refresh shares the files with the rows of the other scopes; an item
\* that has one can go back even after it is over, when an execution that has
\* read the file before writes at last.
ShownNeverGoesBack ==
    [][\A f \in File :
          shown'[f] < shown[f] => <<f[1], "subtree">> \in Key]_vars

-----------------------------------------------------------------------------
(* Progress: goroutines, timers and tickers run, the process is restarted, *)
(* and the file system, the administrator and the faults eventually leave  *)
(* the program alone.                                                      *)

Fairness ==
    /\ WF_vars(Restart)
    /\ \A f \in File :
          WF_vars(OnSidecarChange(f)) /\ WF_vars(FlushEnqueue(f))
    /\ \A d \in Dir : WF_vars(FlushTake(d))
    /\ \A k \in Key :
          WF_vars(TimePasses(k)) /\ WF_vars(~Held(k) /\ StaleTicker(k))
    /\ \A c \in Consumer : WF_vars(Consume(c))

FairSpec == Spec /\ Fairness

FairFaultFreeSpec == Init /\ [][FaultFreeNext]_vars /\ Fairness

Calm == <>[][System]_vars

\* Once things are calm, a change that was not lost reaches its item, or
\* its refresh fails for good.
ChangeShown ==
    Calm => \A f \in File :
               (shown[f] # disk[f]
                  ~> shown[f] = disk[f] \/ f \in lost \/ row[f].status = "failed")

\* A queued refresh of a series takes effect (refreshItem answers that it
\* will, RefreshSeriesSubtree).
SubtreeTakesEffect ==
    Calm => \A k \in Asked :
               (k[2] = "subtree" /\ row[k].status = "pending")
                  ~> row[k].status \in {"done", "absent"}
=============================================================================
