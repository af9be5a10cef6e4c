------------------------------ MODULE TaskRuns ------------------------------
(***************************************************************************)
(* The startable tasks of the task center, services/probe_task.go and      *)
(* services/backfill_task.go, behind their adapters: one call of Start, the *)
(* goroutine it leaves at work, the row of task_runs it opens and the      *)
(* tracker that has to close it.                                           *)
(*                                                                         *)
(* One step is one critical section, one statement or one tick.  A call of *)
(* Start, its goroutine, its row and its tracker share the call's name; a  *)
(* call is used once.  The items of a run and the stages of a backfill,    *)
(* with their own rows, are left out: what matters is how a run ends.      *)
(***************************************************************************)
EXTENDS Naturals, Sequences, FiniteSets

CONSTANTS Call,       \* calls of Start
          Kinds,      \* bound: what the calls may be for
          NoCall,     \* a run id of 0
          Event,      \* bound: the kinds of outside events there are
          MaxOutside  \* bound: outside events

ASSUME TaskRunsAssumption ==
    /\ NoCall \notin Call
    /\ Kinds \subseteq [Call -> {"probe", "backfill"}]
    /\ MaxOutside \in Nat
    /\ Event \subseteq {"hand", "hook", "stop", "error", "restart", "scan", "switch"}

Target == {"probe", "backfill"}

VARIABLES
    progress,       \* of each task: the status it reports, its stop flag
    current,        \* of each adapter: currentRunID, currentParentID
    stopRequested,  \* of each adapter
    call,           \* how far a call of Start has come, and for whom
    worker,         \* the goroutine a call has started
    tracker,        \* the tracker of a call's row
    row,            \* the status of its row of task_runs
    outcome,        \* ghost: how its goroutine really ended
    why,            \* ghost: what came between the call and its row
    outside         \* outside events so far

taskVars == <<progress, current, stopRequested, call, worker, tracker, row, outcome,
              why, outside>>
ghosts   == <<outcome, why>>

Reason == {"raced", "joined", "stamped", "overlaid", "early", "unwritten", "quick", "displaced"}
Point  == {"free", "gate", "start", "clear", "query", "begin", "publish", "reset", "over"}

Of(c)      == call[c].kind
Peers(c)   == {d \in Call \ {c} : call[d].at # "free" /\ Of(d) = Of(c)}
Go(c, at)  == call' = [call EXCEPT ![c].at = at]
AtWork(c)  == worker[c] \in {"working", "leaving", "failing"}
Followed(c) == call[c].at \in {"begin", "publish", "reset"} \/ tracker[c] # "none"
Spend(e)   == e \in Event /\ outside < MaxOutside /\ outside' = outside + 1
Blame(cs, reason) == why' = [c \in Call |-> IF c \in cs THEN why[c] \cup {reason} ELSE why[c]]

\* Mutant: a task that is stopping may be started again.
Runs_NotStopping(k) == progress[k].status = "running"

\* The guard of both Starts, Status.Running of the snapshot.
Runs(k) == progress[k].status \in {"running", "stopping"}

\* Mutant: the task's own word is passed on.
mapLegacyStatus_Raw(s) == s

\* mapLegacyStatus, on the words these two tasks use.
mapLegacyStatus(s) ==
    CASE s = "completed" -> "succeeded"
      [] s = "error"     -> "failed"
      [] s = "stopped"   -> "cancelled"
      [] OTHER           -> s

\* ProbeAdapter.Snapshot, BackfillAdapter.Snapshot.
Snapshot(k) == [kind |-> k, status |-> mapLegacyStatus(progress[k].status), run |-> current[k]]

Idle == [status |-> "idle", stopFlag |-> FALSE]

TaskInit ==
    /\ progress = [k \in Target |-> Idle]
    /\ current = [k \in Target |-> NoCall]
    /\ stopRequested = [k \in Target |-> FALSE]
    /\ \E kind \in Kinds :
          call = [c \in Call |-> [kind |-> kind[c], by |-> "hand", at |-> "free"]]
    /\ worker = [c \in Call |-> "none"]
    /\ tracker = [c \in Call |-> "none"]
    /\ row = [c \in Call |-> "none"]
    /\ outcome = [c \in Call |-> "none"]
    /\ why = [c \in Call |-> {}]
    /\ outside = 0

-----------------------------------------------------------------------------
\* Start.

\* A call arrives: a request's or the chain's at the adapter, the hook's past it.
Arrive(c, k, by) ==
    /\ call[c].at = "free" /\ Of(c) = k
    /\ call' = [call EXCEPT ![c].by = by,
                            ![c].at = IF by = "hook" THEN "start" ELSE "gate"]

\* POST /Tasks/:kind/start.
StartTask(c, k) ==
    /\ Spend("hand")
    /\ Arrive(c, k, "hand")
    /\ UNCHANGED <<progress, current, stopRequested, worker, tracker, row, ghosts>>

\* MaybeTriggerAutoProbe: a scan has completed, the configuration and the
\* missing media say so, and the task is started past its adapter.
MaybeTriggerAutoProbe(c) ==
    /\ Spend("hook")
    /\ Arrive(c, "probe", "hook")
    /\ UNCHANGED <<progress, current, stopRequested, worker, tracker, row, ghosts>>

\* Adapter.Start, first section: a run that is known is returned.
Gate(c) ==
    /\ call[c].at = "gate"
    /\ Go(c, IF current[Of(c)] # NoCall THEN "over" ELSE "start")
    /\ UNCHANGED <<progress, current, stopRequested, worker, tracker, row, ghosts, outside>>

\* ProbeTask.Start, the check.
ProbeCheck(c) ==
    /\ call[c].at = "start" /\ Of(c) = "probe"
    /\ IF Runs("probe")
       THEN /\ Go(c, "over")
            /\ UNCHANGED why
       ELSE /\ Go(c, "clear")
            /\ LET inside == {d \in Peers(c) : call[d].at \in {"clear", "query"}}
               IN  Blame(IF inside = {} THEN {} ELSE inside \cup {c}, "raced")
    /\ UNCHANGED <<progress, current, stopRequested, worker, tracker, row, outcome, outside>>

\* pt.stopFlag.Store(false), outside the lock.
ProbeClear(c) ==
    /\ call[c].at = "clear"
    /\ progress' = [progress EXCEPT !["probe"].stopFlag = FALSE]
    /\ Go(c, "query")
    /\ UNCHANGED <<current, stopRequested, worker, tracker, row, ghosts, outside>>

\* After a task has started the adapter opens a row; the hook is done.
Started(c) == Go(c, IF call[c].by = "hook" THEN "over" ELSE "begin")

\* The status of a run is written over that of the runs still followed; and
\* it may join one that a race has left at work.
Overlay(c, extra) ==
    why' = [d \in Call |->
              CASE d = c -> why[d] \cup extra
                              \cup {r \in {"joined"} : \E e \in Peers(c) : AtWork(e)}
                [] d \in Peers(c) /\ Followed(d)   -> why[d] \cup {"overlaid"}
                [] OTHER                           -> why[d]]

\* The query answers with items: the run begins.
ProbeStarts(c) ==
    /\ call[c].at = "query"
    /\ progress' = [progress EXCEPT !["probe"].status = "running"]
    /\ worker' = [worker EXCEPT ![c] = "working"]
    /\ Started(c)
    /\ Overlay(c, {})
    /\ UNCHANGED <<current, stopRequested, tracker, row, outcome, outside>>

\* It answers with nothing to do: the run is over before it began.
ProbeEmpty(c) ==
    /\ call[c].at = "query"
    /\ progress' = [progress EXCEPT !["probe"].status = "completed"]
    /\ worker' = [worker EXCEPT ![c] = "ended"]
    /\ outcome' = [outcome EXCEPT ![c] = "completed"]
    /\ Started(c)
    /\ Overlay(c, {"quick"})
    /\ UNCHANGED <<current, stopRequested, tracker, row, outside>>

\* It fails.
ProbeQueryFails(c) ==
    /\ Spend("error")
    /\ call[c].at = "query"
    /\ Go(c, "over")
    /\ UNCHANGED <<progress, current, stopRequested, worker, tracker, row, ghosts>>

\* BackfillTask.Start: check and start in one section.
BackfillStarts(c) ==
    /\ call[c].at = "start" /\ Of(c) = "backfill"
    /\ IF Runs("backfill")
       THEN Go(c, "over") /\ UNCHANGED <<progress, worker, why>>
       ELSE /\ progress' = [progress EXCEPT !["backfill"] = [Idle EXCEPT !.status = "running"]]
            /\ worker' = [worker EXCEPT ![c] = "working"]
            /\ Started(c)
            /\ Overlay(c, {})
    /\ UNCHANGED <<current, stopRequested, tracker, row, outcome, outside>>

\* Begin: the row.
Begin(c) ==
    /\ call[c].at = "begin"
    /\ row' = [row EXCEPT ![c] = "running"]
    /\ Go(c, "publish")
    /\ UNCHANGED <<progress, current, stopRequested, worker, tracker, ghosts, outside>>

\* The row cannot be written: the run goes on untracked.
BeginFails(c) ==
    /\ Spend("error")
    /\ call[c].at = "begin"
    /\ Go(c, "over")
    /\ UNCHANGED <<progress, current, stopRequested, worker, tracker, row, ghosts>>

\* currentRunID, currentParentID.
Publish(c) ==
    /\ call[c].at = "publish"
    /\ current' = [current EXCEPT ![Of(c)] = c]
    /\ Go(c, "reset")
    /\ Blame(IF current[Of(c)] = NoCall THEN {} ELSE {c, current[Of(c)]}, "displaced")
    /\ UNCHANGED <<progress, stopRequested, worker, tracker, row, outcome, outside>>

\* stopRequested.Store(false), outside the lock, and the tracker.
Follow(c) ==
    /\ call[c].at = "reset"
    /\ stopRequested' = [stopRequested EXCEPT ![Of(c)] = FALSE]
    /\ tracker' = [tracker EXCEPT ![c] = "waiting"]
    /\ Go(c, "over")
    /\ Blame({d \in Peers(c) : stopRequested[Of(c)] /\ Followed(d)}, "early")
    /\ UNCHANGED <<progress, current, worker, row, outcome, outside>>

-----------------------------------------------------------------------------
\* Stop, and the goroutines.

\* Adapter.Stop and the task's Stop.
Stop(k) ==
    /\ Spend("stop")
    /\ stopRequested' = [stopRequested EXCEPT ![k] = TRUE]
    /\ progress' = IF progress[k].status = "running"
                   THEN [progress EXCEPT ![k] = [status |-> "stopping", stopFlag |-> TRUE]]
                   ELSE progress
    /\ Blame({c \in Call : Of(c) = k /\ call[c].at \in {"begin", "publish", "reset"}}, "early")
    /\ UNCHANGED <<current, call, worker, tracker, row, outcome>>

\* The loop over the items, or over the stages, sees the flag.
Leave(c) ==
    /\ worker[c] = "working" /\ progress[Of(c)].stopFlag
    /\ worker' = [worker EXCEPT ![c] = "leaving"]
    /\ UNCHANGED <<progress, current, stopRequested, call, tracker, row, ghosts, outside>>

\* How the goroutine's last section finds it.
Really(c) == CASE worker[c] = "leaving" -> "stopped"
               [] worker[c] = "failing" -> "failed"
               [] OTHER                 -> "completed"

\* A goroutine ends; "quick" when its tracker has not seen it run.
Ends(c, stamped) ==
    /\ worker' = [worker EXCEPT ![c] = "ended"]
    /\ outcome' = [outcome EXCEPT ![c] = Really(c)]
    /\ why' = [d \in Call |->
                 CASE d = c        -> why[d] \cup (IF tracker[d] = "seen" THEN {} ELSE {"quick"})
                   [] d \in stamped -> why[d] \cup {"stamped"}
                   [] OTHER        -> why[d]]
    /\ UNCHANGED <<current, stopRequested, call, tracker, row, outside>>

\* The end of the probe's goroutine asks the flag, not the status.
ProbeEnds(c) ==
    /\ worker[c] \in {"working", "leaving"} /\ Of(c) = "probe"
    /\ progress' = [progress EXCEPT !["probe"].status = IF progress["probe"].stopFlag
                                                        THEN "idle" ELSE "completed"]
    /\ Ends(c, {})

\* A stage of the backfill fails.
StageFails(c) ==
    /\ worker[c] = "working" /\ Of(c) = "backfill" /\ ~progress["backfill"].stopFlag
    /\ progress' = [progress EXCEPT !["backfill"].status = "error"]
    /\ worker' = [worker EXCEPT ![c] = "failing"]
    /\ outcome' = [outcome EXCEPT ![c] = "failed"]
    /\ UNCHANGED <<current, stopRequested, call, tracker, row, why, outside>>

\* The deferred end of the backfill's goroutine asks the status, whosever it is.
BackfillEnds(c) ==
    /\ AtWork(c) /\ Of(c) = "backfill"
    /\ progress' = [progress EXCEPT !["backfill"].status =
                      CASE @ = "stopping" -> "stopped"
                        [] @ = "running"  -> "completed"
                        [] OTHER          -> @]
    /\ Ends(c, {d \in Peers(c) : AtWork(d)})

-----------------------------------------------------------------------------
\* The trackers: singleRunTracker.run and trackBackfill, once a second.

\* Mutants: an idle task has always ended; the snapshot's word is written.
Final_IgnoresStop(k) ==
    IF Snapshot(k).status # "idle" THEN Snapshot(k).status ELSE "succeeded"
Final_Raw(k) == Snapshot(k).status

\* The word for the row: an idle task has been stopped, or has ended.
Final(k) ==
    CASE Snapshot(k).status # "idle" -> Snapshot(k).status
      [] stopRequested[k]            -> "cancelled"
      [] OTHER                       -> "succeeded"

\* The run is seen.
TrackerSees(c) ==
    /\ tracker[c] = "waiting" /\ Runs(Of(c))
    /\ tracker' = [tracker EXCEPT ![c] = "seen"]
    /\ UNCHANGED <<progress, current, stopRequested, call, worker, row, ghosts, outside>>

\* The row a tracker closes: its own, or for a backfill the adapter's latest.
Closes(c) == IF Of(c) = "probe" THEN {c} ELSE {current["backfill"]} \cap Call

\* A run that was seen runs no more: the row is closed, if it can be written.
TrackerEnds(c) ==
    /\ tracker[c] = "seen" /\ ~Runs(Of(c))
    /\ \/ /\ row' = [d \in Call |-> IF d \in Closes(c) /\ row[d] = "running"
                                    THEN Final(Of(c)) ELSE row[d]]
          /\ UNCHANGED <<why, outside>>
       \/ /\ Spend("error")
          /\ Blame(Closes(c), "unwritten")
          /\ UNCHANGED row
    /\ tracker' = [tracker EXCEPT ![c] = "none"]
    /\ current' = [current EXCEPT ![Of(c)] = NoCall]
    /\ UNCHANGED <<progress, stopRequested, call, worker, outcome>>

\* Mutant: only rows that were queued are closed at a start.
Reconciled_OnlyQueued(r) == r

\* ReconcileTaskRunsOnStartup, on one row.
Reconciled(r) == IF r = "running" THEN "cancelled" ELSE r

\* The process ends and another starts: ReconcileOnStartup, which may fail.
Restart ==
    /\ Spend("restart")
    /\ progress' = [k \in Target |-> Idle]
    /\ current' = [k \in Target |-> NoCall]
    /\ stopRequested' = [k \in Target |-> FALSE]
    /\ call' = [c \in Call |-> IF call[c].at = "free" THEN call[c] ELSE [call[c] EXCEPT !.at = "over"]]
    /\ worker' = [c \in Call |-> IF AtWork(c) THEN "ended" ELSE worker[c]]
    /\ tracker' = [c \in Call |-> "none"]
    /\ \/ /\ row' = [c \in Call |-> Reconciled(row[c])]
          /\ UNCHANGED why
       \/ /\ UNCHANGED row
          /\ Blame({c \in Call : row[c] = "running"}, "unwritten")
    /\ UNCHANGED outcome

\* What the tasks and their adapters do by themselves.
CallStep(c) ==
    \/ Gate(c) \/ ProbeCheck(c) \/ ProbeClear(c) \/ ProbeStarts(c) \/ ProbeEmpty(c)
    \/ ProbeQueryFails(c) \/ BackfillStarts(c) \/ Begin(c) \/ BeginFails(c)
    \/ Publish(c) \/ Follow(c)
WorkerStep(c) ==
    Leave(c) \/ ProbeEnds(c) \/ StageFails(c) \/ BackfillEnds(c)
TrackerStep(c) ==
    TrackerSees(c) \/ TrackerEnds(c)

TaskStep ==
    \/ \E c \in Call : CallStep(c) \/ WorkerStep(c) \/ TrackerStep(c)
    \/ \E k \in Target : Stop(k)
    \/ \E c \in Call : MaybeTriggerAutoProbe(c) \/ \E k \in Target : StartTask(c, k)

\* The tasks by themselves.
TaskSpec == TaskInit /\ [][TaskStep \/ Restart]_taskVars

-----------------------------------------------------------------------------
\* Types.
TaskTypeOK ==
    /\ progress \in [Target -> [status : {"idle", "running", "stopping", "completed",
                                          "stopped", "error"}, stopFlag : BOOLEAN]]
    /\ current \in [Target -> Call \cup {NoCall}]
    /\ stopRequested \in [Target -> BOOLEAN]
    /\ call \in [Call -> [kind : Target, by : {"hand", "chain", "hook"}, at : Point]]
    /\ worker \in [Call -> {"none", "working", "leaving", "failing", "ended"}]
    /\ tracker \in [Call -> {"none", "waiting", "seen"}]
    /\ row \in [Call -> {"none", "running", "succeeded", "failed", "cancelled"}]
    /\ outcome \in [Call -> {"none", "completed", "stopped", "failed"}]
    /\ why \in [Call -> SUBSET Reason]

\* No two runs of a task are at work at once, one that has failed and goes out
\* aside, as long as no two calls have been between the probe's check and its
\* start together and no backfill was given the end of the one before
\* (probe_task.go:68, backfill_task.go:123).
OneWorker ==
    \A c, d \in Call :
        c # d /\ Of(c) = Of(d) /\ worker[c] \in {"working", "leaving"} /\ worker[d] = "working"
            => \E e \in Call : Of(e) = Of(c) /\ why[e] \cap {"raced", "stamped"} # {}

\* A row says of a run what its goroutine did, unless a second run came into
\* its status or its place, or it was stopped before the adapter cleared
\* stopRequested (adapters/tracker.go, adapters/probe.go:104).
EndsTrue ==
    \A c \in Call :
        why[c] \cap {"raced", "joined", "stamped", "overlaid", "early", "displaced"} = {} =>
            /\ row[c] = "succeeded" => outcome[c] = "completed"
            /\ row[c] = "failed"    => outcome[c] = "failed"

\* A row that says running is being opened or has a tracker that will close
\* it, unless its run was over before the tracker looked, it was displaced,
\* or the row could not be written.
RunFollowed ==
    \A c \in Call :
        /\ row[c] = "running"
        /\ why[c] \cap {"quick", "displaced", "unwritten"} = {}
        => \/ call[c].at \in {"publish", "reset"}
           \/ /\ current[Of(c)] = c \/ Of(c) = "probe"
              /\ tracker[c] = "seen" \/ (tracker[c] = "waiting" /\ AtWork(c))
=============================================================================
