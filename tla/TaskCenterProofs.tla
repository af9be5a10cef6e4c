-------------------------- MODULE TaskCenterProofs --------------------------
(***************************************************************************)
(* The task center.  The tasks, for any number of calls: when two runs may *)
(* be at work at once, when a row may be left running, and when what it    *)
(* says is what its run did.  The chain, for any channel and libraries:    *)
(* what the engine knows, and that it starts a task once for a success.    *)
(***************************************************************************)
EXTENDS TaskCenter, SequenceTheorems, TLAPS

\* A call that met another one, or was given another one's end.
Raced(e) == why[e] \cap {"raced", "stamped"} # {}

\* A call on its way past the check, or at work.
Inside(c) == call[c].at \in {"clear", "query"} \/ worker[c] \in {"working", "leaving"}

\* Only the probe has a check and a start of its own, and only a call that has
\* come has a goroutine.
PointsOK ==
    \A c \in Call :
        /\ call[c].at \in {"clear", "query"} => Of(c) = "probe"
        /\ worker[c] # "none" => call[c].at # "free"

\* No two calls are on their way or at work, and a run at work is seen.
Alone(k) ==
    /\ \A c, d \in Call : c # d /\ Of(c) = k /\ Of(d) = k => ~(Inside(c) /\ Inside(d))
    /\ \A c \in Call : Of(c) = k /\ worker[c] \in {"working", "leaving"} => Runs(k)

Clean(k) == \A e \in Call : Of(e) = k => ~Raced(e)

\* The inductive invariant behind OneWorker.
WorkerInv ==
    /\ TaskTypeOK
    /\ PointsOK
    /\ \A k \in Target : Clean(k) => Alone(k)

\* A call has no tracker before its Start is over, and no row before it opened one.
Placed(c) ==
    /\ call[c].at # "over" => tracker[c] = "none"
    /\ call[c].at \notin {"publish", "reset", "over"} => row[c] = "none"

\* Behind a row that is being opened, or a tracker that waits, a run is at work
\* or was quick.
Backed(c) ==
    call[c].at \in {"begin", "publish", "reset"} \/ tracker[c] = "waiting"
        => AtWork(c) \/ "quick" \in why[c]

\* A call that lost its place at the adapter, or its row's last word.
Lost(c) == why[c] \cap {"displaced", "unwritten"} # {}

\* The place of a backfill that is followed is kept: its tracker closes the row
\* it finds there.
Held(c) ==
    /\ Of(c) = "backfill" /\ row[c] = "running" /\ ~Lost(c)
    /\ call[c].at = "reset" \/ tracker[c] # "none"
    => current["backfill"] = c

\* What RunFollowed says of a call.
Watched(c) ==
    /\ row[c] = "running" /\ "quick" \notin why[c] /\ ~Lost(c)
    => \/ call[c].at \in {"publish", "reset"}
       \/ /\ current[Of(c)] = c \/ Of(c) = "probe"
          /\ tracker[c] = "seen" \/ (tracker[c] = "waiting" /\ AtWork(c))

\* The inductive invariant behind RunFollowed.
Good(c)   == Placed(c) /\ Backed(c) /\ Held(c) /\ Watched(c)
FollowInv == TaskTypeOK /\ \A c \in Call : Good(c)

\* A call no second one came near: EndsTrue speaks of these.
Pure(c) == why[c] \cap {"raced", "joined", "stamped", "overlaid", "early", "displaced"} = {}

\* Another call for the same task.
Other(d, c) == d # c /\ Of(d) = Of(c)

\* Past the check of the probe's Start, and not started yet.
Inspects(c) == call[c].at \in {"clear", "query"}

\* Past the check: nobody else is, the task does not run, and the flag is clear
\* once it has been cleared.
Fresh(c) ==
    call[c].at \in {"clear", "query"} =>
        /\ ~Runs("probe")
        /\ \A d \in Call : Other(d, c) => call[d].at \notin {"clear", "query"}
        /\ call[c].at = "query" => ~progress["probe"].stopFlag

\* Followed: nobody else is at work, nor past the check while the run works.
Sole(c) ==
    Followed(c) => \A d \in Call : Other(d, c) =>
        /\ ~AtWork(d)
        /\ worker[c] \in {"working", "leaving"} => call[d].at \notin {"clear", "query"}

\* The status of the task says how the followed run fares.
StopSeen(c) == stopRequested[Of(c)] /\ tracker[c] # "none"
Tells(c) ==
    Followed(c) =>
        LET status == progress[Of(c)].status
            flag   == progress[Of(c)].stopFlag
        IN  \/ worker[c] = "working" /\ status = "running" /\ ~flag
            \/ worker[c] \in {"working", "leaving"} /\ status = "stopping" /\ flag /\ StopSeen(c)
            \/ worker[c] \in {"failing", "ended"} /\ status = "error" /\ outcome[c] = "failed"
            \/ worker[c] = "ended" /\ status = "completed" /\ outcome[c] = "completed"
            \/ worker[c] = "ended" /\ status = "stopped"
            \/ worker[c] = "ended" /\ status = "idle" /\ StopSeen(c)

\* The row says of the run what it did.
Written(c) ==
    /\ row[c] = "succeeded" => outcome[c] = "completed" /\ worker[c] = "ended"
    /\ row[c] = "failed" => outcome[c] = "failed" /\ worker[c] \in {"failing", "ended"}

\* What EndsTrue says of a call, and what it rests on.
Truthful(c) == Pure(c) => Fresh(c) /\ Sole(c) /\ Tells(c) /\ Written(c)

\* An adapter's run is one whose row is opened, and followed or about to be.
OwnersOK ==
    \A k \in Target, c \in Call :
        current[k] = c => Of(c) = k /\ (call[c].at = "reset" \/ tracker[c] # "none")

\* The inductive invariant behind EndsTrue.
EndInv == FollowInv /\ PointsOK /\ OwnersOK /\ \A c \in Call : Truthful(c)

TaskNext == TaskStep \/ Restart

-----------------------------------------------------------------------------
(* Types.                                                                  *)

\* A call that goes on keeps its shape.
LEMMA GoType ==
    ASSUME TaskTypeOK, NEW c \in Call, NEW at \in Point, Go(c, at)
    PROVE  call' \in [Call -> [kind : Target, by : {"hand", "chain", "hook"}, at : Point]]
BY DEF TaskTypeOK, Go

\* A task whose status or flag is written stays a task.
LEMMA ProgressType ==
    ASSUME TaskTypeOK, NEW k \in Target,
           NEW s \in {"idle", "running", "stopping", "completed", "stopped", "error"},
           \/ progress' = [progress EXCEPT ![k].status = s]
           \/ progress' = [progress EXCEPT ![k].stopFlag = FALSE]
           \/ progress' = [progress EXCEPT ![k] = [Idle EXCEPT !.status = s]]
    PROVE  progress' \in [Target -> [status : {"idle", "running", "stopping", "completed",
                                              "stopped", "error"}, stopFlag : BOOLEAN]]
<1>1. progress[k] \in [status : {"idle", "running", "stopping", "completed",
                                "stopped", "error"}, stopFlag : BOOLEAN]
  BY DEF TaskTypeOK
<1>2. CASE progress' = [progress EXCEPT ![k].status = s]
  BY <1>1, <1>2 DEF TaskTypeOK
<1>3. CASE progress' = [progress EXCEPT ![k].stopFlag = FALSE]
  BY <1>1, <1>3 DEF TaskTypeOK
<1>4. CASE progress' = [progress EXCEPT ![k] = [Idle EXCEPT !.status = s]]
  BY <1>4 DEF TaskTypeOK, Idle
<1> QED
  BY <1>2, <1>3, <1>4

\* Blame adds reasons.
LEMMA BlameType ==
    ASSUME TaskTypeOK, NEW cs, NEW reason \in Reason, Blame(cs, reason)
    PROVE  why' \in [Call -> SUBSET Reason]
BY DEF TaskTypeOK, Blame

\* So does Overlay.
LEMMA OverlayType ==
    ASSUME TaskTypeOK, NEW c \in Call, NEW extra \in SUBSET Reason, Overlay(c, extra)
    PROVE  why' \in [Call -> SUBSET Reason]
<1>1. "joined" \in Reason /\ "overlaid" \in Reason
  BY DEF Reason
<1> QED
  BY <1>1 DEF TaskTypeOK, Overlay

\* The word a tracker writes is one of a row that is closed.
LEMMA FinalType ==
    ASSUME TaskTypeOK, NEW k \in Target, ~Runs(k)
    PROVE  Final(k) \in {"succeeded", "failed", "cancelled"}
<1>1. progress[k].status \in {"idle", "completed", "stopped", "error"}
  BY DEF TaskTypeOK, Runs
<1> QED
  BY <1>1 DEF Final, Snapshot, mapLegacyStatus

\* The tasks start well typed.
LEMMA InitTyped == TaskInit => TaskTypeOK
BY TaskRunsAssumption DEF TaskInit, TaskTypeOK, Idle, Target, Point, Reason

\* A call of Start keeps the types.
LEMMA CallTyped ==
    ASSUME TaskTypeOK, NEW c \in Call, CallStep(c)
    PROVE  TaskTypeOK'
<1> USE DEF Point, Reason, Target
<1>0. Of(c) \in Target
  BY DEF TaskTypeOK, Of
<1>1. CASE Gate(c)
  BY <1>1, GoType DEF Gate, TaskTypeOK, ghosts
<1>2. CASE ProbeCheck(c)
  <2>1. call' \in [Call -> [kind : Target, by : {"hand", "chain", "hook"}, at : Point]]
    BY <1>2, GoType DEF ProbeCheck
  <2>2. why' \in [Call -> SUBSET Reason]
    BY <1>2, BlameType DEF ProbeCheck, TaskTypeOK
  <2> QED
    BY <1>2, <2>1, <2>2 DEF ProbeCheck, TaskTypeOK
<1>3. CASE ProbeClear(c)
  <2>1. progress' \in [Target -> [status : {"idle", "running", "stopping", "completed",
                                            "stopped", "error"}, stopFlag : BOOLEAN]]
    BY <1>3, ProgressType DEF ProbeClear
  <2>2. call' \in [Call -> [kind : Target, by : {"hand", "chain", "hook"}, at : Point]]
    BY <1>3, GoType DEF ProbeClear
  <2> QED
    BY <1>3, <2>1, <2>2 DEF ProbeClear, TaskTypeOK, ghosts
<1>4. CASE ProbeStarts(c)
  <2>1. call' \in [Call -> [kind : Target, by : {"hand", "chain", "hook"}, at : Point]]
    BY <1>4, GoType DEF ProbeStarts, Started
  <2>2. why' \in [Call -> SUBSET Reason]
    BY <1>4, OverlayType DEF ProbeStarts
  <2>3. progress' \in [Target -> [status : {"idle", "running", "stopping", "completed",
                                            "stopped", "error"}, stopFlag : BOOLEAN]]
    <3>1. progress' = [progress EXCEPT !["probe"].status = "running"]
      BY <1>4 DEF ProbeStarts
    <3> QED
      BY <3>1, ProgressType
  <2> QED
    BY <1>4, <2>1, <2>2, <2>3 DEF ProbeStarts, TaskTypeOK
<1>5. CASE ProbeEmpty(c)
  <2>1. call' \in [Call -> [kind : Target, by : {"hand", "chain", "hook"}, at : Point]]
    BY <1>5, GoType DEF ProbeEmpty, Started
  <2>2. why' \in [Call -> SUBSET Reason]
    BY <1>5, OverlayType DEF ProbeEmpty
  <2>3. progress' \in [Target -> [status : {"idle", "running", "stopping", "completed",
                                            "stopped", "error"}, stopFlag : BOOLEAN]]
    BY <1>5, ProgressType DEF ProbeEmpty
  <2> QED
    BY <1>5, <2>1, <2>2, <2>3 DEF ProbeEmpty, TaskTypeOK
<1>6. CASE ProbeQueryFails(c)
  BY <1>6, GoType DEF ProbeQueryFails, TaskTypeOK, ghosts
<1>7. CASE BackfillStarts(c)
  <2>1. call' \in [Call -> [kind : Target, by : {"hand", "chain", "hook"}, at : Point]]
    BY <1>7, GoType DEF BackfillStarts, Started
  <2>2. why' \in [Call -> SUBSET Reason]
    BY <1>7, OverlayType DEF BackfillStarts, TaskTypeOK
  <2>3. progress' \in [Target -> [status : {"idle", "running", "stopping", "completed",
                                            "stopped", "error"}, stopFlag : BOOLEAN]]
    BY <1>7, ProgressType DEF BackfillStarts, TaskTypeOK
  <2> QED
    BY <1>7, <2>1, <2>2, <2>3 DEF BackfillStarts, TaskTypeOK
<1>8. CASE Begin(c)
  BY <1>8, GoType DEF Begin, TaskTypeOK, ghosts
<1>9. CASE BeginFails(c)
  BY <1>9, GoType DEF BeginFails, TaskTypeOK, ghosts
<1>10. CASE Publish(c)
  <2>1. call' \in [Call -> [kind : Target, by : {"hand", "chain", "hook"}, at : Point]]
    BY <1>10, GoType DEF Publish
  <2>2. why' \in [Call -> SUBSET Reason]
    BY <1>10, BlameType DEF Publish
  <2> QED
    BY <1>10, <1>0, <2>1, <2>2 DEF Publish, TaskTypeOK
<1>11. CASE Follow(c)
  <2>1. call' \in [Call -> [kind : Target, by : {"hand", "chain", "hook"}, at : Point]]
    BY <1>11, GoType DEF Follow
  <2>2. why' \in [Call -> SUBSET Reason]
    BY <1>11, BlameType DEF Follow
  <2> QED
    BY <1>11, <1>0, <2>1, <2>2 DEF Follow, TaskTypeOK
<1> QED
  BY <1>1, <1>2, <1>3, <1>4, <1>5, <1>6, <1>7, <1>8, <1>9, <1>10, <1>11 DEF CallStep

\* A goroutine and a tracker do.
LEMMA WorkTyped ==
    ASSUME TaskTypeOK, NEW c \in Call, WorkerStep(c) \/ TrackerStep(c)
    PROVE  TaskTypeOK'
<1> USE DEF Point, Reason, Target
<1>0. Of(c) \in Target
  BY DEF TaskTypeOK, Of
<1>1. CASE Leave(c)
  BY <1>1 DEF Leave, TaskTypeOK, ghosts
<1>2. Really(c) \in {"completed", "stopped", "failed"}
  BY DEF Really
<1>3. ASSUME NEW stamped, Ends(c, stamped)
      PROVE  /\ worker' \in [Call -> {"none", "working", "leaving", "failing", "ended"}]
             /\ outcome' \in [Call -> {"none", "completed", "stopped", "failed"}]
             /\ why' \in [Call -> SUBSET Reason]
  <2>1. why' \in [Call -> SUBSET Reason]
    BY <1>3 DEF Ends, TaskTypeOK
  <2> QED
    BY <1>2, <1>3, <2>1 DEF Ends, TaskTypeOK
<1>4. CASE ProbeEnds(c)
  BY <1>3, <1>4 DEF ProbeEnds, Ends, TaskTypeOK
<1>5. CASE StageFails(c)
  BY <1>5 DEF StageFails, TaskTypeOK
<1>6. CASE BackfillEnds(c)
  <2>1. progress' \in [Target -> [status : {"idle", "running", "stopping", "completed",
                                            "stopped", "error"}, stopFlag : BOOLEAN]]
    BY <1>6 DEF BackfillEnds, TaskTypeOK
  <2> QED
    BY <1>3, <1>6, <2>1 DEF BackfillEnds, Ends, TaskTypeOK
<1>7. CASE TrackerSees(c)
  BY <1>7 DEF TrackerSees, TaskTypeOK, ghosts
<1>8. CASE TrackerEnds(c)
  <2>1. Final(Of(c)) \in {"succeeded", "failed", "cancelled"}
    BY <1>0, <1>8, FinalType DEF TrackerEnds
  <2>2. row' \in [Call -> {"none", "running", "succeeded", "failed", "cancelled"}]
    BY <1>8, <2>1 DEF TrackerEnds, TaskTypeOK
  <2>3. why' \in [Call -> SUBSET Reason]
    BY <1>8, BlameType DEF TrackerEnds, TaskTypeOK
  <2> QED
    BY <1>0, <1>8, <2>2, <2>3 DEF TrackerEnds, TaskTypeOK
<1> QED
  BY <1>1, <1>4, <1>5, <1>6, <1>7, <1>8 DEF WorkerStep, TrackerStep

\* What comes from outside does.
LEMMA OutsideTyped ==
    ASSUME TaskTypeOK,
           \/ \E k \in Target : Stop(k)
           \/ \E c \in Call : MaybeTriggerAutoProbe(c) \/ \E k \in Target : StartTask(c, k)
           \/ Restart
    PROVE  TaskTypeOK'
<1> USE DEF Point, Reason, Target
<1>1. ASSUME NEW k \in Target, Stop(k) PROVE TaskTypeOK'
  <2>1. why' \in [Call -> SUBSET Reason]
    BY <1>1, BlameType DEF Stop
  <2> QED
    BY <1>1, <2>1 DEF Stop, TaskTypeOK
<1>2. ASSUME NEW c \in Call, NEW k \in Target, NEW by \in {"hand", "chain", "hook"},
             Arrive(c, k, by)
      PROVE  call' \in [Call -> [kind : Target, by : {"hand", "chain", "hook"}, at : Point]]
  BY <1>2 DEF Arrive, TaskTypeOK
<1>3. ASSUME NEW c \in Call, MaybeTriggerAutoProbe(c) PROVE TaskTypeOK'
  BY <1>2, <1>3 DEF MaybeTriggerAutoProbe, TaskTypeOK, ghosts
<1>4. ASSUME NEW c \in Call, NEW k \in Target, StartTask(c, k) PROVE TaskTypeOK'
  BY <1>2, <1>4 DEF StartTask, TaskTypeOK, ghosts
<1>5. CASE Restart
  <2>1. why' \in [Call -> SUBSET Reason]
    BY <1>5, BlameType DEF Restart, TaskTypeOK
  <2>2. row' \in [Call -> {"none", "running", "succeeded", "failed", "cancelled"}]
    BY <1>5 DEF Restart, TaskTypeOK, Reconciled
  <2>3. call' \in [Call -> [kind : Target, by : {"hand", "chain", "hook"}, at : Point]]
    <3>1. \A c \in Call : [call[c] EXCEPT !.at = "over"]
                              \in [kind : Target, by : {"hand", "chain", "hook"}, at : Point]
      <4> TAKE c \in Call
      <4>1. call[c] \in [kind : Target, by : {"hand", "chain", "hook"}, at : Point]
        BY DEF TaskTypeOK
      <4> QED
        BY <4>1
    <3> QED
      BY <1>5, <3>1 DEF Restart, TaskTypeOK
  <2> QED
    BY <1>5, <2>1, <2>2, <2>3 DEF Restart, TaskTypeOK, Idle
<1> QED
  BY <1>1, <1>3, <1>4, <1>5

\* Every step keeps the types.
LEMMA NextTyped == TaskTypeOK /\ [TaskNext]_taskVars => TaskTypeOK'
<1>1. CASE UNCHANGED taskVars
  BY <1>1 DEF taskVars, ghosts, TaskTypeOK
<1> QED
  BY <1>1, CallTyped, WorkTyped, OutsideTyped DEF TaskNext, TaskStep

\* The tasks, their adapters, rows and trackers stay well typed, whatever
\* calls, ends, failures and restarts come.
THEOREM TasksTyped == TaskSpec => []TaskTypeOK
<1>1. TaskSpec => TaskInit /\ [][TaskNext]_taskVars
  BY DEF TaskSpec, TaskNext
<1> QED
  BY <1>1, InitTyped, NextTyped, PTL

-----------------------------------------------------------------------------
(* One worker: why a second run is at work.                                *)

\* A call that goes on moves alone and keeps its task.
LEMMA GoEffect ==
    ASSUME TaskTypeOK, NEW c \in Call, NEW at, Go(c, at)
    PROVE  \A d \in Call : /\ Of(d)' = Of(d)
                           /\ call'[d].at = IF d = c THEN at ELSE call[d].at
<1> SUFFICES ASSUME NEW d \in Call
             PROVE  /\ Of(d)' = Of(d)
                    /\ call'[d].at = IF d = c THEN at ELSE call[d].at
  OBVIOUS
<1>1. call[d] \in [kind : Target, by : {"hand", "chain", "hook"}, at : Point]
  BY DEF TaskTypeOK
<1>2. call'[d] = IF d = c THEN [call[d] EXCEPT !.at = at] ELSE call[d]
  BY DEF Go, TaskTypeOK
<1> QED
  BY <1>1, <1>2 DEF Of

\* A call that arrives does so too.
LEMMA ArriveEffect ==
    ASSUME TaskTypeOK, NEW c \in Call, NEW k \in Target, NEW by, Arrive(c, k, by)
    PROVE  /\ call[c].at = "free"
           /\ call'[c].at \in {"start", "gate"}
           /\ \A d \in Call : Of(d)' = Of(d) /\ (d # c => call'[d] = call[d])
<1>1. call[c] \in [kind : Target, by : {"hand", "chain", "hook"}, at : Point]
  BY DEF TaskTypeOK
<1>2. call'[c] = [[call[c] EXCEPT !.by = by] EXCEPT
                     !.at = IF by = "hook" THEN "start" ELSE "gate"]
  BY DEF Arrive, TaskTypeOK
<1>3. call'[c].kind = call[c].kind /\ call'[c].at \in {"start", "gate"}
  BY <1>1, <1>2
<1>4. \A d \in Call : d # c => call'[d] = call[d]
  BY DEF Arrive, TaskTypeOK
<1> QED
  BY <1>3, <1>4 DEF Arrive, Of

\* The reasons that Blame and Overlay give are added.
LEMMA BlameEffect ==
    ASSUME TaskTypeOK, NEW cs, NEW reason, Blame(cs, reason)
    PROVE  \A d \in Call : /\ why[d] \subseteq why'[d]
                           /\ d \in cs => reason \in why'[d]
BY DEF Blame, TaskTypeOK

LEMMA OverlayEffect ==
    ASSUME TaskTypeOK, NEW c \in Call, NEW extra, Overlay(c, extra)
    PROVE  /\ \A d \in Call : why[d] \subseteq why'[d]
           /\ extra \subseteq why'[c]
<1>1. \A d \in Call : why[d] \subseteq why'[d]
  BY DEF Overlay
<1>2. extra \subseteq why'[c]
  <2>1. why'[c] = why[c] \cup extra \cup {r \in {"joined"} : \E e \in Peers(c) : AtWork(e)}
    BY DEF Overlay, Peers
  <2> QED
    BY <2>1
<1> QED
  BY <1>1, <1>2

\* The end of a goroutine, seen from the others.
LEMMA EndsEffect ==
    ASSUME TaskTypeOK, NEW c \in Call, NEW stamped, c \notin stamped, Ends(c, stamped)
    PROVE  \A d \in Call : /\ why[d] \subseteq why'[d]
                           /\ Of(d)' = Of(d)
                           /\ d \in stamped => "stamped" \in why'[d]
                           /\ d = c /\ tracker[d] # "seen" => "quick" \in why'[d]
                           /\ worker'[d] = IF d = c THEN "ended" ELSE worker[d]
<1> TAKE d \in Call
<1>1. worker'[d] = IF d = c THEN "ended" ELSE worker[d]
  BY DEF Ends, TaskTypeOK
<1>2. Of(d)' = Of(d)
  BY DEF Ends, Of
<1>3. /\ why[d] \subseteq why'[d]
      /\ d \in stamped => "stamped" \in why'[d]
      /\ d = c /\ tracker[d] # "seen" => "quick" \in why'[d]
  <2>1. CASE d = c
    BY <2>1 DEF Ends
  <2>2. CASE d # c
    BY <2>2 DEF Ends
  <2> QED
    BY <2>1, <2>2
<1> QED
  BY <1>1, <1>2, <1>3

\* A task whose calls only go out stays as it is.
LEMMA Settled ==
    ASSUME NEW k \in Target, Alone(k), Runs(k) => Runs(k)',
           \A c \in Call : /\ Of(c)' = Of(c)
                           /\ Of(c) = k /\ Inside(c)' => Inside(c)
                           /\ Of(c) = k /\ worker'[c] \in {"working", "leaving"}
                                => worker[c] \in {"working", "leaving"}
    PROVE  Alone(k)'
BY DEF Alone

\* A task with one call inside, whose status says so.
LEMMA Lone ==
    ASSUME NEW k \in Target, NEW c \in Call,
           \A d \in Call : /\ Of(d)' = Of(d)
                           /\ d # c /\ Of(d) = k => ~Inside(d)',
           Of(c) = k /\ worker'[c] \in {"working", "leaving"} => Runs(k)'
    PROVE  Alone(k)'
BY DEF Alone, Inside

\* The reasons of the calls only grow, and a call keeps its task.
Grows == \A d \in Call : Of(d)' = Of(d) /\ why[d] \subseteq why'[d]

LEMMA CallGrows ==
    ASSUME TaskTypeOK, NEW c \in Call, CallStep(c)
    PROVE  Grows
<1> USE DEF ghosts, Started
<1>1. \A d \in Call : Of(d)' = Of(d)
  <2>1. ASSUME NEW at, Go(c, at) PROVE \A d \in Call : Of(d)' = Of(d)
    BY <2>1, GoEffect
  <2> QED
    BY <2>1 DEF CallStep, Gate, ProbeCheck, ProbeClear, ProbeStarts, ProbeEmpty, ProbeQueryFails,
                BackfillStarts, Begin, BeginFails, Publish, Follow
<1>2. \A d \in Call : why[d] \subseteq why'[d]
  <2>1. ASSUME NEW cs, NEW reason, Blame(cs, reason) PROVE \A d \in Call : why[d] \subseteq why'[d]
    BY <2>1, BlameEffect
  <2>2. ASSUME NEW extra, Overlay(c, extra) PROVE \A d \in Call : why[d] \subseteq why'[d]
    BY <2>2, OverlayEffect
  <2> QED
    BY <2>1, <2>2 DEF CallStep, Gate, ProbeCheck, ProbeClear, ProbeStarts, ProbeEmpty,
                      ProbeQueryFails, BackfillStarts, Begin, BeginFails, Publish, Follow
<1> QED
  BY <1>1, <1>2 DEF Grows

LEMMA WorkGrows ==
    ASSUME TaskTypeOK, NEW c \in Call, WorkerStep(c) \/ TrackerStep(c)
    PROVE  Grows
<1> USE DEF ghosts, Grows
<1>1. CASE Leave(c) \/ StageFails(c) \/ TrackerSees(c)
  BY <1>1 DEF Leave, StageFails, TrackerSees, Of
<1>2. CASE ProbeEnds(c)
  BY <1>2, EndsEffect DEF ProbeEnds
<1>3. CASE BackfillEnds(c)
  <2>1. c \notin {d \in Peers(c) : AtWork(d)}
    BY DEF Peers
  <2> QED
    BY <1>3, <2>1, EndsEffect DEF BackfillEnds
<1>4. CASE TrackerEnds(c)
  <2>1. \A d \in Call : Of(d)' = Of(d)
    BY <1>4 DEF TrackerEnds, Of
  <2>2. \A d \in Call : why[d] \subseteq why'[d]
    BY <1>4, BlameEffect DEF TrackerEnds
  <2> QED
    BY <2>1, <2>2
<1> QED
  BY <1>1, <1>2, <1>3, <1>4 DEF WorkerStep, TrackerStep

\* A restart ends every call and every goroutine.
LEMMA RestartEffect ==
    ASSUME TaskTypeOK, Restart
    PROVE  /\ Grows
           /\ \A d \in Call : /\ call'[d].at = IF call[d].at = "free" THEN "free" ELSE "over"
                              /\ worker'[d] \in {"none", "ended"} \/ worker'[d] = worker[d]
                              /\ worker'[d] \notin {"working", "leaving", "failing"}
                              /\ worker'[d] # "none" => worker[d] # "none"
<1>1. ASSUME NEW d \in Call
      PROVE  /\ Of(d)' = Of(d)
             /\ call'[d].at = IF call[d].at = "free" THEN "free" ELSE "over"
  <2>1. call[d] \in [kind : Target, by : {"hand", "chain", "hook"}, at : Point]
    BY DEF TaskTypeOK
  <2>2. call'[d] = IF call[d].at = "free" THEN call[d] ELSE [call[d] EXCEPT !.at = "over"]
    BY DEF Restart
  <2> QED
    BY <2>1, <2>2 DEF Of
<1>2. \A d \in Call : why[d] \subseteq why'[d]
  BY BlameEffect DEF Restart
<1>3. \A d \in Call : worker'[d] = IF AtWork(d) THEN "ended" ELSE worker[d]
  BY DEF Restart
<1> QED
  BY <1>1, <1>2, <1>3 DEF Grows, AtWork

LEMMA OutsideGrows ==
    ASSUME TaskTypeOK,
           \/ \E k \in Target : Stop(k)
           \/ \E c \in Call : MaybeTriggerAutoProbe(c) \/ \E k \in Target : StartTask(c, k)
    PROVE  Grows
<1> USE DEF ghosts, Grows
<1>1. ASSUME NEW k \in Target, Stop(k) PROVE Grows
  <2>1. \A d \in Call : Of(d)' = Of(d)
    BY <1>1 DEF Stop, Of
  <2> QED
    BY <1>1, <2>1, BlameEffect DEF Stop
<1>2. ASSUME NEW c \in Call, MaybeTriggerAutoProbe(c) PROVE Grows
  BY <1>2, ArriveEffect DEF MaybeTriggerAutoProbe, Target
<1>3. ASSUME NEW c \in Call, NEW k \in Target, StartTask(c, k) PROVE Grows
  BY <1>3, ArriveEffect DEF StartTask
<1> QED
  BY <1>1, <1>2, <1>3

\* What is clean after a step was clean before it.
LEMMA CleanBefore ==
    ASSUME NEW k \in Target, Grows, Clean(k)'
    PROVE  Clean(k)
BY DEF Grows, Clean, Raced

\* A call on its way past the check or at work, kept so by a call's step.
LEMMA CallPoints ==
    ASSUME TaskTypeOK, PointsOK, NEW c \in Call, CallStep(c)
    PROVE  PointsOK'
<1> USE DEF Started
<1>0. \A d \in Call : Of(d)' = Of(d)
  BY CallGrows DEF Grows
<1>1. ASSUME NEW at \in Point \ {"free", "clear", "query"}, Go(c, at),
             \A d \in Call : worker'[d] # "none" => worker[d] # "none" \/ d = c
      PROVE  PointsOK'
  BY <1>0, <1>1, GoEffect DEF PointsOK
<1>2. ASSUME NEW at \in {"clear", "query"}, Go(c, at), Of(c) = "probe", UNCHANGED worker
      PROVE  PointsOK'
  BY <1>0, <1>2, GoEffect DEF PointsOK
<1>3. CASE Gate(c)
  BY <1>1, <1>3 DEF Gate, Point
<1>4. CASE ProbeCheck(c)
  BY <1>1, <1>2, <1>4 DEF ProbeCheck, Point
<1>5. CASE ProbeClear(c)
  BY <1>2, <1>5 DEF ProbeClear, PointsOK
<1>6. CASE ProbeStarts(c) \/ ProbeEmpty(c) \/ ProbeQueryFails(c)
  <2>1. \A d \in Call : worker'[d] # "none" => worker[d] # "none" \/ d = c
    BY <1>6 DEF ProbeStarts, ProbeEmpty, ProbeQueryFails, TaskTypeOK
  <2> QED
    BY <1>1, <1>6, <2>1 DEF ProbeStarts, ProbeEmpty, ProbeQueryFails, Point
<1>7. CASE BackfillStarts(c)
  <2>1. \A d \in Call : worker'[d] # "none" => worker[d] # "none" \/ d = c
    BY <1>7 DEF BackfillStarts, TaskTypeOK
  <2> QED
    BY <1>1, <1>7, <2>1 DEF BackfillStarts, Point
<1>8. CASE Begin(c) \/ BeginFails(c) \/ Publish(c) \/ Follow(c)
  BY <1>1, <1>8 DEF Begin, BeginFails, Publish, Follow, Point
<1> QED
  BY <1>3, <1>4, <1>5, <1>6, <1>7, <1>8 DEF CallStep

\* And by every step.
LEMMA NextPoints == TaskTypeOK /\ PointsOK /\ [TaskNext]_taskVars => PointsOK'
<1> SUFFICES ASSUME TaskTypeOK, PointsOK, [TaskNext]_taskVars PROVE PointsOK'
  OBVIOUS
<1>1. CASE UNCHANGED taskVars
  BY <1>1 DEF taskVars, PointsOK, Of
<1>2. ASSUME NEW c \in Call, WorkerStep(c) \/ TrackerStep(c) PROVE PointsOK'
  <2>1. UNCHANGED call
    BY <1>2 DEF WorkerStep, TrackerStep, Leave, ProbeEnds, StageFails, BackfillEnds, Ends,
                TrackerSees, TrackerEnds
  <2>2. worker[c] # "none" \/ UNCHANGED worker
    BY <1>2 DEF WorkerStep, TrackerStep, Leave, ProbeEnds, StageFails, BackfillEnds, AtWork,
                TrackerSees, TrackerEnds
  <2>3. \A d \in Call : d # c => worker'[d] = worker[d]
    BY <1>2 DEF WorkerStep, TrackerStep, Leave, ProbeEnds, StageFails, BackfillEnds, Ends,
                TrackerSees, TrackerEnds, TaskTypeOK
  <2> QED
    BY <2>1, <2>2, <2>3 DEF PointsOK, Of
<1>3. ASSUME NEW k \in Target, Stop(k) PROVE PointsOK'
  BY <1>3 DEF Stop, PointsOK, Of
<1>4. ASSUME NEW c \in Call, NEW k \in Target, NEW by, Arrive(c, k, by), UNCHANGED worker
      PROVE  PointsOK'
  <2>1. \A d \in Call : d # c => call'[d].at = call[d].at
    BY <1>4, ArriveEffect
  <2> QED
    BY <1>4, <2>1, ArriveEffect DEF PointsOK
<1>5. CASE Restart
  BY <1>5, RestartEffect DEF PointsOK, Grows
<1>6. ASSUME NEW c \in Call, MaybeTriggerAutoProbe(c) PROVE PointsOK'
  BY <1>4, <1>6 DEF MaybeTriggerAutoProbe, Target
<1>7. ASSUME NEW c \in Call, NEW k \in Target, StartTask(c, k) PROVE PointsOK'
  BY <1>4, <1>7 DEF StartTask
<1> QED
  BY <1>1, <1>2, <1>3, <1>4, <1>5, <1>6, <1>7, CallPoints
     DEF TaskNext, TaskStep

\* A call of Start lets no second run in, as long as no call of its task is
\* blamed: the check and the start of a probe are apart, and another call that
\* passed the check meanwhile is one that raced.
LEMMA CallAlone ==
    ASSUME WorkerInv, NEW c \in Call, CallStep(c), NEW k \in Target, Clean(k)'
    PROVE  Alone(k)'
<1> USE DEF Started
<1>0. TaskTypeOK /\ PointsOK /\ Alone(k) /\ Grows /\ Of(c) \in Target
  <2>1. TaskTypeOK /\ PointsOK
    BY DEF WorkerInv
  <2>2. Grows
    BY <2>1, CallGrows
  <2>3. Of(c) \in Target
    BY <2>1 DEF Of, TaskTypeOK
  <2> QED
    BY <2>1, <2>2, <2>3, CleanBefore DEF WorkerInv
<1>1. ASSUME NEW at \in Point, Go(c, at), UNCHANGED worker, Runs(k) => Runs(k)',
             at \in {"clear", "query"} => call[c].at \in {"clear", "query"}
      PROVE  Alone(k)'
  <2>1. \A d \in Call : Inside(d)' => Inside(d)
    BY <1>0, <1>1, GoEffect DEF Inside
  <2> QED
    BY <1>0, <1>1, <2>1, Settled DEF Grows
<1>2. ASSUME NEW at \in Point, Go(c, at),
             Of(c) # k \/ \A d \in Call : d # c /\ Of(d) = k => ~Inside(d),
             \A d \in Call : d # c => worker'[d] = worker[d],
             Of(c) # k /\ Runs(k) => Runs(k)',
             Of(c) = k /\ worker'[c] \in {"working", "leaving"} => Runs(k)'
      PROVE  Alone(k)'
  <2>1. \A d \in Call : d # c => (Inside(d)' <=> Inside(d))
    BY <1>0, <1>2, GoEffect DEF Inside
  <2>2. CASE Of(c) = k
    BY <1>0, <1>2, <2>1, <2>2, Lone DEF Grows
  <2>3. CASE Of(c) # k
    BY <1>0, <1>2, <2>1, <2>3, Settled DEF Grows
  <2> QED
    BY <2>2, <2>3
<1>3. CASE Gate(c)
  BY <1>1, <1>3 DEF Gate, Runs, Point
<1>4. CASE ProbeCheck(c)
  <2>1. CASE Runs("probe")
    BY <1>1, <1>4, <2>1 DEF ProbeCheck, Runs, Point
  <2>2. CASE ~Runs("probe") /\ k = "probe"
    <3>1. Go(c, "clear") /\ UNCHANGED <<worker, progress>>
      BY <1>4, <2>2 DEF ProbeCheck
    <3>2. ASSUME NEW d \in Call, d # c, Of(d) = k, Inside(d) PROVE FALSE
      <4>1. call[d].at \in {"clear", "query"}
        BY <1>0, <2>2, <3>2 DEF Alone, Inside
      <4>2. d \in Peers(c) /\ call[d].at \in {"clear", "query"}
        BY <1>4, <2>2, <3>2, <4>1 DEF Peers, ProbeCheck
      <4>3. "raced" \in why'[d]
        <5> DEFINE inside == {e \in Peers(c) : call[e].at \in {"clear", "query"}}
        <5>1. d \in inside
          BY <4>2
        <5>2. Blame(inside \cup {c}, "raced")
          BY <1>4, <2>2, <5>1 DEF ProbeCheck
        <5> HIDE DEF inside
        <5> QED
          BY <1>0, <5>1, <5>2, BlameEffect
      <4> QED
        BY <1>0, <3>2, <4>3 DEF Clean, Raced, Grows
    <3>3. worker[c] \notin {"working", "leaving"}
      BY <1>0, <1>4, <2>2 DEF Alone, ProbeCheck
    <3>4. Of(c) = k /\ "clear" \in Point
      BY <1>4, <2>2 DEF ProbeCheck, Point
    <3> QED
      BY <1>2, <3>1, <3>2, <3>3, <3>4
  <2>3. CASE ~Runs("probe") /\ k # "probe"
    BY <1>2, <1>4, <2>3 DEF ProbeCheck, Runs, Point
  <2> QED
    BY <2>1, <2>2, <2>3
<1>5. CASE ProbeClear(c)
  <2>1. Runs(k) => Runs(k)'
    BY <1>0, <1>5 DEF ProbeClear, Runs, TaskTypeOK
  <2> QED
    BY <1>1, <1>5, <2>1 DEF ProbeClear, Point
<1>6. CASE ProbeStarts(c) \/ ProbeEmpty(c)
  <2>1. Of(c) = "probe" /\ Inside(c)
    BY <1>0, <1>6 DEF PointsOK, Inside, ProbeStarts, ProbeEmpty
  <2>2. k = "probe" => \A d \in Call : d # c /\ Of(d) = k => ~Inside(d)
    BY <1>0, <2>1 DEF Alone
  <2>3. \A d \in Call : d # c => worker'[d] = worker[d]
    BY <1>0, <1>6 DEF ProbeStarts, ProbeEmpty, TaskTypeOK
  <2>4. k # "probe" /\ Runs(k) => Runs(k)'
    BY <1>0, <1>6 DEF ProbeStarts, ProbeEmpty, Runs, TaskTypeOK
  <2>5. worker'[c] \in {"working", "leaving"} => Runs("probe")'
    BY <1>0, <1>6 DEF ProbeStarts, ProbeEmpty, Runs, TaskTypeOK, Target
  <2>6. \E at \in Point : Go(c, at)
    BY <1>6 DEF ProbeStarts, ProbeEmpty, Point
  <2> QED
    BY <1>2, <2>1, <2>2, <2>3, <2>4, <2>5, <2>6
<1>7. CASE ProbeQueryFails(c)
  BY <1>1, <1>7 DEF ProbeQueryFails, Runs, Point
<1>8. CASE BackfillStarts(c)
  <2>1. CASE Runs("backfill")
    BY <1>1, <1>8, <2>1 DEF BackfillStarts, Runs, Point
  <2>2. CASE ~Runs("backfill")
    <3>1. Of(c) = "backfill"
      BY <1>8 DEF BackfillStarts
    <3>2. k = "backfill" => \A d \in Call : d # c /\ Of(d) = k => ~Inside(d)
      BY <1>0, <2>2 DEF Alone, Inside, PointsOK
    <3>3. \A d \in Call : d # c => worker'[d] = worker[d]
      BY <1>0, <1>8, <2>2 DEF BackfillStarts, TaskTypeOK
    <3>4. k # "backfill" /\ Runs(k) => Runs(k)'
      BY <1>0, <1>8, <2>2 DEF BackfillStarts, Runs, TaskTypeOK
    <3>5. Runs("backfill")'
      <4>1. progress' = [progress EXCEPT !["backfill"] = [Idle EXCEPT !.status = "running"]]
        BY <1>8, <2>2 DEF BackfillStarts
      <4>2. progress'["backfill"] = [Idle EXCEPT !.status = "running"]
        BY <1>0, <4>1 DEF TaskTypeOK, Target
      <4> QED
        BY <4>2 DEF Runs, Idle
    <3>6. \E at \in Point : Go(c, at)
      BY <1>8, <2>2 DEF BackfillStarts, Point
    <3> QED
      BY <1>2, <3>1, <3>2, <3>3, <3>4, <3>5, <3>6
  <2> QED
    BY <2>1, <2>2
<1>9. CASE Begin(c) \/ BeginFails(c) \/ Publish(c) \/ Follow(c)
  BY <1>1, <1>9 DEF Begin, BeginFails, Publish, Follow, Runs, Point
<1> QED
  BY <1>3, <1>4, <1>5, <1>6, <1>7, <1>8, <1>9 DEF CallStep

\* A goroutine's steps do not bring another in: while no call is blamed the one
\* that ends was alone, and a run it gives its end to would be blamed.
LEMMA WorkAlone ==
    ASSUME WorkerInv, NEW c \in Call, WorkerStep(c) \/ TrackerStep(c), NEW k \in Target, Clean(k)'
    PROVE  Alone(k)'
<1>0. TaskTypeOK /\ PointsOK /\ Alone(k) /\ Grows
  <2>1. TaskTypeOK /\ PointsOK
    BY DEF WorkerInv
  <2>2. Grows
    BY <2>1, WorkGrows
  <2> QED
    BY <2>1, <2>2, CleanBefore DEF WorkerInv
<1>1. UNCHANGED call
  BY DEF WorkerStep, TrackerStep, Leave, ProbeEnds, StageFails, BackfillEnds, Ends, TrackerSees,
         TrackerEnds
<1>2. ASSUME \A d \in Call : worker'[d] \in {"working", "leaving"} => worker[d] \in {"working", "leaving"},
             Runs(k) => Runs(k)'
      PROVE  Alone(k)'
  <2>1. \A d \in Call : Inside(d)' => Inside(d)
    BY <1>1, <1>2 DEF Inside
  <2> QED
    BY <1>0, <1>2, <2>1, Settled DEF Grows
<1>3. ASSUME \A d \in Call : d # c => worker'[d] = worker[d],
             worker'[c] \in {"ended", "failing"},
             \A d \in Call : d # c /\ Of(d) = k => ~Inside(d)
      PROVE  Alone(k)'
  <2>1. \A d \in Call : d # c /\ Of(d) = k => ~Inside(d)'
    BY <1>1, <1>3 DEF Inside
  <2>2. worker'[c] \notin {"working", "leaving"}
    BY <1>3
  <2> QED
    BY <1>0, <2>1, <2>2, Lone DEF Grows
<1>4. CASE Leave(c)
  <2>1. \A d \in Call : worker'[d] \in {"working", "leaving"} => worker[d] \in {"working", "leaving"}
    BY <1>0, <1>4 DEF Leave, TaskTypeOK
  <2> QED
    BY <1>2, <1>4, <2>1 DEF Leave, Runs
<1>5. CASE TrackerStep(c)
  BY <1>2, <1>5 DEF TrackerStep, TrackerSees, TrackerEnds, Runs
<1>6. CASE ProbeEnds(c) \/ StageFails(c) \/ BackfillEnds(c)
  <2>1. \A d \in Call : d # c => worker'[d] = worker[d]
    BY <1>0, <1>6 DEF ProbeEnds, StageFails, BackfillEnds, Ends, TaskTypeOK
  <2>2. worker'[c] \in {"ended", "failing"}
    BY <1>0, <1>6 DEF ProbeEnds, StageFails, BackfillEnds, Ends, TaskTypeOK
  <2>3. CASE Of(c) # k
    <3>1. Runs(k) => Runs(k)'
      BY <1>0, <1>6, <2>3 DEF ProbeEnds, StageFails, BackfillEnds, Runs, TaskTypeOK
    <3> QED
      BY <1>2, <2>1, <2>2, <3>1
  <2>4. CASE Of(c) = k /\ worker[c] \in {"working", "leaving"}
    BY <1>0, <1>3, <2>1, <2>2, <2>4 DEF Alone, Inside
  <2>5. CASE Of(c) = k /\ worker[c] \notin {"working", "leaving"}
    <3>1. BackfillEnds(c) /\ k = "backfill"
      BY <1>6, <2>5 DEF ProbeEnds, StageFails, BackfillEnds
    <3>2. ASSUME NEW d \in Call, d # c, Of(d) = k, Inside(d) PROVE FALSE
      <4> DEFINE stamped == {e \in Peers(c) : AtWork(e)}
      <4>1. worker[d] \in {"working", "leaving"}
        BY <1>0, <3>1, <3>2 DEF Inside, PointsOK
      <4>2. d \in stamped
        BY <1>0, <2>5, <3>2, <4>1 DEF Peers, AtWork, PointsOK
      <4>3. Ends(c, stamped) /\ c \notin stamped
        BY <3>1 DEF BackfillEnds, Peers
      <4> HIDE DEF stamped
      <4>4. "stamped" \in why'[d]
        BY <1>0, <4>2, <4>3, EndsEffect
      <4> QED
        BY <1>0, <3>2, <4>4 DEF Clean, Raced, Grows
    <3> QED
      BY <1>3, <2>1, <2>2, <3>2
  <2> QED
    BY <2>3, <2>4, <2>5
<1> QED
  BY <1>4, <1>5, <1>6 DEF WorkerStep

\* What comes from outside does not bring one in either.
LEMMA OutsideAlone ==
    ASSUME WorkerInv, NEW k \in Target, Clean(k)',
           \/ \E j \in Target : Stop(j)
           \/ \E c \in Call : MaybeTriggerAutoProbe(c) \/ \E j \in Target : StartTask(c, j)
           \/ Restart
    PROVE  Alone(k)'
<1>0. TaskTypeOK /\ PointsOK /\ Alone(k) /\ Grows
  <2>1. TaskTypeOK /\ PointsOK
    BY DEF WorkerInv
  <2>2. Grows
    BY <2>1, OutsideGrows, RestartEffect
  <2> QED
    BY <2>1, <2>2, CleanBefore DEF WorkerInv
<1>1. ASSUME NEW j \in Target, Stop(j) PROVE Alone(k)'
  <2>1. Runs(k) => Runs(k)'
    BY <1>0, <1>1 DEF Stop, Runs, TaskTypeOK
  <2> QED
    BY <1>0, <1>1, <2>1, Settled DEF Stop, Inside, Grows
<1>2. ASSUME NEW c \in Call, NEW j \in Target, NEW by, Arrive(c, j, by),
             UNCHANGED <<worker, progress>>
      PROVE  Alone(k)'
  <2>1. \A d \in Call : Inside(d)' => Inside(d)
    BY <1>0, <1>2, ArriveEffect DEF Inside
  <2> QED
    BY <1>0, <1>2, <2>1, Settled DEF Grows, Runs
<1>3. CASE Restart
  <2>1. \A d \in Call : ~Inside(d)'
    BY <1>0, <1>3, RestartEffect DEF Inside
  <2> QED
    BY <2>1 DEF Alone, Inside
<1>4. ASSUME NEW c \in Call, MaybeTriggerAutoProbe(c) PROVE Alone(k)'
  BY <1>2, <1>4 DEF MaybeTriggerAutoProbe, Target
<1>5. ASSUME NEW c \in Call, NEW j \in Target, StartTask(c, j) PROVE Alone(k)'
  BY <1>2, <1>5 DEF StartTask
<1> QED
  BY <1>1, <1>3, <1>4, <1>5

\* WorkerInv is inductive.
LEMMA NextWorker == WorkerInv /\ [TaskNext]_taskVars => WorkerInv'
<1> SUFFICES ASSUME WorkerInv, [TaskNext]_taskVars PROVE WorkerInv'
  OBVIOUS
<1>1. TaskTypeOK' /\ PointsOK'
  BY NextTyped, NextPoints DEF WorkerInv
<1>2. ASSUME NEW k \in Target, Clean(k)' PROVE Alone(k)'
  <2>1. CASE UNCHANGED taskVars
    <3>1. Clean(k)
      BY <1>2, <2>1 DEF taskVars, ghosts, Clean, Raced, Of
    <3>2. Alone(k)
      BY <3>1 DEF WorkerInv
    <3> QED
      BY <2>1, <3>2 DEF taskVars, Alone, Inside, Runs, Of
  <2>2. CASE TaskNext
    BY <1>2, <2>2, CallAlone, WorkAlone, OutsideAlone DEF TaskNext, TaskStep
  <2> QED
    BY <2>1, <2>2
<1> QED
  BY <1>1, <1>2 DEF WorkerInv

LEMMA InitWorker == TaskInit => WorkerInv
<1> SUFFICES ASSUME TaskInit PROVE WorkerInv
  OBVIOUS
<1>1. TaskTypeOK
  BY InitTyped
<1>2. \A c \in Call : call[c].at = "free" /\ worker[c] = "none"
  BY DEF TaskInit
<1> QED
  BY <1>1, <1>2 DEF WorkerInv, PointsOK, Alone, Inside

\* Two runs of a task are at work at once only after a race that a call shows
\* (probe_task.go:68, backfill_task.go:123).
THEOREM WorkersAlone == TaskSpec => []OneWorker
<1>1. WorkerInv => OneWorker
  <2> SUFFICES ASSUME WorkerInv, NEW c \in Call, NEW d \in Call, c # d, Of(c) = Of(d),
                      worker[c] \in {"working", "leaving"}, worker[d] = "working",
                      \A e \in Call : Of(e) = Of(c) => ~Raced(e)
               PROVE  FALSE
    BY DEF OneWorker, Raced
  <2>1. Of(c) \in Target
    BY DEF WorkerInv, TaskTypeOK, Of
  <2>2. Alone(Of(c))
    BY <2>1 DEF WorkerInv, Clean
  <2> QED
    BY <2>2 DEF Alone, Inside
<1>2. TaskSpec => TaskInit /\ [][TaskNext]_taskVars
  BY DEF TaskSpec, TaskNext
<1> QED
  BY <1>1, <1>2, InitWorker, NextWorker, PTL

-----------------------------------------------------------------------------
(* The rows: which of them can be left running.                            *)

\* A call that a step leaves where it is, with what it had, stays good.
LEMMA Unmoved ==
    ASSUME NEW d \in Call, Good(d), Grows, UNCHANGED <<tracker[d], row[d]>>,
           call'[d].at = call[d].at,
           AtWork(d) => AtWork(d)',
           current[Of(d)] = d /\ row[d] = "running" => current'[Of(d)] = d \/ Lost(d)'
    PROVE  Good(d)'
<1> USE DEF Good, Grows
<1>1. ~Lost(d)' => ~Lost(d)
  BY DEF Lost
<1>2. Placed(d)'
  BY DEF Placed
<1>3. Backed(d)'
  BY DEF Backed
<1>4. Held(d)'
  BY <1>1 DEF Held
<1>5. Watched(d)'
  BY <1>1 DEF Watched
<1> QED
  BY <1>2, <1>3, <1>4, <1>5

\* A call whose row is not open yet stays good wherever it goes before that,
\* and so does one whose Start ends without a row.
LEMMA NoRow ==
    ASSUME NEW c \in Call, row'[c] = "none", tracker'[c] = "none",
           call'[c].at \notin {"publish", "reset"},
           call'[c].at = "begin" => AtWork(c)' \/ "quick" \in why'[c]
    PROVE  Good(c)'
BY DEF Good, Placed, Backed, Held, Watched

\* The steps of a call of Start.
LEMMA CallGood ==
    ASSUME FollowInv, NEW c \in Call, CallStep(c), NEW d \in Call
    PROVE  Good(d)'
<1> USE DEF Started
<1>0. TaskTypeOK /\ Good(d) /\ Good(c) /\ Grows
  BY CallGrows DEF FollowInv
<1>1. PICK at \in Point : Go(c, at)
  BY DEF CallStep, Gate, ProbeCheck, ProbeClear, ProbeStarts, ProbeEmpty, ProbeQueryFails,
         BackfillStarts, Begin, BeginFails, Publish, Follow, Point
<1>2. call'[c].at = at /\ (d # c => call'[d].at = call[d].at)
  BY <1>0, <1>1, GoEffect
<1>3. CASE d # c
  <2>1. UNCHANGED <<tracker[d], row[d], worker[d]>>
    BY <1>0, <1>3 DEF CallStep, Gate, ProbeCheck, ProbeClear, ProbeStarts, ProbeEmpty, ProbeQueryFails,
         BackfillStarts, Begin, BeginFails, Publish, Follow, TaskTypeOK
  <2>2. current[Of(d)] = d => current'[Of(d)] = d \/ Lost(d)'
    <3>1. CASE Publish(c)
      <4>1. CASE Of(d) = Of(c) /\ current[Of(d)] = d
        <5>1. d # NoCall
          BY TaskRunsAssumption
        <5>2. Blame({c, d}, "displaced")
          BY <3>1, <4>1, <5>1 DEF Publish
        <5> QED
          BY <1>0, <5>2, BlameEffect DEF Lost
      <4>2. CASE Of(d) # Of(c)
        BY <1>0, <3>1, <4>2 DEF Publish, TaskTypeOK
      <4> QED
        BY <4>1, <4>2
    <3>2. CASE ~Publish(c)
      BY <3>2 DEF CallStep, Gate, ProbeCheck, ProbeClear, ProbeStarts, ProbeEmpty, ProbeQueryFails,
         BackfillStarts, Begin, BeginFails, Follow
    <3> QED
      BY <3>1, <3>2
  <2>3. AtWork(d) => AtWork(d)'
    BY <2>1 DEF AtWork
  <2> QED
    BY <1>0, <1>2, <1>3, <2>1, <2>2, <2>3, Unmoved
<1>4. CASE d = c
  <2>1. CASE Gate(c) \/ ProbeCheck(c) \/ ProbeClear(c) \/ ProbeQueryFails(c) \/ BeginFails(c)
    <3>1. call'[c].at \notin {"begin", "publish", "reset"}
      BY <1>0, <2>1, GoEffect DEF Gate, ProbeCheck, ProbeClear, ProbeQueryFails, BeginFails
    <3>2. row'[c] = "none" /\ tracker'[c] = "none"
      BY <1>0, <2>1 DEF Gate, ProbeCheck, ProbeClear, ProbeQueryFails, BeginFails, Good, Placed
    <3> QED
      BY <1>4, <3>1, <3>2, NoRow
  <2>2. CASE ProbeStarts(c) \/ ProbeEmpty(c) \/ BackfillStarts(c)
    <3>1. call'[c].at \in {"over", "begin"}
      BY <1>0, <2>2, GoEffect DEF ProbeStarts, ProbeEmpty, BackfillStarts
    <3>2. row'[c] = "none" /\ tracker'[c] = "none"
      BY <1>0, <2>2 DEF ProbeStarts, ProbeEmpty, BackfillStarts, Good, Placed
    <3>3. call'[c].at = "begin" => AtWork(c)' \/ "quick" \in why'[c]
      <4>1. ProbeEmpty(c) => "quick" \in why'[c]
        BY <1>0, OverlayEffect DEF ProbeEmpty
      <4>2. ProbeStarts(c) => AtWork(c)'
        BY <1>0 DEF ProbeStarts, AtWork, TaskTypeOK
      <4>3. BackfillStarts(c) => AtWork(c)' \/ call'[c].at = "over"
        BY <1>0, GoEffect DEF BackfillStarts, AtWork, TaskTypeOK
      <4> QED
        BY <2>2, <4>1, <4>2, <4>3
    <3> QED
      BY <1>4, <3>1, <3>2, <3>3, NoRow
  <2>3. CASE Begin(c)
    <3>1. call[c].at = "begin" /\ call'[c].at = "publish" /\ UNCHANGED <<tracker, worker, why>>
      BY <1>0, <2>3, GoEffect DEF Begin, ghosts
    <3> QED
      BY <1>0, <1>4, <3>1 DEF Good, Placed, Backed, Held, Watched, AtWork
  <2>4. CASE Publish(c)
    <3>1. call[c].at = "publish" /\ call'[c].at = "reset" /\ UNCHANGED <<tracker, worker, row>>
      BY <1>0, <2>4, GoEffect DEF Publish
    <3>2. Of(c) = "backfill" => current'["backfill"] = c
      BY <1>0, <2>4 DEF Publish, TaskTypeOK, Target
    <3>3. Of(c)' = Of(c) /\ why[c] \subseteq why'[c]
      BY <1>0 DEF Grows
    <3> QED
      BY <1>0, <1>4, <3>1, <3>2, <3>3 DEF Good, Placed, Backed, Held, Watched, AtWork
  <2>5. CASE Follow(c)
    <3>1. call[c].at = "reset" /\ call'[c].at = "over" /\ UNCHANGED <<worker, row, current>>
      BY <1>0, <2>5, GoEffect DEF Follow
    <3>2. tracker'[c] = "waiting"
      BY <1>0, <2>5 DEF Follow, TaskTypeOK
    <3>3. Of(c)' = Of(c) /\ why[c] \subseteq why'[c]
      BY <1>0 DEF Grows
    <3>4. ~Lost(c)' => ~Lost(c)
      BY <3>3 DEF Lost
    <3>5. Of(c) \in {"probe", "backfill"}
      BY <1>0 DEF TaskTypeOK, Of, Target
    <3>6. Placed(c)' /\ Backed(c)'
      BY <1>0, <3>1, <3>2, <3>3 DEF Good, Placed, Backed, AtWork
    <3>7. Held(c)'
      BY <1>0, <3>1, <3>2, <3>3, <3>4 DEF Good, Held
    <3>8. Watched(c)'
      BY <1>0, <3>1, <3>2, <3>3, <3>4, <3>5 DEF Good, Backed, Held, Watched, AtWork
    <3> QED
      BY <1>4, <3>6, <3>7, <3>8 DEF Good
  <2> QED
    BY <2>1, <2>2, <2>3, <2>4, <2>5 DEF CallStep
<1> QED
  BY <1>3, <1>4

\* The steps of a goroutine and of a tracker: a run that ends unseen was quick,
\* and a tracker that ends closes the row it is for, or could not write it.
LEMMA WorkGood ==
    ASSUME FollowInv, NEW c \in Call, WorkerStep(c) \/ TrackerStep(c), NEW d \in Call
    PROVE  Good(d)'
<1>0. TaskTypeOK /\ Good(d) /\ Good(c) /\ Grows
  BY WorkGrows DEF FollowInv
<1>1. UNCHANGED call
  BY DEF WorkerStep, TrackerStep, Leave, ProbeEnds, StageFails, BackfillEnds, Ends, TrackerSees,
         TrackerEnds
<1>2. CASE Leave(c) \/ StageFails(c)
  <2>1. AtWork(d) => AtWork(d)'
    BY <1>0, <1>2 DEF Leave, StageFails, AtWork, TaskTypeOK
  <2> QED
    BY <1>0, <1>1, <1>2, <2>1, Unmoved DEF Leave, StageFails
<1>3. CASE ProbeEnds(c) \/ BackfillEnds(c)
  <2>0. PICK stamped : c \notin stamped /\ Ends(c, stamped)
    BY <1>3 DEF ProbeEnds, BackfillEnds, Peers
  <2>1. UNCHANGED <<tracker, row, current>>
    BY <2>0 DEF Ends
  <2>2. CASE d # c
    <3>1. AtWork(d) => AtWork(d)'
      BY <1>0, <2>0, <2>2, EndsEffect DEF AtWork
    <3> QED
      BY <1>0, <1>1, <2>1, <3>1, Unmoved
  <2>3. CASE d = c /\ tracker[c] # "seen"
    <3>1. "quick" \in why'[c]
      BY <1>0, <2>0, <2>3, EndsEffect
    <3>2. ~Lost(c)' => ~Lost(c)
      BY <1>0 DEF Grows, Lost
    <3> QED
      BY <1>0, <1>1, <2>1, <2>3, <3>1, <3>2 DEF Good, Placed, Backed, Held, Watched, Grows
  <2>4. CASE d = c /\ tracker[c] = "seen"
    <3>1. ~Lost(c)' => ~Lost(c)
      BY <1>0 DEF Grows, Lost
    <3>2. call[c].at = "over"
      BY <1>0, <2>4 DEF Good, Placed
    <3> QED
      BY <1>0, <1>1, <2>1, <2>4, <3>1, <3>2 DEF Good, Placed, Backed, Held, Watched, Grows
  <2> QED
    BY <2>2, <2>3, <2>4
<1>4. CASE TrackerSees(c)
  <2>1. UNCHANGED <<row, current, worker, why>>
    BY <1>4 DEF TrackerSees, ghosts
  <2>2. CASE d # c
    <3>1. tracker'[d] = tracker[d]
      BY <1>0, <1>4, <2>2 DEF TrackerSees, TaskTypeOK
    <3> QED
      BY <1>0, <1>1, <2>1, <3>1, Unmoved DEF AtWork
  <2>3. CASE d = c
    <3>1. tracker[c] = "waiting" /\ tracker'[c] = "seen"
      BY <1>0, <1>4 DEF TrackerSees, TaskTypeOK
    <3> QED
      BY <1>0, <1>1, <2>1, <2>3, <3>1 DEF Good, Placed, Backed, Held, Watched, AtWork, Of, Lost
  <2> QED
    BY <2>2, <2>3
<1>5. CASE TrackerEnds(c)
  <2>0. Of(c) \in Target /\ Of(d) \in Target /\ ~Runs(Of(c)) /\ tracker[c] = "seen"
    BY <1>0, <1>5 DEF TrackerEnds, TaskTypeOK, Of
  <2>1. Final(Of(c)) # "running"
    BY <1>0, <2>0, FinalType
  <2>2. d \in Closes(c) => row'[d] # "running" \/ Lost(d)'
    <3>1. CASE Spend("error") /\ Blame(Closes(c), "unwritten")
      BY <1>0, <3>1, BlameEffect DEF Lost
    <3>2. CASE row' = [e \in Call |-> IF e \in Closes(c) /\ row[e] = "running"
                                      THEN Final(Of(c)) ELSE row[e]]
      BY <2>1, <3>2
    <3> QED
      BY <1>5, <3>1, <3>2 DEF TrackerEnds
  <2>3. row'[d] = row[d] \/ (row[d] = "running" /\ row'[d] # "running")
    BY <1>5, <2>1 DEF TrackerEnds
  <2>4. UNCHANGED worker /\ (d # c => tracker'[d] = tracker[d]) /\ tracker'[c] = "none"
    BY <1>0, <1>5 DEF TrackerEnds, TaskTypeOK
  <2>5. Of(d) # Of(c) => current'[Of(d)] = current[Of(d)]
    BY <1>0, <1>5 DEF TrackerEnds, TaskTypeOK
  <2>6. ~Lost(d)' => ~Lost(d)
    BY <1>0 DEF Grows, Lost
  <2>7. row'[d] = "running" /\ ~Lost(d)' => d \notin Closes(c) /\ row[d] = "running" /\ ~Lost(d)
    BY <2>2, <2>3, <2>6
  <2>8. Closes(c) = IF Of(c) = "probe" THEN {c} ELSE {current["backfill"]} \cap Call
    BY DEF Closes
  <2>9. Placed(d)'
    <3>1. call[d].at \notin {"publish", "reset", "over"} => row'[d] = "none"
      BY <1>0, <2>3 DEF Good, Placed
    <3> QED
      BY <1>0, <1>1, <2>4, <3>1 DEF Good, Placed
  <2>10. Backed(d)'
    BY <1>0, <1>1, <2>4 DEF Good, Backed, AtWork, Grows
  <2>11. Held(d)'
    <3>1. SUFFICES ASSUME Of(d) = "backfill", row'[d] = "running", ~Lost(d)',
                          call[d].at = "reset" \/ tracker'[d] # "none"
                   PROVE  current'["backfill"] = d
      BY <1>0, <1>1 DEF Held, Grows
    <3>2. current["backfill"] = d
      BY <1>0, <2>4, <2>7, <3>1 DEF Good, Held
    <3>3. Of(c) = "probe"
      BY <2>0, <2>7, <2>8, <3>1, <3>2 DEF Target
    <3> QED
      BY <2>5, <3>1, <3>2, <3>3
  <2>12. Watched(d)'
    <3>1. SUFFICES ASSUME row'[d] = "running", "quick" \notin why'[d], ~Lost(d)',
                          call[d].at \notin {"publish", "reset"}
                   PROVE  /\ current'[Of(d)] = d \/ Of(d) = "probe"
                          /\ tracker'[d] = "seen" \/ (tracker'[d] = "waiting" /\ AtWork(d))
      BY <1>0, <1>1, <2>4 DEF Watched, Grows, AtWork
    <3>2. /\ current[Of(d)] = d \/ Of(d) = "probe"
          /\ tracker[d] = "seen" \/ (tracker[d] = "waiting" /\ AtWork(d))
      BY <1>0, <2>7, <3>1 DEF Good, Watched, Grows
    <3>3. d # c
      <4>1. CASE Of(c) = "probe"
        BY <2>7, <2>8, <3>1, <4>1
      <4>2. CASE Of(c) = "backfill"
        BY <2>7, <2>8, <3>1, <3>2, <4>2
      <4> QED
        BY <2>0, <4>1, <4>2 DEF Target
    <3>4. Of(d) = "backfill" => Of(c) # "backfill"
      BY <2>7, <2>8, <3>1, <3>2
    <3> QED
      BY <2>0, <2>4, <2>5, <3>2, <3>3, <3>4 DEF Target
  <2> QED
    BY <2>9, <2>10, <2>11, <2>12 DEF Good
<1> QED
  BY <1>2, <1>3, <1>4, <1>5 DEF WorkerStep, TrackerStep

\* What comes from outside: a call that arrives has no row, and a restart closes
\* the rows, or could not write them.
LEMMA OutsideGood ==
    ASSUME FollowInv, NEW d \in Call,
           \/ \E k \in Target : Stop(k)
           \/ \E c \in Call : MaybeTriggerAutoProbe(c) \/ \E k \in Target : StartTask(c, k)
           \/ Restart
    PROVE  Good(d)'
<1>0. TaskTypeOK /\ Good(d) /\ Grows
  BY OutsideGrows, RestartEffect DEF FollowInv
<1>1. ASSUME NEW k \in Target, Stop(k) PROVE Good(d)'
  BY <1>0, <1>1, Unmoved DEF Stop, AtWork
<1>2. ASSUME NEW c \in Call, NEW k \in Target, NEW by, Arrive(c, k, by),
             UNCHANGED <<worker, tracker, row, current>>
      PROVE  Good(d)'
  <2>1. CASE d = c
    <3>1. row'[d] = "none" /\ tracker'[d] = "none"
      BY <1>0, <1>2, <2>1, ArriveEffect DEF Good, Placed
    <3>2. call'[d].at \in {"start", "gate"}
      BY <1>0, <1>2, <2>1, ArriveEffect
    <3> QED
      BY <3>1, <3>2, NoRow
  <2>2. CASE d # c
    <3>1. call'[d] = call[d]
      BY <1>0, <1>2, <2>2, ArriveEffect
    <3> QED
      BY <1>0, <1>2, <3>1, Unmoved DEF AtWork
  <2> QED
    BY <2>1, <2>2
<1>3. CASE Restart
  <2>1. call'[d].at \in {"free", "over"} /\ (call'[d].at = "free" => call[d].at = "free")
    BY <1>0, <1>3, RestartEffect
  <2>2. tracker'[d] = "none"
    BY <1>3 DEF Restart
  <2>3. row'[d] = "running" => Lost(d)'
    <3>1. CASE row' = [c \in Call |-> Reconciled(row[c])]
      BY <3>1 DEF Reconciled
    <3>2. CASE UNCHANGED row /\ Blame({c \in Call : row[c] = "running"}, "unwritten")
      BY <1>0, <3>2, BlameEffect DEF Lost
    <3> QED
      BY <1>3, <3>1, <3>2 DEF Restart
  <2>4. call'[d].at = "free" => row'[d] = "none"
    <3>1. row[d] = "none" => row'[d] = "none"
      BY <1>3 DEF Restart, Reconciled
    <3> QED
      BY <1>0, <2>1, <3>1 DEF Good, Placed
  <2> QED
    BY <2>1, <2>2, <2>3, <2>4 DEF Good, Placed, Backed, Held, Watched
<1>4. ASSUME NEW c \in Call, MaybeTriggerAutoProbe(c) PROVE Good(d)'
  BY <1>2, <1>4 DEF MaybeTriggerAutoProbe, Target
<1>5. ASSUME NEW c \in Call, NEW k \in Target, StartTask(c, k) PROVE Good(d)'
  BY <1>2, <1>5 DEF StartTask
<1> QED
  BY <1>1, <1>3, <1>4, <1>5

\* FollowInv is inductive.
LEMMA NextFollow == FollowInv /\ [TaskNext]_taskVars => FollowInv'
<1> SUFFICES ASSUME FollowInv, [TaskNext]_taskVars PROVE FollowInv'
  OBVIOUS
<1>1. TaskTypeOK'
  BY NextTyped DEF FollowInv
<1>2. ASSUME NEW d \in Call PROVE Good(d)'
  <2>1. CASE UNCHANGED taskVars
    BY <2>1 DEF FollowInv, Good, Placed, Backed, Held, Watched, Lost, AtWork, Of, taskVars, ghosts
  <2>2. CASE TaskNext
    BY <2>2, CallGood, WorkGood, OutsideGood DEF TaskNext, TaskStep
  <2> QED
    BY <2>1, <2>2
<1> QED
  BY <1>1, <1>2 DEF FollowInv

LEMMA InitFollow == TaskInit => FollowInv
<1> SUFFICES ASSUME TaskInit PROVE FollowInv
  OBVIOUS
<1>1. TaskTypeOK
  BY InitTyped
<1>2. \A c \in Call : call[c].at = "free" /\ tracker[c] = "none" /\ row[c] = "none"
  BY DEF TaskInit
<1> QED
  BY <1>1, <1>2 DEF FollowInv, Good, Placed, Backed, Held, Watched

\* A row that says running is being opened or followed by a tracker that will
\* close it, but for the runs that were quick, displaced or could not be
\* written (adapters/tracker.go:33, adapters/backfill.go:246).
THEOREM RowsFollowed == TaskSpec => []RunFollowed
<1>1. FollowInv => RunFollowed
  BY DEF FollowInv, Good, Watched, Lost, RunFollowed
<1>2. TaskSpec => TaskInit /\ [][TaskNext]_taskVars
  BY DEF TaskSpec, TaskNext
<1> QED
  BY <1>1, <1>2, InitFollow, NextFollow, PTL

-----------------------------------------------------------------------------
(* The last word of a row: when it is that of the run.                     *)

\* The adapters keep calls whose rows are followed.
LEMMA NextOwners ==
    ASSUME FollowInv, OwnersOK, [TaskNext]_taskVars
    PROVE  OwnersOK'
<1> SUFFICES ASSUME NEW k \in Target, NEW d \in Call, current'[k] = d
             PROVE  Of(d)' = k /\ (call'[d].at = "reset" \/ tracker'[d] # "none")
  BY DEF OwnersOK
<1>0. TaskTypeOK /\ Good(d) /\ d # NoCall
  BY TaskRunsAssumption DEF FollowInv
<1>1. CASE UNCHANGED taskVars
  BY <1>1 DEF taskVars, OwnersOK, Of
<1>2. ASSUME Grows, current[k] = d, call[d].at = "reset" => call'[d].at = "reset" \/ tracker'[d] # "none",
             tracker[d] # "none" => tracker'[d] # "none"
      PROVE  Of(d)' = k /\ (call'[d].at = "reset" \/ tracker'[d] # "none")
  BY <1>2 DEF OwnersOK, Grows
<1>3. ASSUME NEW c \in Call, CallStep(c)
      PROVE  Of(d)' = k /\ (call'[d].at = "reset" \/ tracker'[d] # "none")
  <2>0. Grows
    BY <1>0, <1>3, CallGrows
  <2>1. CASE Publish(c)
    <3>1. CASE k = Of(c)
      <4>1. d = c
        BY <1>0, <2>1, <3>1 DEF Publish, TaskTypeOK
      <4> QED
        BY <1>0, <2>0, <2>1, <3>1, <4>1, GoEffect DEF Publish, Grows
    <3>2. CASE k # Of(c)
      <4>1. current[k] = d
        BY <1>0, <2>1, <3>2 DEF Publish, TaskTypeOK
      <4>2. d # c
        BY <3>2, <4>1 DEF OwnersOK
      <4>3. call'[d].at = call[d].at /\ tracker'[d] = tracker[d]
        BY <1>0, <2>1, <4>2, GoEffect DEF Publish
      <4> QED
        BY <1>2, <2>0, <4>1, <4>3
    <3> QED
      BY <3>1, <3>2
  <2>2. CASE Follow(c)
    <3>1. current[k] = d
      BY <2>2 DEF Follow
    <3>2. d # c => call'[d].at = call[d].at /\ tracker'[d] = tracker[d]
      BY <1>0, <2>2, GoEffect DEF Follow, TaskTypeOK
    <3>3. tracker'[c] # "none"
      BY <1>0, <2>2 DEF Follow, TaskTypeOK
    <3> QED
      BY <1>2, <2>0, <3>1, <3>2, <3>3
  <2>3. CASE ~Publish(c) /\ ~Follow(c)
    <3>1. current[k] = d /\ tracker'[d] = tracker[d]
      BY <1>3, <2>3 DEF CallStep, Gate, ProbeCheck, ProbeClear, ProbeStarts, ProbeEmpty,
                        ProbeQueryFails, BackfillStarts, Begin, BeginFails
    <3>2. call[c].at # "reset" /\ \E at : Go(c, at)
      BY <1>3, <2>3 DEF CallStep, Gate, ProbeCheck, ProbeClear, ProbeStarts, ProbeEmpty,
                        ProbeQueryFails, BackfillStarts, Begin, BeginFails, Started
    <3>3. d # c => call'[d].at = call[d].at
      BY <1>0, <3>2, GoEffect
    <3> QED
      BY <1>2, <2>0, <3>1, <3>2, <3>3
  <2> QED
    BY <2>1, <2>2, <2>3
<1>4. ASSUME NEW c \in Call, WorkerStep(c) \/ TrackerStep(c)
      PROVE  Of(d)' = k /\ (call'[d].at = "reset" \/ tracker'[d] # "none")
  <2>0. Grows /\ UNCHANGED call
    BY <1>0, <1>4, WorkGrows DEF WorkerStep, TrackerStep, Leave, ProbeEnds, StageFails, BackfillEnds,
       Ends, TrackerSees, TrackerEnds
  <2>1. CASE WorkerStep(c)
    BY <1>2, <2>0, <2>1 DEF WorkerStep, Leave, ProbeEnds, StageFails, BackfillEnds, Ends
  <2>2. CASE TrackerSees(c)
    <3>1. tracker[d] # "none" => tracker'[d] # "none"
      BY <1>0, <2>2 DEF TrackerSees, TaskTypeOK
    <3> QED
      BY <1>2, <2>0, <2>2, <3>1 DEF TrackerSees
  <2>3. CASE TrackerEnds(c)
    <3>1. Of(c) # k /\ current[k] = d
      BY <1>0, <2>3 DEF TrackerEnds, TaskTypeOK
    <3>2. d # c
      BY <3>1 DEF OwnersOK
    <3>3. tracker'[d] = tracker[d]
      BY <1>0, <2>3, <3>2 DEF TrackerEnds, TaskTypeOK
    <3> QED
      BY <1>2, <2>0, <3>1, <3>3
  <2> QED
    BY <1>4, <2>1, <2>2, <2>3 DEF TrackerStep
<1>5. ASSUME NEW j \in Target, Stop(j)
      PROVE  Of(d)' = k /\ (call'[d].at = "reset" \/ tracker'[d] # "none")
  BY <1>0, <1>2, <1>5, OutsideGrows DEF Stop
<1>6. ASSUME NEW c \in Call, NEW j \in Target, NEW by, Arrive(c, j, by), UNCHANGED <<tracker, current, why>>
      PROVE  Of(d)' = k /\ (call'[d].at = "reset" \/ tracker'[d] # "none")
  <2>1. Grows
    BY <1>0, <1>6, ArriveEffect DEF Grows
  <2>2. call[d].at = "reset" => call'[d].at = "reset"
    BY <1>0, <1>6, ArriveEffect
  <2> QED
    BY <1>2, <1>6, <2>1, <2>2
<1>7. ASSUME NEW c \in Call, MaybeTriggerAutoProbe(c)
      PROVE  Of(d)' = k /\ (call'[d].at = "reset" \/ tracker'[d] # "none")
  BY <1>6, <1>7 DEF MaybeTriggerAutoProbe, ghosts, Target
<1>8. ASSUME NEW c \in Call, NEW j \in Target, StartTask(c, j)
      PROVE  Of(d)' = k /\ (call'[d].at = "reset" \/ tracker'[d] # "none")
  BY <1>6, <1>8 DEF StartTask, ghosts
<1>9. ~Restart
  BY <1>0 DEF Restart
<1> QED
  BY <1>1, <1>3, <1>4, <1>5, <1>7, <1>8, <1>9 DEF TaskNext, TaskStep

\* What was pure after a step was pure before it.
LEMMA PureBefore ==
    ASSUME NEW d \in Call, Grows, Pure(d)'
    PROVE  Pure(d)
BY DEF Grows, Pure

\* A step near a pure call, one fact of it at a time: the call is past the check
\* only if it was, followed only if it was, and what it rests on is kept.
LEMMA FreshKept ==
    ASSUME NEW d \in Call, Grows, Fresh(d),
           Inspects(d)' => call'[d].at = call[d].at,
           Inspects(d)' => \A e \in Call : Other(e, d) /\ Inspects(e)' => Inspects(e),
           Inspects(d)' /\ Runs("probe")' => Runs("probe"),
           call'[d].at = "query" /\ progress'["probe"].stopFlag => progress["probe"].stopFlag
    PROVE  Fresh(d)'
BY DEF Fresh, Inspects, Grows, Other

LEMMA SoleKept ==
    ASSUME NEW d \in Call, Grows, Sole(d), Followed(d)' => Followed(d),
           Followed(d)' => \A e \in Call : Other(e, d) /\ AtWork(e)' => AtWork(e),
           Followed(d)' /\ worker'[d] \in {"working", "leaving"} =>
               /\ worker[d] \in {"working", "leaving"}
               /\ \A e \in Call : Other(e, d) /\ Inspects(e)' => Inspects(e)
    PROVE  Sole(d)'
BY DEF Sole, Inspects, Grows, Other

LEMMA TellsKept ==
    ASSUME NEW d \in Call, Grows, Tells(d), Followed(d)' => Followed(d),
           worker'[d] = worker[d], outcome'[d] = outcome[d],
           Followed(d)' =>
               /\ progress'[Of(d)].status = progress[Of(d)].status
               /\ worker[d] \in {"working", "leaving"} =>
                     progress'[Of(d)].stopFlag = progress[Of(d)].stopFlag
               /\ StopSeen(d) => StopSeen(d)'
    PROVE  Tells(d)'
BY DEF Tells, Grows

LEMMA WrittenKept ==
    ASSUME NEW d \in Call, Written(d), worker'[d] = worker[d], outcome'[d] = outcome[d],
           row'[d] \in {"succeeded", "failed"} => row'[d] = row[d]
    PROVE  Written(d)'
BY DEF Written

\* A call with nothing to follow, and no row.
LEMMA Untold ==
    ASSUME NEW d \in Call, ~Followed(d)', row'[d] = "none",
           Fresh(d)'
    PROVE  Truthful(d)'
BY DEF Truthful, Sole, Tells, Written

LEMMA NotInside ==
    ASSUME NEW d \in Call, ~Inspects(d)'
    PROVE  Fresh(d)'
BY DEF Fresh, Inspects

\* A step of a call of Start, seen from another call.
LEMMA CallOthers ==
    ASSUME EndInv, NEW c \in Call, CallStep(c), NEW d \in Call, d # c, Pure(d)'
    PROVE  Fresh(d)' /\ Sole(d)' /\ Tells(d)' /\ Written(d)'
<1> USE DEF Started
<1>0. TaskTypeOK /\ PointsOK /\ Grows /\ Pure(d) /\ Good(d)
  <2>1. TaskTypeOK /\ PointsOK /\ Good(d)
    BY DEF EndInv, FollowInv
  <2>2. Grows
    BY <2>1, CallGrows
  <2> QED
    BY <2>1, <2>2, PureBefore
<1>1. Fresh(d) /\ Sole(d) /\ Tells(d) /\ Written(d)
  BY <1>0 DEF EndInv, Truthful
<1>2. PICK at \in Point : Go(c, at)
  BY DEF CallStep, Gate, ProbeCheck, ProbeClear, ProbeStarts, ProbeEmpty, ProbeQueryFails,
         BackfillStarts, Begin, BeginFails, Publish, Follow, Point
<1>3. \A e \in Call : e # c => call'[e].at = call[e].at
  BY <1>0, <1>2, GoEffect
<1>4. UNCHANGED <<tracker[d], row[d], worker[d], outcome[d]>>
  BY <1>0 DEF CallStep, Gate, ProbeCheck, ProbeClear, ProbeStarts, ProbeEmpty, ProbeQueryFails,
         BackfillStarts, Begin, BeginFails, Publish, Follow, TaskTypeOK, ghosts
<1>5. Written(d)'
  BY <1>1, <1>4, WrittenKept
<1>6. Followed(d)' => Followed(d)
  BY <1>3, <1>4 DEF Followed
<1>7. Followed(d) /\ Of(d) = Of(c) => d \in Peers(c)
  BY <1>0 DEF Peers, Followed, Good, Placed
<1>8. CASE Gate(c) \/ ProbeQueryFails(c) \/ Begin(c) \/ BeginFails(c) \/ Publish(c) \/ Follow(c)
  <2>1. UNCHANGED <<progress, worker>> /\ ~Inspects(c)'
    BY <1>0, <1>8, GoEffect DEF Gate, ProbeQueryFails, Begin, BeginFails, Publish, Follow, Inspects
  <2>2. \A e \in Call : Inspects(e)' => Inspects(e)
    BY <1>3, <2>1 DEF Inspects
  <2>3. Followed(d)' /\ StopSeen(d) => StopSeen(d)'
    <3>1. CASE Follow(c) /\ Of(d) = Of(c) /\ Followed(d) /\ stopRequested[Of(d)]
      <4> DEFINE cs == {e \in Peers(c) : stopRequested[Of(c)] /\ Followed(e)}
      <4>1. d \in cs /\ Blame(cs, "early")
        BY <1>7, <3>1 DEF Follow
      <4> HIDE DEF cs
      <4> QED
        BY <1>0, <4>1, BlameEffect DEF Pure
    <3>2. CASE Follow(c) /\ Of(d) # Of(c)
      BY <1>0, <1>4, <3>2 DEF Follow, StopSeen, Grows, TaskTypeOK
    <3>3. CASE ~Follow(c)
      BY <1>0, <1>4, <1>8, <3>3 DEF Gate, ProbeQueryFails, Begin, BeginFails, Publish, StopSeen, Grows
    <3> QED
      BY <1>6, <3>1, <3>2, <3>3 DEF StopSeen
  <2>4. Fresh(d)'
    BY <1>0, <1>1, <1>3, <2>1, <2>2, FreshKept DEF Runs
  <2>5. Sole(d)'
    BY <1>0, <1>1, <1>6, <2>1, <2>2, SoleKept DEF AtWork
  <2>6. Tells(d)'
    BY <1>0, <1>1, <1>4, <1>6, <2>1, <2>3, TellsKept
  <2> QED
    BY <1>5, <2>4, <2>5, <2>6
<1>9. CASE ProbeCheck(c)
  <2>1. UNCHANGED <<progress, worker, stopRequested>>
    BY <1>9 DEF ProbeCheck
  <2>2. Runs("probe") => ~Inspects(c)'
    BY <1>0, <1>9, GoEffect DEF ProbeCheck, Inspects
  <2>3. ~Runs("probe") /\ Of(d) = Of(c) => ~Inspects(d)
    <3> SUFFICES ASSUME ~Runs("probe"), Of(d) = Of(c), Inspects(d) PROVE FALSE
      OBVIOUS
    <3> DEFINE inside == {e \in Peers(c) : call[e].at \in {"clear", "query"}}
    <3>1. d \in inside
      BY DEF Peers, Inspects
    <3>2. Blame(inside \cup {c}, "raced")
      BY <1>9, <3>1 DEF ProbeCheck
    <3> HIDE DEF inside
    <3> QED
      BY <1>0, <3>1, <3>2, BlameEffect DEF Pure
  <2>4. ~Runs("probe") /\ Of(d) = Of(c) /\ Followed(d) => worker[d] \notin {"working", "leaving"}
    BY <1>1, <1>9 DEF Tells, Runs, ProbeCheck
  <2>5. Fresh(d)'
    <3>1. Inspects(d)' /\ Of(d) = Of(c) => \A e \in Call : Other(e, d) /\ Inspects(e)' => Inspects(e)
      BY <1>3, <2>2, <2>3 DEF Inspects
    <3>2. Of(d) # Of(c) => \A e \in Call : Other(e, d) /\ Inspects(e)' => Inspects(e)
      BY <1>3 DEF Inspects, Other
    <3> QED
      BY <1>0, <1>1, <1>3, <2>1, <3>1, <3>2, FreshKept DEF Runs
  <2>6. Sole(d)'
    <3>1. Followed(d)' /\ worker'[d] \in {"working", "leaving"} =>
              \A e \in Call : Other(e, d) /\ Inspects(e)' => Inspects(e)
      BY <1>3, <1>6, <2>1, <2>2, <2>4 DEF Inspects, Other
    <3> QED
      BY <1>0, <1>1, <1>6, <2>1, <3>1, SoleKept DEF AtWork
  <2>7. Tells(d)'
    BY <1>0, <1>1, <1>4, <1>6, <2>1, TellsKept DEF StopSeen, Grows
  <2> QED
    BY <1>5, <2>5, <2>6, <2>7
<1>10. CASE ProbeClear(c)
  <2>1. UNCHANGED <<worker, stopRequested>> /\ Inspects(c) /\ Of(c) = "probe"
    BY <1>0, <1>10 DEF ProbeClear, Inspects, PointsOK
  <2>2. progress' = [progress EXCEPT !["probe"].stopFlag = FALSE]
    BY <1>10 DEF ProbeClear
  <2>3. \A k \in Target : progress'[k].status = progress[k].status
    BY <1>0, <2>2 DEF TaskTypeOK
  <2>4. \A k \in Target \ {"probe"} : progress'[k].stopFlag = progress[k].stopFlag
    BY <1>0, <2>2 DEF TaskTypeOK
  <2>5. ~progress'["probe"].stopFlag
    BY <1>0, <2>2 DEF TaskTypeOK, Target
  <2>6. \A e \in Call : Inspects(e)' => Inspects(e)
    BY <1>3, <2>1 DEF Inspects
  <2>7. Of(d) \in Target
    BY <1>0 DEF TaskTypeOK, Of
  <2>8. Followed(d) /\ Of(d) = "probe" => worker[d] \notin {"working", "leaving"}
    BY <1>1, <2>1 DEF Sole, Inspects, Other
  <2>9. Fresh(d)'
    BY <1>0, <1>1, <1>3, <2>3, <2>5, <2>6, FreshKept DEF Runs, Target
  <2>10. Sole(d)'
    BY <1>0, <1>1, <1>6, <2>1, <2>6, SoleKept DEF AtWork
  <2>11. Tells(d)'
    BY <1>0, <1>1, <1>4, <1>6, <2>1, <2>3, <2>4, <2>7, <2>8, TellsKept DEF StopSeen, Grows
  <2> QED
    BY <1>5, <2>9, <2>10, <2>11
<1>11. CASE ProbeStarts(c) \/ ProbeEmpty(c) \/ (BackfillStarts(c) /\ ~Runs("backfill"))
  <2>1. PICK extra : Overlay(c, extra)
    BY <1>11 DEF ProbeStarts, ProbeEmpty, BackfillStarts
  <2>2. Of(d) = Of(c) => ~Followed(d)
    <3>1. ASSUME d \in Peers(c), Followed(d) PROVE "overlaid" \in why'[d]
      BY <2>1, <3>1 DEF Overlay
    <3> QED
      BY <1>7, <3>1 DEF Pure
  <2>3. Of(d) = Of(c) => ~Inspects(d)
    <3>1. CASE ProbeStarts(c) \/ ProbeEmpty(c)
      BY <1>1, <3>1 DEF Fresh, Inspects, Other, ProbeStarts, ProbeEmpty
    <3>2. CASE BackfillStarts(c)
      BY <1>0, <3>2 DEF PointsOK, Inspects, BackfillStarts
    <3> QED
      BY <1>11, <3>1, <3>2
  <2>4. \A e \in Call : e # c => worker'[e] = worker[e]
    BY <1>0, <1>11 DEF ProbeStarts, ProbeEmpty, BackfillStarts, TaskTypeOK
  <2>5. \A k \in Target : k # Of(c) => progress'[k] = progress[k]
    BY <1>0, <1>11 DEF ProbeStarts, ProbeEmpty, BackfillStarts, TaskTypeOK, PointsOK
  <2>6. UNCHANGED stopRequested /\ Of(d) \in Target
    BY <1>0, <1>11 DEF ProbeStarts, ProbeEmpty, BackfillStarts, TaskTypeOK, Of
  <2>7. CASE Of(d) = Of(c)
    <3>1. ~Followed(d)' /\ ~Inspects(d)'
      BY <1>3, <1>6, <2>2, <2>3, <2>7 DEF Inspects
    <3> QED
      BY <1>5, <3>1, NotInside DEF Sole, Tells
  <2>8. CASE Of(d) # Of(c)
    <3>1. Fresh(d)'
      <4>1. Inspects(d) => Of(d) = "probe"
        BY <1>0 DEF PointsOK, Inspects
      <4> QED
        BY <1>0, <1>1, <1>3, <2>5, <2>6, <2>8, <4>1, FreshKept DEF Runs, Other, Inspects
    <3>2. Sole(d)'
      BY <1>0, <1>1, <1>3, <1>6, <2>4, <2>8, SoleKept DEF AtWork, Other, Inspects
    <3>3. Tells(d)'
      BY <1>0, <1>1, <1>4, <1>6, <2>5, <2>6, <2>8, TellsKept DEF StopSeen, Grows
    <3> QED
      BY <1>5, <3>1, <3>2, <3>3
  <2> QED
    BY <2>7, <2>8
<1>12. CASE BackfillStarts(c) /\ Runs("backfill")
  <2>1. UNCHANGED <<progress, worker, stopRequested>> /\ ~Inspects(c)'
    BY <1>0, <1>12, GoEffect DEF BackfillStarts, Inspects
  <2>2. \A e \in Call : Inspects(e)' => Inspects(e)
    BY <1>3, <2>1 DEF Inspects
  <2>3. Fresh(d)'
    BY <1>0, <1>1, <1>3, <2>1, <2>2, FreshKept DEF Runs
  <2>4. Sole(d)'
    BY <1>0, <1>1, <1>6, <2>1, <2>2, SoleKept DEF AtWork
  <2>5. Tells(d)'
    BY <1>0, <1>1, <1>4, <1>6, <2>1, TellsKept DEF StopSeen, Grows
  <2> QED
    BY <1>5, <2>3, <2>4, <2>5
<1> QED
  BY <1>8, <1>9, <1>10, <1>11, <1>12 DEF CallStep

\* The same step, seen from the call itself: a run that starts has the task to
\* itself, and its status says that it runs, or that it is over.
LEMMA CallItself ==
    ASSUME EndInv, NEW c \in Call, CallStep(c), Pure(c)'
    PROVE  Truthful(c)'
<1> USE DEF Started
<1>0. TaskTypeOK /\ PointsOK /\ Grows /\ Pure(c) /\ Good(c)
  <2>1. TaskTypeOK /\ PointsOK /\ Good(c)
    BY DEF EndInv, FollowInv
  <2>2. Grows
    BY <2>1, CallGrows
  <2> QED
    BY <2>1, <2>2, PureBefore
<1>1. Fresh(c) /\ Sole(c) /\ Tells(c) /\ Written(c)
  BY <1>0 DEF EndInv, Truthful
<1>2. CASE Gate(c) \/ ProbeQueryFails(c) \/ BeginFails(c) \/ (ProbeCheck(c) /\ Runs("probe"))
           \/ (BackfillStarts(c) /\ Runs("backfill"))
  <2>1. call'[c].at \in {"over", "start"}
    BY <1>0, <1>2, GoEffect DEF Gate, ProbeQueryFails, BeginFails, ProbeCheck, BackfillStarts
  <2>2. row'[c] = "none" /\ tracker'[c] = "none"
    BY <1>0, <1>2 DEF Gate, ProbeQueryFails, BeginFails, ProbeCheck, BackfillStarts, Good, Placed
  <2> QED
    BY <2>1, <2>2, NotInside, Untold DEF Inspects, Followed
<1>3. CASE (ProbeCheck(c) /\ ~Runs("probe")) \/ ProbeClear(c)
  <2>1. call'[c].at \in {"clear", "query"} /\ (call'[c].at = "query" <=> ProbeClear(c))
    BY <1>0, <1>3, GoEffect DEF ProbeCheck, ProbeClear
  <2>2. row'[c] = "none" /\ tracker'[c] = "none"
    BY <1>0, <1>3 DEF ProbeCheck, ProbeClear, Good, Placed
  <2>3. ~Runs("probe")'
    BY <1>0, <1>1, <1>3 DEF ProbeCheck, ProbeClear, Runs, Fresh, TaskTypeOK
  <2>4. ProbeClear(c) => ~progress'["probe"].stopFlag
    BY <1>0 DEF ProbeClear, TaskTypeOK, Target
  <2>5. ASSUME NEW e \in Call, Other(e, c) PROVE call[e].at \notin {"clear", "query"}
    <3>1. CASE ProbeClear(c)
      BY <1>1, <2>5, <3>1 DEF ProbeClear, Fresh
    <3>2. CASE ProbeCheck(c) /\ ~Runs("probe")
      <4> SUFFICES ASSUME call[e].at \in {"clear", "query"} PROVE FALSE
        OBVIOUS
      <4> DEFINE inside == {d \in Peers(c) : call[d].at \in {"clear", "query"}}
      <4>1. e \in inside
        BY <2>5 DEF Peers, Other
      <4>2. Blame(inside \cup {c}, "raced")
        BY <3>2, <4>1 DEF ProbeCheck
      <4> HIDE DEF inside
      <4> QED
        BY <1>0, <4>2, BlameEffect DEF Pure
    <3> QED
      BY <1>3, <3>1, <3>2
  <2>6. \A e \in Call : Other(e, c)' => Other(e, c) /\ call'[e].at = call[e].at
    BY <1>0, <1>3, GoEffect DEF ProbeCheck, ProbeClear, Other, Grows
  <2>7. Fresh(c)'
    BY <2>1, <2>3, <2>4, <2>5, <2>6 DEF Fresh
  <2> QED
    BY <2>1, <2>2, <2>7, Untold DEF Followed
<1>4. CASE ProbeStarts(c) \/ ProbeEmpty(c) \/ (BackfillStarts(c) /\ ~Runs("backfill"))
  <2>1. PICK extra : Overlay(c, extra)
    BY <1>4 DEF ProbeStarts, ProbeEmpty, BackfillStarts
  <2>2. row'[c] = "none" /\ tracker'[c] = "none"
    BY <1>0, <1>4 DEF ProbeStarts, ProbeEmpty, BackfillStarts, Good, Placed
  <2>3. call'[c].at \in {"begin", "over"} /\ \A e \in Call : e # c => call'[e].at = call[e].at
    BY <1>0, <1>4, GoEffect DEF ProbeStarts, ProbeEmpty, BackfillStarts
  <2>4. \A e \in Call : e # c => worker'[e] = worker[e]
    BY <1>0, <1>4 DEF ProbeStarts, ProbeEmpty, BackfillStarts, TaskTypeOK
  <2>5. ASSUME NEW e \in Call, Other(e, c) PROVE ~AtWork(e) /\ call[e].at \notin {"clear", "query"}
    <3>1. CASE AtWork(e)
      <4>1. e \in Peers(c)
        BY <1>0, <2>5, <3>1 DEF Peers, Other, AtWork, PointsOK
      <4>2. "joined" \in {r \in {"joined"} : \E d \in Peers(c) : AtWork(d)}
        BY <3>1, <4>1
      <4>3. why'[c] = why[c] \cup extra \cup {r \in {"joined"} : \E d \in Peers(c) : AtWork(d)}
        BY <2>1 DEF Overlay, Peers
      <4>4. "joined" \in why'[c]
        BY <4>2, <4>3
      <4> QED
        BY <4>4 DEF Pure
    <3>2. CASE call[e].at \in {"clear", "query"}
      BY <1>0, <1>1, <1>4, <2>5, <3>2 DEF Fresh, Other, PointsOK, ProbeStarts, ProbeEmpty, BackfillStarts
    <3> QED
      BY <3>1, <3>2
  <2>6. Sole(c)'
    BY <1>0, <2>3, <2>4, <2>5 DEF Sole, Other, Grows, AtWork
  <2>7. Tells(c)'
    <3>1. CASE ProbeStarts(c)
      <4>1. Of(c) = "probe" /\ ~progress["probe"].stopFlag
        BY <1>0, <1>1, <3>1 DEF ProbeStarts, Fresh, PointsOK
      <4>2. progress["probe"] \in [status : {"idle", "running", "stopping", "completed",
                                             "stopped", "error"}, stopFlag : BOOLEAN]
        BY <1>0 DEF TaskTypeOK, Target
      <4>3. progress'["probe"] = [progress["probe"] EXCEPT !.status = "running"]
        BY <1>0, <3>1 DEF ProbeStarts, TaskTypeOK, Target
      <4>4. progress'["probe"].status = "running" /\ ~progress'["probe"].stopFlag
        BY <4>1, <4>2, <4>3
      <4>5. worker'[c] = "working"
        BY <1>0, <3>1 DEF ProbeStarts, TaskTypeOK
      <4> QED
        BY <1>0, <4>1, <4>4, <4>5 DEF Tells, Grows
    <3>2. CASE ProbeEmpty(c)
      <4>1. Of(c) = "probe" /\ progress'["probe"].status = "completed"
        BY <1>0, <3>2 DEF ProbeEmpty, PointsOK, TaskTypeOK, Target
      <4>2. worker'[c] = "ended" /\ outcome'[c] = "completed"
        BY <1>0, <3>2 DEF ProbeEmpty, TaskTypeOK
      <4> QED
        BY <1>0, <4>1, <4>2 DEF Tells, Grows
    <3>3. CASE BackfillStarts(c) /\ ~Runs("backfill")
      <4>1. progress'["backfill"] = [Idle EXCEPT !.status = "running"]
        BY <1>0, <3>3 DEF BackfillStarts, TaskTypeOK, Target
      <4>2. progress'["backfill"].status = "running" /\ ~progress'["backfill"].stopFlag
        BY <4>1 DEF Idle
      <4>3. Of(c) = "backfill" /\ worker'[c] = "working"
        BY <1>0, <3>3 DEF BackfillStarts, TaskTypeOK
      <4> QED
        BY <1>0, <4>2, <4>3 DEF Tells, Grows
    <3> QED
      BY <1>4, <3>1, <3>2, <3>3
  <2> QED
    BY <2>2, <2>3, <2>6, <2>7, NotInside DEF Truthful, Written, Inspects
<1>5. CASE Begin(c) \/ Publish(c) \/ Follow(c)
  <2>1. UNCHANGED <<progress, worker, outcome>> /\ ~Inspects(c)' /\ Followed(c)
    BY <1>0, <1>5, GoEffect DEF Begin, Publish, Follow, Inspects, Followed, ghosts
  <2>2. \A e \in Call : Inspects(e)' => Inspects(e)
    BY <1>0, <1>5, <2>1, GoEffect DEF Begin, Publish, Follow, Inspects
  <2>3. StopSeen(c) => StopSeen(c)'
    BY <1>0, <1>5 DEF Begin, Publish, Follow, StopSeen, Good, Placed, Grows
  <2>4. row'[c] \in {"succeeded", "failed"} => row'[c] = row[c]
    BY <1>0, <1>5 DEF Begin, Publish, Follow, TaskTypeOK
  <2>5. Sole(c)'
    BY <1>0, <1>1, <2>1, <2>2, SoleKept DEF AtWork
  <2>6. Tells(c)'
    BY <1>0, <1>1, <2>1, <2>3, TellsKept
  <2>7. Written(c)'
    BY <1>1, <2>1, <2>4, WrittenKept
  <2> QED
    BY <2>1, <2>5, <2>6, <2>7, NotInside DEF Truthful
<1> QED
  BY <1>2, <1>3, <1>4, <1>5 DEF CallStep

\* The steps of a goroutine: the end of the only run at work is what the status
\* says from then on.
LEMMA WorkerTruth ==
    ASSUME EndInv, NEW c \in Call, WorkerStep(c), NEW d \in Call, Pure(d)'
    PROVE  Truthful(d)'
<1>0. TaskTypeOK /\ PointsOK /\ Grows /\ Pure(d) /\ Good(d)
  <2>1. TaskTypeOK /\ PointsOK /\ Good(d)
    BY DEF EndInv, FollowInv
  <2>2. Grows
    BY <2>1, WorkGrows
  <2> QED
    BY <2>1, <2>2, PureBefore
<1>1. Fresh(d) /\ Sole(d) /\ Tells(d) /\ Written(d) /\ Of(c) \in Target /\ Of(d) \in Target
  BY <1>0 DEF EndInv, Truthful, TaskTypeOK, Of
<1>2. UNCHANGED <<call, tracker, row, stopRequested>>
  BY DEF WorkerStep, Leave, ProbeEnds, StageFails, BackfillEnds, Ends, ghosts
<1>3. AtWork(c) /\ \A e \in Call : e # c => worker'[e] = worker[e]
  BY <1>0 DEF WorkerStep, Leave, ProbeEnds, StageFails, BackfillEnds, Ends, AtWork, TaskTypeOK
<1>4. \A e \in Call : e # c => outcome'[e] = outcome[e]
  BY <1>0 DEF WorkerStep, Leave, ProbeEnds, StageFails, BackfillEnds, Ends, ghosts, TaskTypeOK
<1>5. \A k \in Target : k # Of(c) => progress'[k] = progress[k]
  BY <1>0 DEF WorkerStep, Leave, ProbeEnds, StageFails, BackfillEnds, TaskTypeOK
<1>6. \A k \in Target : progress'[k].stopFlag = progress[k].stopFlag /\ (Runs(k)' => Runs(k))
  <2> TAKE k \in Target
  <2>1. CASE k # Of(c)
    BY <1>5, <2>1 DEF Runs
  <2>2. CASE k = Of(c) /\ Leave(c)
    BY <2>2 DEF Leave, Runs
  <2>3. CASE k = Of(c) /\ (ProbeEnds(c) \/ StageFails(c))
    BY <1>0, <2>3 DEF ProbeEnds, StageFails, TaskTypeOK, Runs
  <2>4. CASE k = Of(c) /\ BackfillEnds(c)
    <3>1. progress'[k].stopFlag = progress[k].stopFlag
      BY <1>0, <2>4 DEF BackfillEnds, TaskTypeOK
    <3>2. progress[k].status \notin {"stopping", "running"} => progress'[k].status = progress[k].status
      BY <1>0, <2>4 DEF BackfillEnds, TaskTypeOK
    <3> QED
      BY <3>1, <3>2 DEF Runs
  <2> QED
    BY <2>1, <2>2, <2>3, <2>4 DEF WorkerStep
<1>7. Fresh(d)'
  BY <1>0, <1>1, <1>2, <1>6, FreshKept DEF Inspects, Target
<1>8. CASE d # c
  <2>1. \A e \in Call : AtWork(e)' => AtWork(e)
    BY <1>3 DEF AtWork
  <2>2. Sole(d)'
    BY <1>0, <1>1, <1>2, <1>3, <1>8, <2>1, SoleKept DEF Followed, Inspects
  <2>3. Followed(d) => Of(d) # Of(c)
    BY <1>1, <1>3, <1>8 DEF Sole, Other
  <2>4. Tells(d)'
    BY <1>0, <1>1, <1>2, <1>3, <1>4, <1>5, <1>8, <2>3, TellsKept DEF Followed, StopSeen, Grows
  <2>5. Written(d)'
    BY <1>1, <1>2, <1>3, <1>4, <1>8, WrittenKept
  <2> QED
    BY <1>7, <2>2, <2>4, <2>5 DEF Truthful
<1>9. CASE d = c
  <2>1. \A e \in Call : AtWork(e)' => AtWork(e)
    BY <1>3 DEF AtWork
  <2>2. worker'[c] \in {"working", "leaving"} => worker[c] \in {"working", "leaving"}
    BY <1>0 DEF WorkerStep, Leave, ProbeEnds, StageFails, BackfillEnds, Ends, TaskTypeOK
  <2>3. Sole(c)'
    BY <1>0, <1>1, <1>2, <1>9, <2>1, <2>2, SoleKept DEF Followed, Inspects
  <2>4. Of(c)' = Of(c) /\ (Followed(c)' <=> Followed(c)) /\ (StopSeen(c)' <=> StopSeen(c))
    BY <1>2 DEF Followed, StopSeen, Of
  <2>5. CASE Leave(c)
    <3>1. worker[c] = "working" /\ worker'[c] = "leaving" /\ UNCHANGED <<progress, outcome>>
      BY <1>0, <2>5 DEF Leave, TaskTypeOK, ghosts
    <3>2. progress[Of(c)].stopFlag
      BY <2>5 DEF Leave
    <3>3. Tells(c)'
      BY <1>1, <1>9, <2>4, <3>1, <3>2 DEF Tells
    <3>4. Written(c)'
      BY <1>1, <1>2, <1>9, <3>1 DEF Written
    <3> QED
      BY <1>7, <1>9, <2>3, <3>3, <3>4 DEF Truthful
  <2>6. CASE ProbeEnds(c)
    <3>1. worker[c] \in {"working", "leaving"} /\ worker'[c] = "ended" /\ outcome'[c] = Really(c)
      BY <1>0, <2>6 DEF ProbeEnds, Ends, TaskTypeOK
    <3>2. Of(c) = "probe" /\ progress'["probe"].status = IF progress["probe"].stopFlag
                                                         THEN "idle" ELSE "completed"
      BY <1>0, <2>6 DEF ProbeEnds, TaskTypeOK, Target
    <3>3. Tells(c)'
      BY <1>1, <1>9, <2>4, <3>1, <3>2 DEF Tells, Really
    <3>4. Written(c)'
      BY <1>1, <1>2, <1>9, <3>1 DEF Written
    <3> QED
      BY <1>7, <1>9, <2>3, <3>3, <3>4 DEF Truthful
  <2>7. CASE StageFails(c)
    <3>1. worker[c] = "working" /\ worker'[c] = "failing" /\ outcome'[c] = "failed"
      BY <1>0, <2>7 DEF StageFails, TaskTypeOK
    <3>2. Of(c) = "backfill" /\ progress'["backfill"].status = "error"
      BY <1>0, <2>7 DEF StageFails, TaskTypeOK, Target
    <3>3. Tells(c)'
      BY <2>4, <3>1, <3>2 DEF Tells
    <3>4. Written(c)'
      BY <1>1, <1>2, <1>9, <3>1 DEF Written
    <3> QED
      BY <1>7, <1>9, <2>3, <3>3, <3>4 DEF Truthful
  <2>8. CASE BackfillEnds(c)
    <3>1. AtWork(c) /\ worker'[c] = "ended" /\ outcome'[c] = Really(c)
      BY <1>0, <2>8 DEF BackfillEnds, Ends, TaskTypeOK
    <3>2. /\ Of(c) = "backfill"
          /\ progress["backfill"].status = "stopping" => progress'["backfill"].status = "stopped"
          /\ progress["backfill"].status = "running" => progress'["backfill"].status = "completed"
          /\ progress["backfill"].status = "error" => progress'["backfill"].status = "error"
      BY <1>0, <2>8 DEF BackfillEnds, TaskTypeOK, Target
    <3>3. Tells(c)'
      BY <1>1, <1>9, <2>4, <3>1, <3>2 DEF Tells, Really, AtWork
    <3>4. Written(c)'
      BY <1>1, <1>2, <1>9, <3>1 DEF Written, Really, AtWork
    <3> QED
      BY <1>7, <1>9, <2>3, <3>3, <3>4 DEF Truthful
  <2> QED
    BY <2>5, <2>6, <2>7, <2>8 DEF WorkerStep
<1> QED
  BY <1>8, <1>9

\* The steps of a tracker: the row it closes is that of a followed run.
LEMMA TrackerTruth ==
    ASSUME EndInv, NEW c \in Call, TrackerStep(c), NEW d \in Call, Pure(d)'
    PROVE  Truthful(d)'
<1>0. TaskTypeOK /\ PointsOK /\ OwnersOK /\ Grows /\ Pure(d) /\ Good(d)
  <2>1. TaskTypeOK /\ PointsOK /\ OwnersOK /\ Good(d)
    BY DEF EndInv, FollowInv
  <2>2. Grows
    BY <2>1, WorkGrows
  <2> QED
    BY <2>1, <2>2, PureBefore
<1>1. Fresh(d) /\ Sole(d) /\ Tells(d) /\ Written(d) /\ Of(c) \in Target /\ Of(d) \in Target
  BY <1>0 DEF EndInv, Truthful, TaskTypeOK, Of
<1>2. UNCHANGED <<call, worker, progress, stopRequested, outcome>>
  BY DEF TrackerStep, TrackerSees, TrackerEnds, ghosts
<1>3. Followed(d)' => Followed(d) /\ (tracker[d] # "none" => tracker'[d] # "none")
  <2>1. d # c => tracker'[d] = tracker[d]
    BY <1>0 DEF TrackerStep, TrackerSees, TrackerEnds, TaskTypeOK
  <2>2. tracker[c] \in {"waiting", "seen"} /\ tracker'[c] \in {"seen", "none"}
    BY <1>0 DEF TrackerStep, TrackerSees, TrackerEnds, TaskTypeOK
  <2>3. d = c => call[d].at = "over"
    BY <1>0, <2>2 DEF Good, Placed
  <2> QED
    BY <1>2, <2>1, <2>2, <2>3 DEF Followed
<1>4. Fresh(d)'
  BY <1>0, <1>1, <1>2, FreshKept DEF Inspects, Runs
<1>5. Sole(d)'
  BY <1>0, <1>1, <1>2, <1>3, SoleKept DEF Inspects, AtWork
<1>6. Tells(d)'
  BY <1>0, <1>1, <1>2, <1>3, TellsKept DEF StopSeen, Grows
<1>7. Written(d)'
  <2>1. CASE row'[d] = row[d]
    BY <1>1, <1>2, <2>1, WrittenKept
  <2>2. CASE row'[d] # row[d]
    <3>1. TrackerEnds(c)
      BY <2>2 DEF TrackerStep, TrackerSees
    <3>2. tracker[c] = "seen" /\ ~Runs(Of(c)) /\ d \in Closes(c) /\ row'[d] = Final(Of(c))
      BY <2>2, <3>1 DEF TrackerEnds
    <3>3. Of(d) = Of(c) /\ Followed(d)
      <4>1. CASE Of(c) = "probe"
        BY <3>2, <4>1 DEF Closes, Followed
      <4>2. CASE Of(c) = "backfill"
        <5>1. current["backfill"] = d
          BY <3>2, <4>2 DEF Closes
        <5> QED
          BY <1>0, <4>2, <5>1 DEF OwnersOK, Followed, Target
      <4> QED
        BY <1>1, <4>1, <4>2 DEF Target
    <3>4. Final(Of(d)) = "succeeded" => outcome[d] = "completed" /\ worker[d] = "ended"
      BY <1>1, <3>2, <3>3 DEF Tells, StopSeen, Final, Snapshot, mapLegacyStatus, Runs
    <3>5. Final(Of(d)) = "failed" => outcome[d] = "failed" /\ worker[d] \in {"failing", "ended"}
      BY <1>1, <3>2, <3>3 DEF Tells, StopSeen, Final, Snapshot, mapLegacyStatus, Runs
    <3> QED
      BY <1>2, <3>2, <3>3, <3>4, <3>5 DEF Written
  <2> QED
    BY <2>1, <2>2
<1> QED
  BY <1>4, <1>5, <1>6, <1>7 DEF Truthful

\* What comes from outside: a stop that is heard is known to the adapter, one
\* that came before the adapter was ready is blamed.
LEMMA OutsideTruth ==
    ASSUME EndInv, NEW d \in Call, Pure(d)',
           \/ \E k \in Target : Stop(k)
           \/ \E c \in Call : MaybeTriggerAutoProbe(c) \/ \E k \in Target : StartTask(c, k)
           \/ Restart
    PROVE  Truthful(d)'
<1>0. TaskTypeOK /\ PointsOK /\ Grows /\ Pure(d) /\ Good(d)
  <2>1. TaskTypeOK /\ PointsOK /\ Good(d)
    BY DEF EndInv, FollowInv
  <2>2. Grows
    BY <2>1, OutsideGrows, RestartEffect
  <2> QED
    BY <2>1, <2>2, PureBefore
<1>1. Fresh(d) /\ Sole(d) /\ Tells(d) /\ Written(d) /\ Of(d) \in Target
  BY <1>0 DEF EndInv, Truthful, TaskTypeOK, Of
<1>2. ASSUME NEW k \in Target, Stop(k) PROVE Truthful(d)'
  <2>1. UNCHANGED <<call, worker, tracker, row, outcome>>
    BY <1>2 DEF Stop
  <2>2. Of(d)' = Of(d) /\ (Followed(d)' <=> Followed(d))
    BY <2>1 DEF Followed, Of
  <2>3. Runs("probe")' => Runs("probe")
    BY <1>0, <1>2 DEF Stop, Runs, TaskTypeOK, Target
  <2>4. ~Runs("probe") => UNCHANGED progress["probe"]
    BY <1>0, <1>2 DEF Stop, Runs, TaskTypeOK, Target
  <2>5. Fresh(d)'
    BY <1>0, <1>1, <2>1, <2>3, <2>4, FreshKept DEF Inspects, Fresh
  <2>6. Sole(d)'
    BY <1>0, <1>1, <2>1, SoleKept DEF Inspects, AtWork, Followed
  <2>7. Written(d)'
    BY <1>1, <2>1, WrittenKept
  <2>8. CASE Of(d) # k
    <3>1. progress'[Of(d)] = progress[Of(d)] /\ stopRequested'[Of(d)] = stopRequested[Of(d)]
      BY <1>0, <1>1, <1>2, <2>8 DEF Stop, TaskTypeOK
    <3>2. Tells(d)'
      BY <1>0, <1>1, <2>1, <2>2, <3>1, TellsKept DEF StopSeen
    <3> QED
      BY <2>5, <2>6, <2>7, <3>2 DEF Truthful
  <2>9. CASE Of(d) = k
    <3>1. call[d].at \notin {"begin", "publish", "reset"}
      <4> DEFINE cs == {c \in Call : Of(c) = k /\ call[c].at \in {"begin", "publish", "reset"}}
      <4>1. d \in cs => "early" \in why'[d]
        <5>1. Blame(cs, "early")
          BY <1>2 DEF Stop
        <5> HIDE DEF cs
        <5> QED
          BY <1>0, <5>1, BlameEffect
      <4> QED
        BY <2>9, <4>1 DEF Pure
    <3>2. stopRequested'[k]
      BY <1>0, <1>2 DEF Stop, TaskTypeOK
    <3>3. \/ progress[k].status = "running" /\ progress'[k] = [status |-> "stopping", stopFlag |-> TRUE]
          \/ progress[k].status # "running" /\ progress'[k] = progress[k]
      BY <1>0, <1>2 DEF Stop, TaskTypeOK
    <3>4. Followed(d) => StopSeen(d)'
      BY <2>1, <2>2, <2>9, <3>1, <3>2 DEF Followed, StopSeen
    <3>5. Tells(d)'
      BY <1>1, <2>1, <2>2, <2>9, <3>3, <3>4 DEF Tells
    <3> QED
      BY <2>5, <2>6, <2>7, <3>5 DEF Truthful
  <2> QED
    BY <2>8, <2>9
<1>3. ASSUME NEW c \in Call, NEW k \in Target, NEW by, Arrive(c, k, by),
             UNCHANGED <<progress, worker, tracker, row, outcome, stopRequested>>
      PROVE  Truthful(d)'
  <2>1. ~Inspects(c)' /\ \A e \in Call : e # c => call'[e].at = call[e].at
    BY <1>0, <1>3, ArriveEffect DEF Inspects
  <2>2. \A e \in Call : Inspects(e)' => Inspects(e)
    BY <2>1 DEF Inspects
  <2>3. Followed(d)' => Followed(d)
    BY <1>0, <1>3, <2>1, ArriveEffect DEF Followed
  <2>4. Fresh(d)'
    <3>1. Inspects(d)' => call'[d].at = call[d].at
      BY <2>1
    <3> QED
      BY <1>0, <1>1, <1>3, <2>2, <3>1, FreshKept DEF Runs
  <2>5. Sole(d)'
    BY <1>0, <1>1, <1>3, <2>2, <2>3, SoleKept DEF AtWork
  <2>6. Tells(d)'
    BY <1>0, <1>1, <1>3, <2>3, TellsKept DEF StopSeen, Grows
  <2>7. Written(d)'
    BY <1>1, <1>3, WrittenKept
  <2> QED
    BY <2>4, <2>5, <2>6, <2>7 DEF Truthful
<1>4. CASE Restart
  <2>1. ~Inspects(d)' /\ ~Followed(d)'
    BY <1>0, <1>4, RestartEffect DEF Inspects, Followed, Restart
  <2>2. worker'[d] = IF AtWork(d) THEN "ended" ELSE worker[d]
    BY <1>4 DEF Restart
  <2>3. row'[d] \in {"succeeded", "failed"} => row'[d] = row[d]
    BY <1>4 DEF Restart, Reconciled
  <2>4. UNCHANGED outcome
    BY <1>4 DEF Restart
  <2>5. Written(d)'
    BY <1>1, <2>2, <2>3, <2>4 DEF Written, AtWork
  <2> QED
    BY <2>1, <2>5, NotInside DEF Truthful, Sole, Tells
<1>5. ASSUME NEW c \in Call, MaybeTriggerAutoProbe(c) PROVE Truthful(d)'
  BY <1>3, <1>5 DEF MaybeTriggerAutoProbe, ghosts, Target
<1>6. ASSUME NEW c \in Call, NEW k \in Target, StartTask(c, k) PROVE Truthful(d)'
  BY <1>3, <1>6 DEF StartTask, ghosts
<1> QED
  BY <1>2, <1>4, <1>5, <1>6

\* EndInv is inductive.
LEMMA NextEnd == EndInv /\ [TaskNext]_taskVars => EndInv'
<1> SUFFICES ASSUME EndInv, [TaskNext]_taskVars PROVE EndInv'
  OBVIOUS
<1>1. FollowInv' /\ PointsOK' /\ OwnersOK'
  <2>1. FollowInv'
    BY NextFollow DEF EndInv
  <2>2. PointsOK'
    BY NextPoints DEF EndInv, FollowInv
  <2>3. OwnersOK'
    BY NextOwners DEF EndInv
  <2> QED
    BY <2>1, <2>2, <2>3
<1>2. ASSUME NEW d \in Call, Pure(d)' PROVE Truthful(d)'
  <2>1. CASE UNCHANGED taskVars
    <3>1. Pure(d) /\ Truthful(d)
      BY <1>2, <2>1 DEF taskVars, ghosts, Pure, EndInv
    <3> QED
      BY <2>1, <3>1 DEF taskVars, ghosts, Truthful, Fresh, Sole, Tells, Written, Followed, StopSeen,
                        Other, Runs, AtWork, Of
  <2>2. ASSUME NEW c \in Call, CallStep(c) PROVE Truthful(d)'
    <3>1. CASE c = d
      BY <1>2, <2>2, <3>1, CallItself
    <3>2. CASE c # d
      BY <1>2, <2>2, <3>2, CallOthers DEF Truthful
    <3> QED
      BY <3>1, <3>2
  <2>3. CASE TaskNext
    BY <1>2, <2>2, <2>3, WorkerTruth, TrackerTruth, OutsideTruth DEF TaskNext, TaskStep
  <2> QED
    BY <2>1, <2>3
<1> QED
  BY <1>1, <1>2 DEF EndInv, Truthful

LEMMA InitEnd == TaskInit => EndInv
<1> SUFFICES ASSUME TaskInit PROVE EndInv
  OBVIOUS
<1>1. FollowInv /\ PointsOK
  BY InitFollow, InitWorker DEF WorkerInv
<1>2. /\ \A c \in Call : call[c].at = "free" /\ tracker[c] = "none" /\ row[c] = "none"
      /\ \A k \in Target : current[k] = NoCall
  BY DEF TaskInit
<1>3. OwnersOK
  BY <1>2, TaskRunsAssumption DEF OwnersOK
<1> QED
  BY <1>1, <1>2, <1>3 DEF EndInv, Truthful, Fresh, Sole, Tells, Written, Followed

\* A row that says succeeded or failed says what its goroutine did, but for the
\* runs another came near and those stopped too early (adapters/tracker.go:20,
\* adapters/probe.go:104).
THEOREM RowsTrue == TaskSpec => []EndsTrue
<1>1. EndInv => EndsTrue
  BY DEF EndInv, Truthful, Pure, Written, EndsTrue
<1>2. TaskSpec => TaskInit /\ [][TaskNext]_taskVars
  BY DEF TaskSpec, TaskNext
<1> QED
  BY <1>1, <1>2, InitEnd, NextEnd, PTL

-----------------------------------------------------------------------------
(* The chain.                                                              *)

Word == Status \cup {"unseen"}

\* Where the last snapshot of a kind in the engine's channel, or what the engine
\* has of it, leaves its status.
Known(ch, k, from, to) ==
    \/ from = to /\ \A i \in 1..Len(ch) : ch[i].kind # k
    \/ \E i \in 1..Len(ch) :
          /\ ch[i].kind = k /\ ch[i].status = to
          /\ \A j \in 1..Len(ch) : j > i => ch[j].kind # k

\* A kind that was sent, and not dropped, is known as it was sent.
AllKnown ==
    \A k \in Kind \ dropped : prev[k] # Unseen => Known(channel, k, last[k], prev[k].status)

\* A step of a kind to its success.
Edge(a, b) == a # b /\ b = "succeeded"

\* The statuses the engine has of a kind as it takes the snapshots of a channel.
Course(s, ch, k, from) ==
    /\ s[0] = from
    /\ \A i \in 1..Len(ch) : s[i] = IF ch[i].kind = k THEN ch[i].status ELSE s[i - 1]

\* A count that grows at every success of a course.
Counts(n, s, ch, f) ==
    /\ n[0] = f
    /\ \A i, j \in 0..Len(ch) : i <= j => n[i] <= n[j]
    /\ \A i \in 1..Len(ch) : Edge(s[i - 1], s[i]) => n[i] >= n[i - 1] + 1

\* The successes the engine will meet in a channel, and the present one if the
\* channel does not tell it, have been earned.
Covered(ch, k, from, f, st, e) ==
    \E s \in [0..Len(ch) -> Word], n \in [0..Len(ch) -> Nat] :
        /\ Course(s, ch, k, from)
        /\ Counts(n, s, ch, f)
        /\ n[Len(ch)] <= e
        /\ Edge(s[Len(ch)], st) => n[Len(ch)] + 1 <= e

AllCovered ==
    \A k \in DOMAIN Rule :
        Covered(channel, k, last[k], fired[k], SnapshotOf(k).status, earned[k])

\* The inductive invariant behind EngineCatchesUp and ChainEarned.
ChainInv == TypeOK /\ AllKnown /\ AllCovered

-----------------------------------------------------------------------------
(* A channel and what it tells.                                            *)

\* The ends of a channel.
LEMMA AppendIs ==
    ASSUME NEW ch \in Seq(Told), NEW m \in Told
    PROVE  /\ Append(ch, m) \in Seq(Told)
           /\ Len(ch) \in Nat /\ Len(Append(ch, m)) = Len(ch) + 1
           /\ Append(ch, m)[Len(ch) + 1] = m
           /\ \A i \in 1..Len(ch) : Append(ch, m)[i] = ch[i]
OBVIOUS

LEMMA TailIs ==
    ASSUME NEW ch \in Seq(Told), ch # <<>>
    PROVE  /\ Head(ch) \in Told /\ Head(ch) = ch[1]
           /\ Tail(ch) \in Seq(Told)
           /\ Len(ch) \in Nat \ {0} /\ Len(Tail(ch)) = Len(ch) - 1
           /\ \A i \in 1..(Len(ch) - 1) : Tail(ch)[i] = ch[i + 1]
OBVIOUS

\* A snapshot that is sent is what is known, and of the other kinds nothing changes.
LEMMA KnownSent ==
    ASSUME NEW ch \in Seq(Told), NEW m \in Told, NEW k, NEW from, NEW to
    PROVE  /\ m.kind = k => Known(Append(ch, m), k, from, m.status)
           /\ m.kind # k /\ Known(ch, k, from, to) => Known(Append(ch, m), k, from, to)
<1> DEFINE A == Append(ch, m)
<1>1. /\ A \in Seq(Told)
      /\ Len(ch) \in Nat /\ Len(A) = Len(ch) + 1
      /\ A[Len(ch) + 1] = m
      /\ \A i \in 1..Len(ch) : A[i] = ch[i]
  BY AppendIs
<1>2. ASSUME m.kind = k PROVE Known(A, k, from, m.status)
  <2> HIDE DEF A
  <2>1. Len(A) \in 1..Len(A) /\ A[Len(A)] = m
    BY <1>1
  <2>2. \A j \in 1..Len(A) : j > Len(A) => A[j].kind # k
    BY <1>1
  <2> QED BY <2>1, <2>2, <1>2 DEF Known
<1>3. ASSUME m.kind # k, Known(ch, k, from, to) PROVE Known(A, k, from, to)
  <2> HIDE DEF A
  <2>1. CASE from = to /\ \A i \in 1..Len(ch) : ch[i].kind # k
    BY <1>1, <1>3, <2>1 DEF Known
  <2>2. CASE \E i \in 1..Len(ch) :
               /\ ch[i].kind = k /\ ch[i].status = to
               /\ \A j \in 1..Len(ch) : j > i => ch[j].kind # k
    <3>1. PICK i \in 1..Len(ch) :
               /\ ch[i].kind = k /\ ch[i].status = to
               /\ \A j \in 1..Len(ch) : j > i => ch[j].kind # k
      BY <2>2
    <3>2. i \in 1..Len(A) /\ A[i] = ch[i]
      BY <1>1
    <3>3. \A j \in 1..Len(A) : j > i => A[j].kind # k
      BY <1>1, <1>3, <3>1
    <3> QED BY <3>1, <3>2, <3>3 DEF Known
  <2> QED BY <1>3, <2>1, <2>2 DEF Known
<1> QED BY <1>2, <1>3

\* A snapshot that is taken leaves known what was.
LEMMA KnownTaken ==
    ASSUME NEW ch \in Seq(Told), ch # <<>>, NEW k, NEW from, NEW to, Known(ch, k, from, to)
    PROVE  Known(Tail(ch), k, IF Head(ch).kind = k THEN Head(ch).status ELSE from, to)
<1> DEFINE T == Tail(ch)
           now == IF Head(ch).kind = k THEN Head(ch).status ELSE from
<1>1. /\ Head(ch) = ch[1]
      /\ Len(ch) \in Nat \ {0} /\ Len(T) = Len(ch) - 1
      /\ \A i \in 1..(Len(ch) - 1) : T[i] = ch[i + 1]
  BY TailIs
<1> HIDE DEF T
<1>2. \A j \in 1..Len(T) : j + 1 \in 1..Len(ch) /\ T[j] = ch[j + 1]
  BY <1>1
<1>3. CASE from = to /\ \A i \in 1..Len(ch) : ch[i].kind # k
  <2>1. now = to
    BY <1>1, <1>3
  <2>2. \A i \in 1..Len(T) : T[i].kind # k
    BY <1>2, <1>3
  <2> QED BY <2>1, <2>2 DEF Known
<1>4. CASE \E i \in 1..Len(ch) :
             /\ ch[i].kind = k /\ ch[i].status = to
             /\ \A j \in 1..Len(ch) : j > i => ch[j].kind # k
  <2>1. PICK i \in 1..Len(ch) :
             /\ ch[i].kind = k /\ ch[i].status = to
             /\ \A j \in 1..Len(ch) : j > i => ch[j].kind # k
    BY <1>4
  <2>2. \A j \in 1..Len(T) : j > i - 1 => T[j].kind # k
    BY <1>1, <1>2, <2>1
  <2>3. CASE i = 1
    <3>1. now = to
      BY <1>1, <2>1, <2>3
    <3>2. \A j \in 1..Len(T) : T[j].kind # k
      BY <1>1, <2>2, <2>3
    <3> QED BY <3>1, <3>2 DEF Known
  <2>4. CASE i # 1
    <3>1. PICK q \in 1..Len(T) : q = i - 1
      BY <1>1, <2>4
    <3>2. T[q] = ch[i]
      BY <1>1, <2>4, <3>1
    <3>3. \A j \in 1..Len(T) : j > q => T[j].kind # k
      BY <2>2, <3>1
    <3> QED BY <2>1, <3>2, <3>3 DEF Known
  <2> QED BY <2>3, <2>4
<1> QED BY <1>3, <1>4 DEF Known, T

\* A snapshot of the present status that is sent is covered.
LEMMA CoveredSent ==
    ASSUME NEW ch \in Seq(Told), NEW m \in Told, NEW k, NEW from, NEW f, NEW st, NEW e \in Nat,
           Covered(ch, k, from, f, st, e), m.kind = k => m.status = st
    PROVE  Covered(Append(ch, m), k, from, f, st, e)
<1> DEFINE A == Append(ch, m)
           N == Len(ch)
<1>1. /\ N \in Nat /\ Len(A) = N + 1
      /\ A[N + 1] = m
      /\ \A i \in 1..N : A[i] = ch[i]
  BY AppendIs
<1>2. PICK s \in [0..N -> Word], n \in [0..N -> Nat] :
        /\ Course(s, ch, k, from)
        /\ Counts(n, s, ch, f)
        /\ n[N] <= e
        /\ Edge(s[N], st) => n[N] + 1 <= e
  BY DEF Covered
<1>3. m.status \in Word
  BY DEF Told, Word
<1> DEFINE end == IF m.kind = k THEN m.status ELSE s[N]
           sum == IF Edge(s[N], end) THEN n[N] + 1 ELSE n[N]
           t == [i \in 0..(N + 1) |-> IF i = N + 1 THEN end ELSE s[i]]
           p == [i \in 0..(N + 1) |-> IF i = N + 1 THEN sum ELSE n[i]]
<1> HIDE DEF A, N
<1>4. /\ end \in Word /\ sum \in Nat /\ n[N] \in Nat /\ n[N] <= sum
      /\ Edge(s[N], end) => sum >= n[N] + 1
  BY <1>1, <1>3
<1>5. sum <= e /\ (Edge(end, st) => sum + 1 <= e)
  BY <1>1, <1>2, <1>4 DEF Edge
<1> HIDE DEF end, sum
<1>6. t \in [0..(N + 1) -> Word] /\ p \in [0..(N + 1) -> Nat]
  BY <1>1, <1>4
<1>7. t[N + 1] = end /\ p[N + 1] = sum /\ \A i \in 0..N : t[i] = s[i] /\ p[i] = n[i]
  BY <1>1
<1> HIDE DEF t, p
<1>8. Course(t, A, k, from)
  <2>1. t[0] = from
    BY <1>1, <1>2, <1>7 DEF Course
  <2>2. ASSUME NEW i \in 1..(N + 1)
        PROVE  t[i] = IF A[i].kind = k THEN A[i].status ELSE t[i - 1]
    <3>1. CASE i = N + 1
      <4>1. t[i] = end /\ t[i - 1] = s[N] /\ A[i] = m
        BY <1>1, <1>7, <3>1
      <4> QED BY <4>1 DEF end
    <3>2. CASE i # N + 1
      <4>1. i \in 1..N /\ i - 1 \in 0..N /\ i \in 0..N
        BY <1>1, <3>2
      <4>2. s[i] = IF ch[i].kind = k THEN ch[i].status ELSE s[i - 1]
        BY <1>2, <4>1 DEF Course, N
      <4> QED BY <1>1, <1>7, <4>1, <4>2
    <3> QED BY <3>1, <3>2
  <2> QED BY <1>1, <2>1, <2>2 DEF Course
<1>9. Counts(p, t, A, f)
  <2>0. /\ n[0] = f
        /\ \A i, j \in 0..N : i <= j => n[i] <= n[j]
        /\ \A i \in 1..N : Edge(s[i - 1], s[i]) => n[i] >= n[i - 1] + 1
    BY <1>2 DEF Counts, N
  <2>1. p[0] = f
    BY <1>1, <1>7, <2>0
  <2>2. ASSUME NEW i \in 0..(N + 1), NEW j \in 0..(N + 1), i <= j
        PROVE  p[i] <= p[j]
    <3>1. CASE j = N + 1 /\ i = N + 1
      BY <1>4, <1>7, <3>1
    <3>2. CASE j = N + 1 /\ i # N + 1
      <4>1. i \in 0..N /\ N \in 0..N
        BY <1>1, <3>2
      <4>2. n[i] <= n[N] /\ n[i] \in Nat
        BY <1>1, <2>0, <4>1
      <4> QED BY <1>4, <1>7, <3>2, <4>1, <4>2
    <3>3. CASE j # N + 1
      <4>1. i \in 0..N /\ j \in 0..N
        BY <1>1, <2>2, <3>3
      <4> QED BY <1>7, <2>0, <2>2, <4>1
    <3> QED BY <3>1, <3>2, <3>3
  <2>3. ASSUME NEW i \in 1..(N + 1), Edge(t[i - 1], t[i])
        PROVE  p[i] >= p[i - 1] + 1
    <3>1. CASE i = N + 1
      <4>1. t[i] = end /\ t[i - 1] = s[N] /\ p[i] = sum /\ p[i - 1] = n[N]
        BY <1>1, <1>7, <3>1
      <4> QED BY <1>4, <2>3, <4>1
    <3>2. CASE i # N + 1
      <4>1. i \in 1..N /\ i - 1 \in 0..N /\ i \in 0..N
        BY <1>1, <3>2
      <4> QED BY <1>7, <2>0, <2>3, <4>1
    <3> QED BY <3>1, <3>2
  <2> QED BY <1>1, <2>1, <2>2, <2>3 DEF Counts
<1> QED BY <1>1, <1>5, <1>6, <1>7, <1>8, <1>9 DEF Covered, A

\* A snapshot that is taken, and fires at a success, leaves the others covered.
LEMMA CoveredTaken ==
    ASSUME NEW ch \in Seq(Told), ch # <<>>, NEW k, NEW from, NEW f \in Nat, NEW g \in Nat,
           NEW st, NEW e \in Nat, NEW now, Covered(ch, k, from, f, st, e),
           now = IF Head(ch).kind = k THEN Head(ch).status ELSE from,
           g = f \/ (Edge(from, now) /\ g = f + 1)
    PROVE  Covered(Tail(ch), k, now, g, st, e)
<1> DEFINE T == Tail(ch)
           N == Len(ch)
<1>1. /\ Head(ch) = ch[1]
      /\ N \in Nat \ {0} /\ Len(T) = N - 1
      /\ \A i \in 1..(N - 1) : T[i] = ch[i + 1]
  BY TailIs
<1>2. PICK s \in [0..N -> Word], n \in [0..N -> Nat] :
        /\ Course(s, ch, k, from)
        /\ Counts(n, s, ch, f)
        /\ n[N] <= e
        /\ Edge(s[N], st) => n[N] + 1 <= e
  BY DEF Covered
<1> DEFINE t == [i \in 0..(N - 1) |-> s[i + 1]]
           p == [i \in 0..(N - 1) |-> IF i = 0 THEN g ELSE n[i + 1]]
<1> HIDE DEF T, N
<1>3. t \in [0..(N - 1) -> Word] /\ p \in [0..(N - 1) -> Nat]
  BY <1>1
<1>4. p[0] = g /\ \A i \in 0..(N - 1) : t[i] = s[i + 1] /\ (i # 0 => p[i] = n[i + 1])
  BY <1>1
<1> HIDE DEF t, p
<1>5. /\ s[0] = from
      /\ \A i \in 1..N : s[i] = IF ch[i].kind = k THEN ch[i].status ELSE s[i - 1]
  BY <1>2 DEF Course, N
<1>6. /\ n[0] = f
      /\ \A i, j \in 0..N : i <= j => n[i] <= n[j]
      /\ \A i \in 1..N : Edge(s[i - 1], s[i]) => n[i] >= n[i - 1] + 1
  BY <1>2 DEF Counts, N
<1>7. t[0] = now
  <2>1. s[1] = IF ch[1].kind = k THEN ch[1].status ELSE s[0]
    BY <1>1, <1>5
  <2> QED BY <1>1, <1>4, <1>5, <2>1
<1>8. \A i \in 1..N : n[i] \in Nat /\ g <= n[i]
  <2>1. 0 \in 0..N /\ 1 \in 0..N /\ 1 \in 1..N /\ 0 \in 0..(N - 1) /\ 1 - 1 = 0 /\ 0 + 1 = 1
    BY <1>1
  <2>2. n[1] \in Nat /\ f <= n[1]
    BY <1>6, <2>1
  <2>3. s[0] = from /\ s[1] = now
    BY <1>4, <1>5, <1>7, <2>1
  <2>4. Edge(s[0], s[1]) => n[1] >= n[0] + 1
    BY <1>6, <2>1
  <2>5. g <= n[1]
    BY <1>6, <2>2, <2>3, <2>4
  <2> QED BY <1>1, <1>6, <2>1, <2>2, <2>5
<1>9. Course(t, T, k, now)
  <2>1. ASSUME NEW i \in 1..(N - 1)
        PROVE  t[i] = IF T[i].kind = k THEN T[i].status ELSE t[i - 1]
    <3>1. i + 1 \in 1..N /\ i \in 0..(N - 1) /\ i - 1 \in 0..(N - 1)
      BY <1>1
    <3>2. t[i] = s[i + 1] /\ t[i - 1] = s[i] /\ T[i] = ch[i + 1]
      BY <1>1, <1>4, <3>1
    <3>3. s[i + 1] = IF ch[i + 1].kind = k THEN ch[i + 1].status ELSE s[i]
      BY <1>1, <1>5, <3>1
    <3> QED BY <3>2, <3>3
  <2> QED BY <1>1, <1>7, <2>1 DEF Course
<1>10. Counts(p, t, T, g)
  <2>1. ASSUME NEW i \in 0..(N - 1), NEW j \in 0..(N - 1), i <= j
        PROVE  p[i] <= p[j]
    <3>1. CASE i = 0 /\ j = 0
      BY <1>4, <3>1
    <3>2. CASE i = 0 /\ j # 0
      BY <1>1, <1>4, <1>8, <3>2
    <3>3. CASE i # 0
      <4>1. i + 1 \in 0..N /\ j + 1 \in 0..N /\ j # 0 /\ i + 1 <= j + 1
        BY <1>1, <2>1, <3>3
      <4> QED BY <1>4, <1>6, <3>3, <4>1
    <3> QED BY <3>1, <3>2, <3>3
  <2>2. ASSUME NEW i \in 1..(N - 1), Edge(t[i - 1], t[i])
        PROVE  p[i] >= p[i - 1] + 1
    <3>1. i + 1 \in 1..N /\ i \in 0..(N - 1) /\ i - 1 \in 0..(N - 1) /\ i \in 1..N /\ i # 0
      BY <1>1
    <3>2. Edge(s[i], s[i + 1]) /\ p[i] = n[i + 1]
      BY <1>1, <1>4, <2>2, <3>1
    <3>5. i + 1 - 1 = i
      BY <3>1
    <3>3. n[i + 1] >= n[i] + 1
      BY <1>6, <3>1, <3>2, <3>5
    <3>6. n[i] \in Nat /\ n[i + 1] \in Nat /\ g <= n[i] /\ p[i - 1] \in Nat
      BY <1>1, <1>3, <1>8, <3>1
    <3>4. p[i - 1] <= n[i]
      <4>1. CASE i - 1 = 0
        BY <1>4, <3>1, <3>6, <4>1
      <4>2. CASE i - 1 # 0
        <5>1. i - 1 + 1 = i
          BY <3>1
        <5> QED BY <1>4, <3>1, <3>6, <4>2, <5>1
      <4> QED BY <4>1, <4>2
    <3> QED BY <3>2, <3>3, <3>4, <3>6
  <2> QED BY <1>1, <1>4, <2>1, <2>2 DEF Counts
<1>11. /\ p[N - 1] <= e
       /\ Edge(t[N - 1], st) => p[N - 1] + 1 <= e
  <2>1. N - 1 \in 0..(N - 1) /\ N \in 1..N
    BY <1>1
  <2>2. t[N - 1] = s[N] /\ p[N - 1] <= n[N] /\ p[N - 1] \in Nat /\ n[N] \in Nat
    BY <1>1, <1>3, <1>4, <1>8, <2>1
  <2> QED BY <1>2, <2>2
<1> QED BY <1>1, <1>3, <1>9, <1>10, <1>11 DEF Covered, T

\* A success that is earned is covered, and any other status is.
LEMMA CoveredMoves ==
    ASSUME NEW ch \in Seq(Told), NEW k, NEW from, NEW f, NEW st, NEW e \in Nat,
           NEW new, NEW more \in Nat,
           Covered(ch, k, from, f, st, e), e <= more, Edge(st, new) => e + 1 <= more
    PROVE  Covered(ch, k, from, f, new, more)
<1>0. Len(ch) \in Nat
  OBVIOUS
<1>1. PICK s \in [0..Len(ch) -> Word], n \in [0..Len(ch) -> Nat] :
        /\ Course(s, ch, k, from)
        /\ Counts(n, s, ch, f)
        /\ n[Len(ch)] <= e
        /\ Edge(s[Len(ch)], st) => n[Len(ch)] + 1 <= e
  BY DEF Covered
<1>2. n[Len(ch)] \in Nat
  BY <1>0
<1>3. n[Len(ch)] <= more /\ (Edge(s[Len(ch)], new) => n[Len(ch)] + 1 <= more)
  BY <1>1, <1>2 DEF Edge
<1> QED BY <1>1, <1>3 DEF Covered

\* What has fired was earned.
LEMMA CoveredPays ==
    ASSUME NEW ch \in Seq(Told), NEW k, NEW from, NEW f \in Nat, NEW st, NEW e \in Nat,
           Covered(ch, k, from, f, st, e)
    PROVE  f <= e
<1>0. Len(ch) \in Nat
  OBVIOUS
<1>1. PICK s \in [0..Len(ch) -> Word], n \in [0..Len(ch) -> Nat] :
        Counts(n, s, ch, f) /\ n[Len(ch)] <= e
  BY DEF Covered
<1>2. n[0] = f /\ n[0] <= n[Len(ch)] /\ n[Len(ch)] \in Nat
  BY <1>0, <1>1 DEF Counts
<1> QED BY <1>1, <1>2

\* With nothing in the channel nothing more is to be had.
LEMMA CoveredEmpty ==
    ASSUME NEW k, NEW f \in Nat, NEW e \in Nat, f <= e
    PROVE  Covered(<<>>, k, "unseen", f, "idle", e)
<1> DEFINE s == [i \in 0..0 |-> "unseen"]
           n == [i \in 0..0 |-> f]
<1>1. Len(<<>>) = 0
  BY EmptySeq
<1>2. s \in [0..0 -> Word] /\ n \in [0..0 -> Nat]
  BY DEF Word
<1>3. Course(s, <<>>, k, "unseen") /\ Counts(n, s, <<>>, f)
  BY <1>1 DEF Course, Counts
<1>4. n[0] <= e /\ ~Edge(s[0], "idle")
  BY DEF Edge
<1> HIDE DEF s, n
<1> QED BY <1>1, <1>2, <1>3, <1>4 DEF Covered

-----------------------------------------------------------------------------
(* The steps.                                                              *)

LEMMA KindsAre == Kind = {"scan", "probe", "backfill"} /\ DOMAIN Rule = {"scan", "probe"}
BY DEF Kind, Target, Rule

\* A snapshot is of its kind.
LEMMA SnapshotTyped ==
    ASSUME TypeOK, NEW k \in Kind
    PROVE  SnapshotOf(k) \in Told /\ SnapshotOf(k).kind = k
<1>1. CASE k = "scan"
  <2>1. SnapshotOf(k) = [kind |-> k, status |-> ScanStatus(scan), run |-> NoCall]
    BY <1>1 DEF SnapshotOf
  <2>2. ScanStatus(scan) \in Status
    BY DEF ScanStatus, Status
  <2> QED BY <2>1, <2>2 DEF Told
<1>2. CASE k # "scan"
  <2>1. k \in Target
    BY <1>2 DEF Kind
  <2>2. SnapshotOf(k) = [kind |-> k, status |-> mapLegacyStatus(progress[k].status),
                         run |-> current[k]]
    BY <1>2 DEF SnapshotOf, Snapshot
  <2>3. /\ current[k] \in Call \cup {NoCall}
        /\ progress[k].status \in {"idle", "running", "stopping", "completed", "stopped",
                                   "error"}
    BY <2>1 DEF TypeOK, TaskTypeOK
  <2>4. mapLegacyStatus(progress[k].status) \in Status
    BY <2>3 DEF mapLegacyStatus, Status
  <2> QED BY <2>2, <2>3, <2>4 DEF Told
<1> QED BY <1>1, <1>2

\* A call of the chain is well typed.
LEMMA ChainCallTyped ==
    ASSUME TaskTypeOK, NEW c \in Call, NEW k, Arrive(c, k, "chain")
    PROVE  call' \in [Call -> [kind : Target, by : {"hand", "chain", "hook"}, at : Point]]
<1>1. call[c] \in [kind : Target, by : {"hand", "chain", "hook"}, at : Point]
  BY DEF TaskTypeOK
<1>2. call' = [call EXCEPT ![c] = [[call[c] EXCEPT !.by = "chain"] EXCEPT !.at = "gate"]]
  BY DEF Arrive, TaskTypeOK
<1>3. [[call[c] EXCEPT !.by = "chain"] EXCEPT !.at = "gate"]
        \in [kind : Target, by : {"hand", "chain", "hook"}, at : Point]
  BY <1>1 DEF Point
<1> QED BY <1>2, <1>3 DEF TaskTypeOK

\* What a kind of the tick does to the channel.
LEMMA Offered ==
    ASSUME TypeOK, NEW j \in Kind, NEW ch \in Seq(Told), Len(ch) <= Capacity
    PROVE  /\ Offer(j, ch) \in Seq(Told) /\ Len(Offer(j, ch)) <= Capacity
           /\ \/ Offer(j, ch) = ch /\ (Changed(j) => ~Fits(ch))
              \/ Offer(j, ch) = Append(ch, SnapshotOf(j)) /\ Changed(j) /\ Fits(ch)
<1>1. CASE Changed(j) /\ Fits(ch)
  <2>1. Offer(j, ch) = Append(ch, SnapshotOf(j))
    BY <1>1 DEF Offer, Push
  <2>2. SnapshotOf(j) \in Told
    BY SnapshotTyped
  <2>3. /\ Append(ch, SnapshotOf(j)) \in Seq(Told)
        /\ Len(ch) \in Nat /\ Len(Append(ch, SnapshotOf(j))) = Len(ch) + 1
    BY <2>2, AppendIs
  <2> QED BY <1>1, <2>1, <2>3, TaskCenterAssumption DEF Fits
<1>2. CASE ~(Changed(j) /\ Fits(ch))
  <2>1. Offer(j, ch) = ch
    BY <1>2 DEF Offer, Push
  <2> QED BY <1>2, <2>1
<1> QED BY <1>1, <1>2

LEMMA OfferKnown ==
    ASSUME TypeOK, NEW j \in Kind, NEW ch \in Seq(Told), Len(ch) <= Capacity,
           NEW k \in Kind, NEW from, NEW to
    PROVE  /\ k # j \/ ~Changed(k) =>
                (Known(ch, k, from, to) => Known(Offer(j, ch), k, from, to))
           /\ k = j /\ Changed(k) /\ Fits(ch) =>
                Known(Offer(j, ch), k, from, SnapshotOf(k).status)
<1>1. SnapshotOf(j) \in Told /\ SnapshotOf(j).kind = j
  BY SnapshotTyped
<1>2. CASE Offer(j, ch) = ch /\ (Changed(j) => ~Fits(ch))
  BY <1>2
<1>3. CASE Offer(j, ch) = Append(ch, SnapshotOf(j)) /\ Changed(j) /\ Fits(ch)
  <2>1. k = j => Known(Append(ch, SnapshotOf(j)), k, from, SnapshotOf(j).status)
    BY <1>1, KnownSent
  <2>2. k # j /\ Known(ch, k, from, to) => Known(Append(ch, SnapshotOf(j)), k, from, to)
    BY <1>1, KnownSent
  <2> QED BY <1>3, <2>1, <2>2
<1> QED BY <1>2, <1>3, Offered

LEMMA OfferCovered ==
    ASSUME TypeOK, NEW j \in Kind, NEW ch \in Seq(Told), Len(ch) <= Capacity,
           NEW k \in Kind, NEW from, NEW f, NEW e \in Nat,
           Covered(ch, k, from, f, SnapshotOf(k).status, e)
    PROVE  Covered(Offer(j, ch), k, from, f, SnapshotOf(k).status, e)
<1>1. SnapshotOf(j) \in Told /\ SnapshotOf(j).kind = j
  BY SnapshotTyped
<1>2. Covered(Append(ch, SnapshotOf(j)), k, from, f, SnapshotOf(k).status, e)
  BY <1>1, CoveredSent
<1> QED BY <1>2, Offered

\* A tick keeps what is known, and what is covered.
LEMMA BroadcastKeeps ==
    ASSUME ChainInv, Broadcast
    PROVE  ChainInv'
<1> DEFINE one == Offer("scan", channel)
           two == Offer("probe", one)
           three == Offer("backfill", two)
<1>0. TypeOK /\ AllKnown /\ AllCovered
  BY DEF ChainInv
<1>1. channel \in Seq(Told) /\ Len(channel) <= Capacity
  BY <1>0 DEF TypeOK
<1>2. one \in Seq(Told) /\ Len(one) <= Capacity
  BY <1>0, <1>1, KindsAre, Offered
<1>3. two \in Seq(Told) /\ Len(two) <= Capacity
  BY <1>0, <1>2, KindsAre, Offered
<1>4. three \in Seq(Told) /\ Len(three) <= Capacity
  BY <1>0, <1>3, KindsAre, Offered
<1>5. /\ prev' = [k \in Kind |-> IF Changed(k) THEN SnapshotOf(k) ELSE prev[k]]
      /\ channel' = three
      /\ UNCHANGED <<taskVars, scan, last, enabled, fired, earned>>
      /\ dropped' \subseteq Kind
      /\ \A k \in Kind \ dropped' :
            IF Changed(k)
            THEN /\ k = "scan" => Fits(channel)
                 /\ k = "probe" => Fits(one)
                 /\ k = "backfill" => Fits(two)
            ELSE k \notin dropped
  BY KindsAre DEF Broadcast
<1>6. \A k \in Kind : (SnapshotOf(k) = SnapshotOf(k)')
  BY <1>5 DEF SnapshotOf, Snapshot, taskVars
<1>7. TypeOK'
  <2>1. TaskTypeOK'
    BY <1>0, <1>5 DEF TypeOK, TaskTypeOK, taskVars
  <2>2. \A k \in Kind : prev'[k] = Unseen \/ (prev'[k] \in Told /\ prev'[k].kind = k)
    BY <1>0, <1>5, SnapshotTyped DEF TypeOK
  <2> QED BY <1>0, <1>4, <1>5, <2>1, <2>2 DEF TypeOK, Told
<1>8. AllKnown'
  <2>1. SUFFICES ASSUME NEW k \in Kind, k \notin dropped', prev'[k] # Unseen
                 PROVE  Known(three, k, last[k], prev'[k].status)
    BY <1>5 DEF AllKnown
  <2>2. CASE ~Changed(k)
    <3>1. prev'[k] = prev[k] /\ Known(channel, k, last[k], prev[k].status)
      BY <1>0, <1>5, <2>1, <2>2 DEF AllKnown
    <3>2. Known(one, k, last[k], prev[k].status)
      BY <1>0, <1>1, <2>2, <3>1, KindsAre, OfferKnown
    <3>3. Known(two, k, last[k], prev[k].status)
      BY <1>0, <1>2, <2>2, <3>2, KindsAre, OfferKnown
    <3>4. Known(three, k, last[k], prev[k].status)
      BY <1>0, <1>3, <2>2, <3>3, KindsAre, OfferKnown
    <3> QED BY <3>1, <3>4
  <2>3. CASE Changed(k)
    <3>0. prev'[k] = SnapshotOf(k)
      BY <1>5, <2>3
    <3>1. CASE k = "scan"
      <4>1. Known(one, k, last[k], SnapshotOf(k).status)
        BY <1>0, <1>1, <1>5, <2>1, <2>3, <3>1, KindsAre, OfferKnown
      <4>2. Known(two, k, last[k], SnapshotOf(k).status)
        BY <1>0, <1>2, <3>1, <4>1, KindsAre, OfferKnown
      <4> QED BY <1>0, <1>3, <3>0, <3>1, <4>2, KindsAre, OfferKnown
    <3>2. CASE k = "probe"
      <4>1. Known(two, k, last[k], SnapshotOf(k).status)
        BY <1>0, <1>2, <1>5, <2>1, <2>3, <3>2, KindsAre, OfferKnown
      <4> QED BY <1>0, <1>3, <3>0, <3>2, <4>1, KindsAre, OfferKnown
    <3>3. CASE k = "backfill"
      BY <1>0, <1>3, <1>5, <2>1, <2>3, <3>0, <3>3, KindsAre, OfferKnown
    <3> QED BY <3>1, <3>2, <3>3, KindsAre
  <2> QED BY <2>2, <2>3
<1>9. AllCovered'
  <2>1. SUFFICES ASSUME NEW k \in DOMAIN Rule
                 PROVE  Covered(three, k, last[k], fired[k], SnapshotOf(k).status, earned[k])
    BY <1>5, <1>6, KindsAre DEF AllCovered
  <2>2. k \in Kind /\ earned[k] \in Nat
    BY <1>0, KindsAre DEF TypeOK
  <2>3. Covered(channel, k, last[k], fired[k], SnapshotOf(k).status, earned[k])
    BY <1>0 DEF AllCovered
  <2>4. Covered(one, k, last[k], fired[k], SnapshotOf(k).status, earned[k])
    BY <1>0, <1>1, <2>2, <2>3, KindsAre, OfferCovered
  <2>5. Covered(two, k, last[k], fired[k], SnapshotOf(k).status, earned[k])
    BY <1>0, <1>2, <2>2, <2>4, KindsAre, OfferCovered
  <2> QED BY <1>0, <1>3, <2>2, <2>5, KindsAre, OfferCovered
<1> QED BY <1>7, <1>8, <1>9 DEF ChainInv

\* So does the engine.
LEMMA ReceiveKeeps ==
    ASSUME ChainInv, Receive
    PROVE  ChainInv'
<1>0. TypeOK /\ AllKnown /\ AllCovered
  BY DEF ChainInv
<1>1. PICK s : s = Head(channel)
  OBVIOUS
<1>2. /\ channel \in Seq(Told) /\ channel # <<>>
      /\ s \in Told
      /\ channel' = Tail(channel) /\ Tail(channel) \in Seq(Told)
      /\ Len(channel) \in Nat /\ Len(Tail(channel)) = Len(channel) - 1
  BY <1>0, <1>1, TailIs DEF Receive, TypeOK
<1>3. s.kind \in Kind /\ s.status \in Status
  BY <1>2 DEF Told
<1>4. /\ last' = [last EXCEPT ![s.kind] = s.status]
      /\ UNCHANGED <<progress, current, stopRequested, worker, tracker, row, ghosts,
                     scan, prev, enabled, earned, dropped>>
      /\ \/ /\ Fires(s) /\ fired' = [fired EXCEPT ![s.kind] = @ + 1]
            /\ \E c \in Call : Arrive(c, Rule[s.kind], "chain")
         \/ fired' = fired /\ call' = call
  BY <1>1 DEF Receive
<1>5. \A k \in Kind : /\ last'[k] = IF s.kind = k THEN s.status ELSE last[k]
                      /\ SnapshotOf(k)' = SnapshotOf(k)
  BY <1>0, <1>4 DEF TypeOK, SnapshotOf, Snapshot
<1>6. \A k \in DOMAIN Rule :
        /\ fired[k] \in Nat /\ fired'[k] \in Nat
        /\ fired'[k] = fired[k] \/ (Edge(last[k], last'[k]) /\ fired'[k] = fired[k] + 1)
  BY <1>0, <1>4, <1>5, KindsAre DEF TypeOK, Fires, Edge
<1>7. TypeOK'
  <2>1. call' \in [Call -> [kind : Target, by : {"hand", "chain", "hook"}, at : Point]]
    BY <1>0, <1>4, ChainCallTyped DEF TypeOK, TaskTypeOK
  <2>2. TaskTypeOK'
    BY <1>0, <1>4, <2>1 DEF TypeOK, TaskTypeOK, ghosts
  <2>3. last' \in [Kind -> Status \cup {"unseen"}]
    BY <1>0, <1>3, <1>4 DEF TypeOK
  <2>4. fired' \in [DOMAIN Rule -> Nat]
    <3>1. fired \in [DOMAIN Rule -> Nat]
      BY <1>0 DEF TypeOK
    <3>2. CASE fired' = fired
      BY <3>1, <3>2
    <3>3. CASE Fires(s) /\ fired' = [fired EXCEPT ![s.kind] = @ + 1]
      <4>1. s.kind \in DOMAIN Rule
        BY <3>3 DEF Fires
      <4> QED BY <3>1, <3>3, <4>1, KindsAre
    <3> QED BY <1>4, <3>2, <3>3
  <2>5. Len(channel') <= Capacity
    BY <1>0, <1>2, TaskCenterAssumption DEF TypeOK
  <2> QED BY <1>0, <1>2, <1>4, <2>2, <2>3, <2>4, <2>5 DEF TypeOK, Told
<1>8. AllKnown'
  <2>1. SUFFICES ASSUME NEW k \in Kind \ dropped, prev[k] # Unseen
                 PROVE  Known(Tail(channel), k, last'[k], prev[k].status)
    BY <1>2, <1>4 DEF AllKnown
  <2>2. Known(channel, k, last[k], prev[k].status)
    BY <1>0, <2>1 DEF AllKnown
  <2> QED BY <1>1, <1>2, <1>5, <2>2, KnownTaken
<1>9. AllCovered'
  <2>1. SUFFICES ASSUME NEW k \in DOMAIN Rule
                 PROVE  Covered(Tail(channel), k, last'[k], fired'[k], SnapshotOf(k).status,
                                earned[k])
    BY <1>2, <1>4, <1>5, KindsAre DEF AllCovered
  <2>2. Covered(channel, k, last[k], fired[k], SnapshotOf(k).status, earned[k])
    BY <1>0 DEF AllCovered
  <2>3. k \in Kind /\ earned[k] \in Nat
    BY <1>0, KindsAre DEF TypeOK
  <2> QED BY <1>1, <1>2, <1>5, <1>6, <2>2, <2>3, CoveredTaken
<1> QED BY <1>7, <1>8, <1>9 DEF ChainInv

\* A step outside the channel keeps what is known; it keeps what is covered when
\* each success that appears is earned.
LEMMA OutsideKeeps ==
    ASSUME ChainInv, TypeOK', UNCHANGED <<prev, channel, last, fired, dropped>>,
           \A k \in DOMAIN Rule :
               /\ earned[k] <= earned'[k]
               /\ Edge(SnapshotOf(k).status, SnapshotOf(k).status') => earned[k] + 1 <= earned'[k]
    PROVE  ChainInv'
<1>1. AllKnown'
  BY DEF ChainInv, AllKnown
<1>2. AllCovered'
  <2>1. SUFFICES ASSUME NEW k \in DOMAIN Rule
                 PROVE  Covered(channel, k, last[k], fired[k], SnapshotOf(k).status', earned'[k])
    BY DEF AllCovered
  <2>2. channel \in Seq(Told) /\ earned[k] \in Nat /\ earned'[k] \in Nat
    BY DEF ChainInv, TypeOK
  <2>3. Covered(channel, k, last[k], fired[k], SnapshotOf(k).status, earned[k])
    BY DEF ChainInv, AllCovered
  <2> QED BY <2>2, <2>3, CoveredMoves
<1> QED BY <1>1, <1>2 DEF ChainInv

\* The tasks.
LEMMA TaskKeeps ==
    ASSUME ChainInv, Task
    PROVE  ChainInv'
<1>0. /\ TypeOK /\ TaskTypeOK
      /\ earned' = [earned EXCEPT !["probe"] = @ + (IF Succeeds("probe") THEN 1 ELSE 0)]
      /\ UNCHANGED <<scan, prev, channel, last, enabled, fired, dropped>>
  BY DEF ChainInv, TypeOK, Task, chainVars
<1>1. TaskTypeOK'
  BY <1>0, NextTyped DEF Task, TaskNext
<1>2. TypeOK'
  BY <1>0, <1>1, KindsAre DEF TypeOK, Told
<1>3. \A k \in DOMAIN Rule :
        earned[k] \in Nat /\ earned'[k] = earned[k] + (IF k = "probe" /\ Succeeds("probe") THEN 1 ELSE 0)
  BY <1>0, KindsAre DEF TypeOK
<1>4. SnapshotOf("scan").status' = SnapshotOf("scan").status
  BY <1>0 DEF SnapshotOf
<1>5. Edge(SnapshotOf("probe").status, SnapshotOf("probe").status') => Succeeds("probe")
  BY DEF SnapshotOf, Snapshot, Edge, Succeeds
<1>6. \A k \in DOMAIN Rule :
        /\ earned[k] <= earned'[k]
        /\ Edge(SnapshotOf(k).status, SnapshotOf(k).status') => earned[k] + 1 <= earned'[k]
  BY <1>3, <1>4, <1>5, KindsAre DEF Edge
<1> QED BY <1>0, <1>2, <1>6, OutsideKeeps

\* The scans: when the last one ends, its success is counted.
LEMMA ScanKeeps ==
    ASSUME ChainInv, NEW l \in Library,
           StartScan(l) \/ CompleteScan(l) \/ FailScan(l) \/ Expire(l)
    PROVE  ChainInv'
<1>0. /\ TypeOK /\ TaskTypeOK
      /\ scan \in [Library -> {"none", "scanning", "completed", "failed"}]
  BY DEF ChainInv, TypeOK
<1>1. /\ UNCHANGED <<progress, current, stopRequested, call, worker, tracker, row, ghosts>>
      /\ UNCHANGED <<prev, channel, last, enabled, fired, dropped>>
  BY DEF StartScan, CompleteScan, FailScan, Expire, taskVars, chainVars, ghosts
<1>2. \E word \in {"none", "scanning", "completed", "failed"} : scan' = [scan EXCEPT ![l] = word]
  BY DEF StartScan, CompleteScan, FailScan, Expire
<1>3. /\ earned' \in [DOMAIN Rule -> Nat]
      /\ earned["scan"] \in Nat /\ earned["scan"] <= earned'["scan"]
      /\ earned'["probe"] = earned["probe"] /\ earned["probe"] \in Nat
  BY <1>0, KindsAre DEF StartScan, CompleteScan, FailScan, Expire, TypeOK
<1>4. TypeOK'
  BY <1>0, <1>1, <1>2, <1>3 DEF TypeOK, TaskTypeOK, Told, ghosts
<1>5. SnapshotOf("probe").status' = SnapshotOf("probe").status
  BY <1>1 DEF SnapshotOf, Snapshot
<1>6. Edge(ScanStatus(scan), ScanStatus(scan')) => earned["scan"] + 1 <= earned'["scan"]
  <2>1. CASE StartScan(l)
    <3>1. scan'[l] = "scanning"
      BY <1>0, <2>1 DEF StartScan
    <3>2. ScanStatus(scan') = "running"
      BY <3>1 DEF ScanStatus
    <3> QED BY <3>2 DEF Edge
  <2>2. CASE CompleteScan(l)
    BY <1>0, <2>2, KindsAre DEF CompleteScan, TypeOK
  <2>3. CASE FailScan(l)
    BY <1>0, <2>3, KindsAre DEF FailScan, TypeOK, Edge
  <2>4. CASE Expire(l)
    <3>1. \A m \in Library : scan'[m] = IF m = l THEN "none" ELSE scan[m]
      BY <1>0, <2>4 DEF Expire
    <3>2. scan[l] # "scanning"
      BY <2>4 DEF Expire
    <3>3. ScanStatus(scan') = "succeeded" => ScanStatus(scan) = "succeeded"
      BY <3>1, <3>2 DEF ScanStatus
    <3> QED BY <3>3 DEF Edge
  <2> QED BY <2>1, <2>2, <2>3, <2>4
<1>7. \A k \in DOMAIN Rule :
        /\ earned[k] <= earned'[k]
        /\ Edge(SnapshotOf(k).status, SnapshotOf(k).status') => earned[k] + 1 <= earned'[k]
  <2>1. /\ SnapshotOf("scan").status = ScanStatus(scan)
        /\ SnapshotOf("scan").status' = ScanStatus(scan')
    BY DEF SnapshotOf
  <2> QED BY <1>3, <1>5, <1>6, <2>1, KindsAre DEF Edge
<1> QED BY <1>1, <1>4, <1>7, OutsideKeeps

\* A restart: the engine knows nothing, and nothing has succeeded.
LEMMA RebootKeeps ==
    ASSUME ChainInv, Reboot
    PROVE  ChainInv'
<1>0. TypeOK /\ TaskTypeOK /\ AllCovered
  BY DEF ChainInv, TypeOK
<1>1. /\ Restart
      /\ scan' = [l \in Library |-> "none"]
      /\ prev' = [k \in Kind |-> Unseen]
      /\ channel' = <<>>
      /\ last' = [k \in Kind |-> "unseen"]
      /\ dropped' = {}
      /\ enabled' = enabled /\ fired' = fired /\ earned' = earned
  BY DEF Reboot
<1>2. TaskTypeOK'
  BY <1>0, <1>1, NextTyped DEF TaskNext
<1>3. <<>> \in Seq(Told) /\ Len(<<>>) = 0
  BY EmptySeq
<1>4. TypeOK'
  BY <1>0, <1>1, <1>2, <1>3, TaskCenterAssumption DEF TypeOK, Told
<1>5. AllKnown'
  BY <1>1 DEF AllKnown
<1>6. SnapshotOf("scan").status' = "idle" /\ SnapshotOf("probe").status' = "idle"
  <2>1. ScanStatus(scan') = "idle"
    BY <1>1 DEF ScanStatus
  <2>2. progress'["probe"].status = "idle"
    BY <1>1 DEF Restart, Idle, Target
  <2> QED BY <2>1, <2>2 DEF SnapshotOf, Snapshot, mapLegacyStatus
<1>7. AllCovered'
  <2>1. SUFFICES ASSUME NEW k \in DOMAIN Rule
                 PROVE  Covered(<<>>, k, "unseen", fired[k], "idle", earned[k])
    BY <1>1, <1>6, KindsAre DEF AllCovered
  <2>2. channel \in Seq(Told) /\ fired[k] \in Nat /\ earned[k] \in Nat
    BY <1>0 DEF TypeOK
  <2>3. fired[k] <= earned[k]
    BY <1>0, <2>2, CoveredPays DEF AllCovered
  <2> QED BY <2>2, <2>3, CoveredEmpty
<1> QED BY <1>4, <1>5, <1>7 DEF ChainInv

LEMMA InitChain == Init => ChainInv
<1> SUFFICES ASSUME Init PROVE ChainInv
  OBVIOUS
<1>1. TaskTypeOK
  BY InitTyped DEF Init
<1>2. <<>> \in Seq(Told) /\ Len(<<>>) = 0
  BY EmptySeq
<1>3. TypeOK
  BY <1>1, <1>2, TaskCenterAssumption DEF Init, TypeOK
<1>4. AllKnown
  BY DEF Init, AllKnown
<1>5. AllCovered
  <2>1. ScanStatus(scan) = "idle"
    BY DEF Init, ScanStatus
  <2>2. progress["probe"].status = "idle"
    BY DEF Init, TaskInit, Idle, Target
  <2>3. SnapshotOf("scan").status = "idle" /\ SnapshotOf("probe").status = "idle"
    BY <2>1, <2>2 DEF SnapshotOf, Snapshot, mapLegacyStatus
  <2>4. \A k \in DOMAIN Rule : Covered(<<>>, k, "unseen", 0, "idle", 0)
    BY CoveredEmpty
  <2> QED BY <2>3, <2>4, KindsAre DEF Init, AllCovered
<1> QED BY <1>3, <1>4, <1>5 DEF ChainInv

LEMMA NextChain == ChainInv /\ [Next]_vars => ChainInv'
<1> SUFFICES ASSUME ChainInv, [Next]_vars PROVE ChainInv'
  OBVIOUS
<1>1. CASE UNCHANGED vars
  <2>1. TypeOK'
    BY <1>1 DEF ChainInv, TypeOK, TaskTypeOK, Told, vars, taskVars, chainVars
  <2>2. UNCHANGED <<prev, channel, last, fired, dropped, earned, progress, current, scan>>
    BY <1>1 DEF vars, taskVars, chainVars
  <2>3. \A k \in DOMAIN Rule : earned[k] \in Nat /\ SnapshotOf(k).status' = SnapshotOf(k).status
    BY <2>2 DEF ChainInv, TypeOK, SnapshotOf, Snapshot
  <2>4. \A k \in DOMAIN Rule :
          /\ earned[k] <= earned'[k]
          /\ Edge(SnapshotOf(k).status, SnapshotOf(k).status') => earned[k] + 1 <= earned'[k]
    BY <2>2, <2>3 DEF Edge
  <2> QED BY <2>1, <2>2, <2>4, OutsideKeeps
<1>2. CASE SetEnabled
  <2>1. UNCHANGED <<progress, current, stopRequested, call, worker, tracker, row, ghosts,
                    scan, prev, channel, last, fired, earned, dropped>> /\ enabled' = ~enabled
    BY <1>2 DEF SetEnabled
  <2>2. TypeOK'
    BY <2>1 DEF ChainInv, TypeOK, TaskTypeOK, Told, ghosts
  <2>3. \A k \in DOMAIN Rule : earned[k] \in Nat /\ SnapshotOf(k).status' = SnapshotOf(k).status
    BY <2>1 DEF ChainInv, TypeOK, SnapshotOf, Snapshot
  <2>4. \A k \in DOMAIN Rule :
          /\ earned[k] <= earned'[k]
          /\ Edge(SnapshotOf(k).status, SnapshotOf(k).status') => earned[k] + 1 <= earned'[k]
    BY <2>1, <2>3 DEF Edge
  <2> QED BY <2>1, <2>2, <2>4, OutsideKeeps
<1> QED BY <1>1, <1>2, TaskKeeps, ScanKeeps, BroadcastKeeps, ReceiveKeeps, RebootKeeps DEF Next

\* The registry, the channel and the engine hold snapshots of their kinds and
\* the channel never more than its capacity.
THEOREM ChainTyped == Spec => []TypeOK
<1>1. ChainInv => TypeOK
  BY DEF ChainInv
<1> QED BY <1>1, InitChain, NextChain, PTL DEF Spec

\* When all is sent and read the engine knows every status that was not
\* dropped (registry.go:90).
THEOREM EngineKnows == Spec => []EngineCatchesUp
<1>1. ChainInv => EngineCatchesUp
  <2>1. SUFFICES ASSUME ChainInv, NEW k \in Kind \ dropped, ~Changed(k),
                        \A i \in 1..Len(channel) : channel[i].kind # k
                 PROVE  last[k] = SnapshotOf(k).status
    BY DEF EngineCatchesUp
  <2>2. prev[k] # Unseen /\ prev[k] = SnapshotOf(k)
    BY <2>1 DEF Changed, snapshotEqual
  <2>3. Known(channel, k, last[k], prev[k].status)
    BY <2>1, <2>2 DEF ChainInv, AllKnown
  <2> QED BY <2>1, <2>2, <2>3 DEF Known
<1> QED BY <1>1, InitChain, NextChain, PTL DEF Spec

\* The chain starts the next task at most once for each success (chain.go:92).
THEOREM ChainPays == Spec => []ChainEarned
<1>1. ChainInv => ChainEarned
  <2>1. SUFFICES ASSUME ChainInv, NEW k \in DOMAIN Rule PROVE fired[k] <= earned[k]
    BY DEF ChainEarned
  <2>2. channel \in Seq(Told) /\ fired[k] \in Nat /\ earned[k] \in Nat
    BY <2>1 DEF ChainInv, TypeOK
  <2> QED BY <2>1, <2>2, CoveredPays DEF ChainInv, AllCovered
<1> QED BY <1>1, InitChain, NextChain, PTL DEF Spec
=============================================================================
