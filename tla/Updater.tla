------------------------------- MODULE Updater -------------------------------
(***************************************************************************)
(* The self-updater of services/updater*.go: requests of administrators,   *)
(* the state file they share with the helper container, the two ways to    *)
(* install (a file that is replaced, a container that is recreated), and   *)
(* the row of task_runs that follows an update.                            *)
(*                                                                         *)
(* Versions are numbers, 0 stands for the empty string.  One step is one   *)
(* critical section of Updater.mu, one call of the Docker API or one       *)
(* operation on a file.  A request of Reqs is used once.                   *)
(***************************************************************************)
EXTENDS Naturals, Sequences, FiniteSets, SequencesExt

CONSTANTS Reqs,        \* requests, each made at most once
          Home,        \* the container (or the process) FYMS starts in
          None,        \* no run is followed
          MaxVersion,  \* bound: versions published
          MaxFaults,   \* bound: crashes of a server or of a helper
          Modes,       \* deployments: "docker", "binary"
          Acts         \* what requests ask for

ASSUME UpdaterAssumption ==
    /\ Home \notin Reqs /\ None \notin Reqs
    /\ MaxVersion \in Nat \ {0} /\ MaxFaults \in Nat
    /\ Modes \subseteq {"docker", "binary"}
    /\ Acts \subseteq {"apply", "task", "version", "rollback", "check"}

VARIABLES
    mode,      \* DetectDeploymentMode
    latest,    \* the newest version published
    st,        \* state.json
    exe,       \* the version the executable file holds, 0 if it is truncated
    backups,   \* the .bak files, newest first: the version in the name, the version inside
    conts,     \* containers; Home is the process itself when there are none
    req,       \* requests
    pending,   \* requests whose exec is about to happen
    helper,    \* the helper a request has started
    cur,       \* UpdateAdapter.currentRunID of the server in a container
    trk,       \* the tracker of a request's run
    row,       \* the request's row of task_runs
    faults,    \* crashes so far
    stray      \* ghost: the reasons for which a status may have been left behind

vars == <<mode, latest, st, exe, backups, conts, req, pending, helper, cur, trk,
          row, faults, stray>>

files  == <<exe, backups>>
tracks == <<cur, trk, row>>
env    == <<mode, latest, faults>>

Version == 1 .. MaxVersion
Conts   == Reqs \cup {Home}
Active  == {"checking", "backing_up", "pulling", "recreating", "rolling_back", "restarting"}
Status  == Active \cup {"idle", "available", "completed", "failed"}
Live    == {"boot", "wired", "up"}

\* Where a request is: before its last look at the status, and past it.
Looking  == {"mark", "backup", "gate", "resolve", "guard", "check", "lookup", "guard2"}
ByFile   == {"pull", "fetch", "save", "note", "install", "restart", "stat", "keep", "restore"}
ByHelper == {"create", "launch", "told"}
Point    == {"unused", "begin", "done"} \cup Looking \cup ByFile \cup ByHelper

\* Where a helper is.
HelperPoint == {"off", "begin", "pull", "rename", "stop", "new", "start", "undo", "finish"}

\* isUpdateTaskActive.
isUpdateTaskActive == st.status \in Active

\* Mutant: the row takes over the updater's own word.
mapLegacyStatus_Raw(s) == IF s \in Active THEN "running" ELSE s

\* mapLegacyStatus: "rolling_back" is not among the names it knows.
mapLegacyStatus(s) ==
    CASE s \in Active \ {"rolling_back"}  -> "running"
      [] s \in {"completed", "available"} -> "succeeded"
      [] s = "failed"                     -> "failed"
      [] OTHER                            -> "idle"

\* compareVersions, on versions that are numbers.
hasUpdate(v) == v < latest

NoHelper == [pc |-> "off", orig |-> None]

Running(r) == conts[req[r].at].ver
Go(r, pc)  == req' = [req EXCEPT ![r].pc = pc]

\* A request that knows which version it is about.
GoFor(r, pc, v) == req' = [req EXCEPT ![r].pc = pc, ![r].ver = v]

At(r, pc)  == req[r].pc = pc /\ conts[req[r].at].on = "up"

\* MarkFailure.
Failure == [st EXCEPT !.status = "failed"]

\* An error that ends a request: only the handler of "apply" marks the failure.
Fail(r) ==
    /\ Go(r, "done")
    /\ st' = IF req[r].act = "apply" THEN Failure ELSE st

\* Past the last look at the status, and not yet done with files and containers.
Installing(r) ==
    \/ req[r].pc \in ByFile \cup ByHelper
    \/ r \in pending \/ helper[r].pc # "off"

\* Ghost: an update that goes past its last look while another one is under way.
Meets(r) ==
    stray' = IF req'[r].pc # "done" /\ \E q \in Reqs \ {r} : Installing(q)
             THEN stray \cup {"overlap"} ELSE stray

-----------------------------------------------------------------------------
Init ==
    /\ mode \in Modes
    /\ latest = 1
    /\ st = [status |-> "idle", target |-> 0, previous |-> 0, back |-> 0]
    /\ exe = 1
    /\ backups = <<>>
    /\ conts = [c \in Conts |-> IF c = Home
                                THEN [ver |-> 1, name |-> Home, on |-> "up"]
                                ELSE [ver |-> 0, name |-> None, on |-> "absent"]]
    /\ req = [r \in Reqs |-> [pc |-> "unused", act |-> "check", ver |-> 0, at |-> Home]]
    /\ pending = {}
    /\ helper = [r \in Reqs |-> NoHelper]
    /\ cur = [c \in Conts |-> None]
    /\ trk = [r \in Reqs |-> "off"]
    /\ row = [r \in Reqs |-> "none"]
    /\ faults = 0
    /\ stray = {}

\* A release is published (outside).
Publish ==
    /\ latest < MaxVersion
    /\ latest' = latest + 1
    /\ UNCHANGED <<mode, st, files, conts, req, pending, helper, tracks, faults, stray>>

-----------------------------------------------------------------------------
\* The way every request begins.

\* A handler of handlers/system, or the task center's own route ("task").
Request(r) ==
    \E c \in Conts, a \in Acts :
        /\ req[r].pc = "unused" /\ conts[c].on = "up"
        /\ req' = [req EXCEPT ![r] =
                     [pc  |-> CASE a = "apply" -> "mark" [] a = "check" -> "check"
                                [] OTHER -> "gate",
                      act |-> a, ver |-> 0, at |-> c]]
        /\ UNCHANGED <<env, st, files, conts, pending, helper, tracks, stray>>

\* applyUpdate: the status says that a backup is being made...
MarkBackingUp(r) ==
    /\ At(r, "mark")
    /\ st' = [st EXCEPT !.status = "backing_up"]
    /\ Go(r, "backup")
    /\ UNCHANGED <<env, files, conts, pending, helper, tracks, stray>>

\* ...and createBackupSnapshot makes it.
CreateBackup(r) ==
    /\ At(r, "backup")
    /\ \/ Go(r, "gate") /\ UNCHANGED st
       \/ Fail(r)
    /\ UNCHANGED <<env, files, conts, pending, helper, tracks, stray>>

\* UpdateAdapter.Start: while a run is followed its id is the answer.
Gate(r) ==
    /\ At(r, "gate")
    /\ IF cur[req[r].at] # None
       THEN /\ Go(r, "done")
            /\ stray' = IF req[r].act = "apply" THEN stray \cup {"gate"} ELSE stray
       ELSE /\ Go(r, IF req[r].act = "version" THEN "resolve" ELSE "guard")
            /\ UNCHANGED stray
    /\ UNCHANGED <<env, st, files, conts, pending, helper, tracks>>

\* StartApplyVersion looks the version up before anything else.
Resolve(r) ==
    /\ At(r, "resolve")
    /\ \/ \E v \in 1 .. latest : GoFor(r, "guard2", v)
       \/ Go(r, "done")
    /\ UNCHANGED <<env, st, files, conts, pending, helper, tracks, stray>>

\* startApplyDocker, startApplyBinary: the first look at the status.
Guard(r) ==
    /\ At(r, "guard") /\ req[r].act # "rollback"
    /\ IF isUpdateTaskActive
       THEN Fail(r)
       ELSE Go(r, "check") /\ UNCHANGED st
    /\ UNCHANGED <<env, files, conts, pending, helper, tracks, stray>>

\* Check up to the lookup.
CheckBegins(r) ==
    /\ At(r, "check")
    /\ st' = [st EXCEPT !.status = "checking"]
    /\ Go(r, "lookup")
    /\ UNCHANGED <<env, files, conts, pending, helper, tracks, stray>>

\* Mutant: a lookup that fails returns at once.
CheckEnds_KeepsChecking(r) ==
    /\ At(r, "lookup") /\ Go(r, "done")
    /\ UNCHANGED <<env, st, files, conts, pending, helper, tracks, stray>>

\* Check after the lookup; an update goes on with the version found.  The
\* lookup that startApplyBinary repeats finds the same version or fails.
CheckEnds(r) ==
    LET found == [st EXCEPT !.target = latest,
                            !.status = IF hasUpdate(Running(r)) THEN "available" ELSE "idle"]
    IN  /\ At(r, "lookup")
        /\ \/ st' = Failure /\ Go(r, "done")
           \/ /\ hasUpdate(Running(r)) /\ req[r].act # "check"
              /\ st' = found
              /\ GoFor(r, "guard2", latest)
           \/ /\ req[r].act = "check" \/ ~hasUpdate(Running(r)) \/ mode = "binary"
              /\ st' = IF req[r].act = "apply" THEN [found EXCEPT !.status = "failed"] ELSE found
              /\ Go(r, "done")
        /\ stray' = IF \E q \in Reqs : Installing(q) THEN stray \cup {"checked"} ELSE stray
        /\ UNCHANGED <<env, files, conts, pending, helper, tracks>>

\* startApplyDockerRelease, startApplyBinaryRelease: the second look.
Guard2(r) ==
    /\ At(r, "guard2")
    /\ IF isUpdateTaskActive
       THEN Fail(r)
       ELSE Go(r, IF mode = "docker" THEN "create" ELSE "pull") /\ UNCHANGED st
    /\ Meets(r)
    /\ UNCHANGED <<env, files, conts, pending, helper, tracks>>

\* startRollbackDocker, startRollbackBinary: the look at the status.
GuardBack(r) ==
    /\ At(r, "guard") /\ req[r].act = "rollback"
    /\ IF isUpdateTaskActive \/ st.previous = 0
       THEN Go(r, "done")
       ELSE GoFor(r, IF mode = "docker" THEN "create" ELSE "stat", st.previous)
    /\ Meets(r)
    /\ UNCHANGED <<env, st, files, conts, pending, helper, tracks>>

-----------------------------------------------------------------------------
\* A binary that replaces itself.

Pull(r) ==
    /\ At(r, "pull")
    /\ st' = [st EXCEPT !.status = "pulling", !.target = req[r].ver]
    /\ Go(r, "fetch")
    /\ UNCHANGED <<env, files, conts, pending, helper, tracks, stray>>

\* Download and checksum.
Fetch(r) ==
    /\ At(r, "fetch")
    /\ \/ st' = [st EXCEPT !.status = "recreating"] /\ Go(r, "save")
       \/ st' = Failure /\ Go(r, "done")
    /\ UNCHANGED <<env, files, conts, pending, helper, tracks, stray>>

\* The backups but the one of version v: a name is in use once.
Without(v) ==
    LET named == {i \in DOMAIN backups : backups[i].of = v}
    IN  IF named = {} THEN backups ELSE RemoveAt(backups, CHOOSE i \in named : TRUE)

\* The backups with the one of version v, which holds x, written now.
Backup(v, x) == <<[of |-> v, holds |-> x]>> \o Without(v)

\* pruneBackups keeps two.
pruneBackups(bs) == SubSeq(bs, 1, IF Len(bs) < 2 THEN Len(bs) ELSE 2)

\* Mutant: the backup is named after the version to install.
Save_NamedByTarget(r) ==
    /\ At(r, "save") /\ Go(r, "note")
    /\ backups' = pruneBackups(Backup(req[r].ver, exe))
    /\ UNCHANGED <<env, st, exe, conts, pending, helper, tracks, stray>>

\* Unpack and keep the executable as the backup of the version that runs.
Save(r) ==
    /\ At(r, "save")
    /\ \/ /\ backups' = pruneBackups(Backup(Running(r), exe))
          /\ Go(r, "note") /\ UNCHANGED st
       \/ /\ backups' \in {backups, Without(Running(r)), Backup(Running(r), 0)}
          /\ st' = Failure /\ Go(r, "done")
    /\ UNCHANGED <<env, exe, conts, pending, helper, tracks, stray>>

Note(r) ==
    /\ At(r, "note")
    /\ st' = [st EXCEPT !.previous = Running(r), !.back = 0]
    /\ Go(r, "install")
    /\ UNCHANGED <<env, files, conts, pending, helper, tracks, stray>>

\* Rename, or a copy, which can break off.
Install(r) ==
    /\ At(r, "install")
    /\ \/ exe' = req[r].ver /\ Go(r, "restart") /\ UNCHANGED st
       \/ exe' \in {exe, 0} /\ st' = Failure /\ Go(r, "done")
    /\ UNCHANGED <<env, backups, conts, pending, helper, tracks, stray>>

Restart(r) ==
    /\ At(r, "restart")
    /\ st' = [st EXCEPT !.status = "restarting"]
    /\ pending' = pending \cup {r}
    /\ Go(r, "begin")
    /\ UNCHANGED <<env, files, conts, helper, tracks, stray>>

\* startRollbackBinary once the backup has been seen.
BackStarts(r) ==
    /\ At(r, "stat")
    /\ IF \E i \in DOMAIN backups : backups[i].of = req[r].ver
       THEN /\ st' = [st EXCEPT !.status = "rolling_back", !.back = req[r].ver]
            /\ Go(r, "keep")
       ELSE Go(r, "done") /\ UNCHANGED st
    /\ UNCHANGED <<env, files, conts, pending, helper, tracks, stray>>

\* The executable becomes the backup of the version that runs, errors ignored.
Keep(r) ==
    /\ At(r, "keep")
    /\ backups' \in {backups, Backup(Running(r), exe), Backup(Running(r), 0)}
    /\ Go(r, "restore")
    /\ UNCHANGED <<env, st, exe, conts, pending, helper, tracks, stray>>

Restore(r) ==
    /\ At(r, "restore")
    /\ \/ \E i \in DOMAIN backups : /\ backups[i].of = req[r].ver
                                    /\ exe' = backups[i].holds
          /\ Go(r, "restart") /\ UNCHANGED st
       \/ exe' \in {exe, 0} /\ st' = Failure /\ Go(r, "done")
    /\ UNCHANGED <<env, backups, conts, pending, helper, tracks, stray>>

\* The memory of the server in container c is gone.
Forget(c) ==
    /\ req' = [r \in Reqs |-> IF req[r].at = c /\ req[r].pc # "unused"
                              THEN [req[r] EXCEPT !.pc = "done"] ELSE req[r]]
    /\ cur' = [cur EXCEPT ![c] = None]
    /\ trk' = [r \in Reqs |-> IF req[r].at = c THEN "off" ELSE trk[r]]
    /\ pending' = {r \in pending : req[r].at # c}

\* execSelf, 300 ms after the answer.
Exec(r) ==
    /\ r \in pending
    /\ \/ /\ exe # 0
          /\ conts' = [conts EXCEPT ![Home].ver = exe, ![Home].on = "boot"]
          /\ Forget(Home) /\ UNCHANGED st
          /\ stray' = IF \E q \in Reqs : req[q].pc \notin {"unused", "begin", "done"}
                      THEN stray \cup {"killed"} ELSE stray
       \/ /\ st' = Failure
          /\ pending' = pending \ {r}
          /\ stray' = stray \cup {"exec"}
          /\ UNCHANGED <<conts, req, cur, trk>>
    /\ UNCHANGED <<env, files, helper, row>>

-----------------------------------------------------------------------------
\* A container that a helper recreates.

\* The helper's container is created and the version to return to is noted.
Create(r) ==
    /\ At(r, "create")
    /\ \/ /\ Go(r, "launch")
          /\ st' = IF req[r].act = "rollback" THEN st
                   ELSE [st EXCEPT !.previous = Running(r), !.back = 0]
       \/ Fail(r)
    /\ UNCHANGED <<env, files, conts, pending, helper, tracks, stray>>

Launch(r) ==
    /\ At(r, "launch")
    /\ \/ helper' = [helper EXCEPT ![r].pc = "begin"] /\ Go(r, "told") /\ UNCHANGED st
       \/ Fail(r) /\ UNCHANGED helper
    /\ UNCHANGED <<env, files, conts, pending, tracks, stray>>

\* The last section: whatever the helper has written meanwhile is replaced.
Told(r) ==
    /\ At(r, "told")
    /\ st' = IF req[r].act = "rollback"
             THEN [st EXCEPT !.status = "restarting", !.back = req[r].ver, !.target = 0]
             ELSE [st EXCEPT !.status = "restarting", !.target = req[r].ver,
                             !.previous = Running(r), !.back = 0]
    /\ stray' = IF helper[r].pc = "off" THEN stray \cup {"late"} ELSE stray
    /\ Go(r, "begin")
    /\ UNCHANGED <<env, files, conts, pending, helper, tracks>>

HelperAt(r, pc) == helper[r].pc = pc
HelperGo(r, pc) ==
    helper' = [helper EXCEPT ![r] = IF pc = "off" THEN NoHelper ELSE [@ EXCEPT !.pc = pc]]
HelperFails(r)  == st' = Failure /\ HelperGo(r, "off")

\* RunUpdaterRunnerFromEnv: the first thing it writes.
HelperBegins(r) ==
    /\ HelperAt(r, "begin")
    /\ st' = IF req[r].act = "rollback"
             THEN [st EXCEPT !.status = "rolling_back", !.back = req[r].ver]
             ELSE [st EXCEPT !.status = "pulling", !.target = req[r].ver]
    /\ HelperGo(r, "pull")
    /\ UNCHANGED <<env, files, conts, req, pending, tracks, stray>>

\* The image is pulled, except for a rollback, and the next thing is written.
HelperPulls(r) ==
    /\ HelperAt(r, "pull")
    /\ \/ st' = [st EXCEPT !.status = "recreating"] /\ HelperGo(r, "rename")
       \/ req[r].act # "rollback" /\ HelperFails(r)
    /\ UNCHANGED <<env, files, conts, req, pending, tracks, stray>>

\* inspectContainer and renameContainer.
HelperRenames(r) ==
    LET old == req[r].at
    IN  /\ HelperAt(r, "rename")
        /\ \/ /\ conts[old].on # "absent"
              /\ helper' = [helper EXCEPT ![r].pc = "stop", ![r].orig = conts[old].name]
              /\ conts' = [conts EXCEPT ![old].name = r]
              /\ UNCHANGED st
           \/ HelperFails(r) /\ UNCHANGED conts
        /\ UNCHANGED <<env, files, req, pending, tracks, stray>>

\* Mutant: the error of stopContainer is dropped.
HelperStops_GoesOn(r) ==
    /\ HelperAt(r, "stop")
    /\ HelperGo(r, "new")
    /\ UNCHANGED <<env, st, files, conts, req, pending, tracks, stray>>

\* stopContainer; a container that is stopped already is an error (status 304).
HelperStops(r) ==
    LET old == req[r].at
    IN  /\ HelperAt(r, "stop")
        /\ \/ /\ conts[old].on \in Live
              /\ conts' = [conts EXCEPT ![old].on = "off"]
              /\ Forget(old)
              /\ HelperGo(r, "new")
           \/ HelperGo(r, "undo") /\ UNCHANGED <<conts, req, cur, trk, pending>>
        /\ UNCHANGED <<env, st, files, row, stray>>

Taken(name) == \E c \in Conts : conts[c].on # "absent" /\ conts[c].name = name

\* createContainer under the old name.
HelperCreates(r) ==
    /\ HelperAt(r, "new")
    /\ \/ /\ ~Taken(helper[r].orig)
          /\ conts' = [conts EXCEPT ![r] = [ver |-> req[r].ver, name |-> helper[r].orig,
                                            on |-> "off"]]
          /\ HelperGo(r, "start")
       \/ HelperGo(r, "undo") /\ UNCHANGED conts
    /\ UNCHANGED <<env, st, files, req, pending, tracks, stray>>
\* Mutant: a replacement that does not start is only reported.
HelperStarts_NoUndo(r) ==
    /\ HelperAt(r, "start")
    /\ HelperFails(r)
    /\ UNCHANGED <<env, files, conts, req, pending, tracks, stray>>

HelperStarts(r) ==
    /\ HelperAt(r, "start")
    /\ \/ /\ conts' = [conts EXCEPT ![r].on = "boot"]
          /\ HelperGo(r, "finish")
       \/ HelperGo(r, "undo") /\ UNCHANGED conts
    /\ UNCHANGED <<env, st, files, req, pending, tracks, stray>>

\* The containers once the new one is removed, the old one has its name again and
\* is started, as far as that succeeds.
Undone(r, gone, named, started) ==
    [c \in Conts |->
        IF c = r /\ gone THEN [ver |-> 0, name |-> None, on |-> "absent"]
        ELSE IF c # req[r].at \/ conts[c].on = "absent" THEN conts[c]
        ELSE [conts[c] EXCEPT !.name = IF named THEN helper[r].orig ELSE @,
                              !.on = IF started /\ @ = "off" THEN "boot" ELSE @]]

\* rollbackDockerUpdate: each of its three calls can fail by itself.
HelperUndoes(r) ==
    LET old == req[r].at
    IN  /\ HelperAt(r, "undo")
        /\ \E gone, named, started \in BOOLEAN :
             /\ conts[r].on = "absent" => gone
             /\ named => \A c \in Conts \ {old} : conts[c].name = helper[r].orig
                                                    => conts[c].on = "absent" \/ (c = r /\ gone)
             /\ started => conts[old].on # "absent"
             /\ conts' = Undone(r, gone, named, started)
             /\ stray' = IF started THEN stray ELSE stray \cup {"undo"}
        /\ HelperFails(r)
        /\ UNCHANGED <<env, files, req, pending, tracks>>

\* The old container is removed if it is stopped, and the end is written.
HelperFinishes(r) ==
    LET old == req[r].at
    IN  /\ HelperAt(r, "finish")
        /\ \/ /\ conts[old].on = "off"
              /\ conts' = [conts EXCEPT ![old] = [ver |-> 0, name |-> None, on |-> "absent"]]
           \/ UNCHANGED conts
        /\ IF req[r].act = "rollback"
           THEN /\ st' = [st EXCEPT !.status = "restarting", !.back = req[r].ver, !.target = 0]
                /\ stray' = stray \cup {"back"}
           ELSE st' = [st EXCEPT !.status = "completed"] /\ UNCHANGED stray
        /\ HelperGo(r, "off")
        /\ UNCHANGED <<env, files, req, pending, tracks>>

-----------------------------------------------------------------------------
\* A server that starts, and what follows a run.

\* Mutant: any restart counts as the end of the update.
Finalize_AnyVersion(v) == IF st.status = "restarting" THEN [st EXCEPT !.status = "completed"] ELSE st

\* finalizeRestartStateLocked.
Finalize(v) ==
    IF st.status # "restarting" THEN st
    ELSE IF st.back # 0
    THEN IF v = st.back
         THEN [status |-> "completed", target |-> 0, previous |-> 0, back |-> 0]
         ELSE Failure
    ELSE IF v = st.target THEN [st EXCEPT !.status = "completed"] ELSE Failure

\* NewUpdater.
Boot(c) ==
    /\ conts[c].on = "boot"
    /\ st' = Finalize(conts[c].ver)
    /\ conts' = [conts EXCEPT ![c].on = "wired"]
    /\ UNCHANGED <<env, files, req, pending, helper, tracks, stray>>

\* Mutant: only a failure is carried over into the history.
Reconcile_FailuresOnly(c) ==
    /\ conts[c].on = "wired"
    /\ row' = [r \in Reqs |-> IF row[r] = "running" /\ st.status = "failed" THEN "failed" ELSE row[r]]
    /\ conts' = [conts EXCEPT ![c].on = "up"]
    /\ UNCHANGED <<env, st, files, req, pending, helper, cur, trk, stray>>

\* ReconcileUpdateRunsOnStartup.
Reconcile(c) ==
    LET s == mapLegacyStatus(st.status)
    IN  /\ conts[c].on = "wired"
        /\ row' = [r \in Reqs |-> IF row[r] # "running" \/ s = "running" THEN row[r]
                                  ELSE IF s = "idle" THEN "cancelled" ELSE s]
        /\ conts' = [conts EXCEPT ![c].on = "up"]
        /\ stray' = IF s = "running" /\ \E r \in Reqs : row[r] = "running"
                    THEN stray \cup {"early"} ELSE stray
        /\ UNCHANGED <<env, st, files, req, pending, helper, cur, trk>>

\* UpdateAdapter: the row and its tracker, after the update has been started.
Begin(r) ==
    /\ At(r, "begin")
    /\ \/ /\ row' = [row EXCEPT ![r] = "running"]
          /\ cur' = [cur EXCEPT ![req[r].at] = r]
          /\ trk' = [trk EXCEPT ![r] = "new"]
       \/ UNCHANGED tracks
    /\ Go(r, "done")
    /\ UNCHANGED <<env, st, files, conts, pending, helper, stray>>

\* trackApply: an end counts only after the run has been seen running.  An
\* idle updater means cancelled if somebody has called Stop, at any time.
Track(r) ==
    LET s == mapLegacyStatus(st.status)
    IN  /\ trk[r] # "off" /\ conts[req[r].at].on = "up"
        /\ IF s = "running"
           THEN trk[r] = "new" /\ trk' = [trk EXCEPT ![r] = "seen"] /\ UNCHANGED <<cur, row>>
           ELSE /\ trk[r] = "seen"
                /\ trk' = [trk EXCEPT ![r] = "off"]
                /\ \E end \in IF s = "idle" THEN {"succeeded", "cancelled"} ELSE {s} :
                      row' = [row EXCEPT ![r] = IF @ = "running" THEN end ELSE @]
                /\ cur' = [cur EXCEPT ![req[r].at] = None]
        /\ UNCHANGED <<env, st, files, conts, req, pending, helper, stray>>

\* The process dies and its supervisor starts what the file or the image holds.
Crash(c) ==
    LET v == IF mode = "binary" THEN exe ELSE conts[c].ver
    IN  /\ conts[c].on \in Live /\ faults < MaxFaults
        /\ faults' = faults + 1
        /\ conts' = [conts EXCEPT ![c].on = IF v = 0 THEN "off" ELSE "boot", ![c].ver = v]
        /\ Forget(c)
        /\ stray' = stray \cup {"crash"}
        /\ UNCHANGED <<mode, latest, st, files, helper, row>>

HelperDies(r) ==
    /\ helper[r].pc # "off" /\ faults < MaxFaults
    /\ faults' = faults + 1
    /\ HelperGo(r, "off")
    /\ stray' = stray \cup {"crash"}
    /\ UNCHANGED <<mode, latest, st, files, conts, req, pending, tracks>>

-----------------------------------------------------------------------------
Steps(r) ==
    \/ MarkBackingUp(r) \/ CreateBackup(r) \/ Gate(r) \/ Resolve(r)
    \/ Guard(r) \/ CheckBegins(r) \/ CheckEnds(r) \/ Guard2(r) \/ GuardBack(r)
    \/ Pull(r) \/ Fetch(r) \/ Save(r) \/ Note(r) \/ Install(r) \/ Restart(r)
    \/ BackStarts(r) \/ Keep(r) \/ Restore(r) \/ Exec(r)
    \/ Create(r) \/ Launch(r) \/ Told(r) \/ Begin(r)

HelperSteps(r) ==
    \/ HelperBegins(r) \/ HelperPulls(r) \/ HelperRenames(r)
    \/ HelperStops(r) \/ HelperCreates(r) \/ HelperStarts(r) \/ HelperUndoes(r)
    \/ HelperFinishes(r)

Next ==
    \/ Publish
    \/ \E r \in Reqs : Request(r) \/ Steps(r) \/ HelperSteps(r) \/ Track(r) \/ HelperDies(r)
    \/ \E c \in Conts : Boot(c) \/ Reconcile(c) \/ Crash(c)

Spec == Init /\ [][Next]_vars

-----------------------------------------------------------------------------
\* A state file, a backup, a container, a request and a helper.
StateFile == [status : Status, target : 0 .. MaxVersion, previous : 0 .. MaxVersion,
              back : 0 .. MaxVersion]
File      == [of : Version, holds : 0 .. MaxVersion]
Container == [ver : 0 .. MaxVersion, name : Conts \cup {None},
              on : Live \cup {"off", "absent"}]
Asking    == [pc : Point, act : Acts \cup {"check"}, ver : 0 .. MaxVersion, at : Conts]
Working   == [pc : HelperPoint, orig : Conts \cup {None}]

TypeOK ==
    /\ mode \in Modes /\ latest \in Version
    /\ st \in StateFile
    /\ exe \in 0 .. MaxVersion
    /\ backups \in Seq(File)
    /\ conts \in [Conts -> Container]
    /\ req \in [Reqs -> Asking]
    /\ helper \in [Reqs -> Working]
    /\ pending \subseteq Reqs
    /\ cur \in [Conts -> Reqs \cup {None}]
    /\ trk \in [Reqs -> {"off", "new", "seen"}]
    /\ row \in [Reqs -> {"none", "running", "succeeded", "failed", "cancelled"}]

Servers == {c \in Conts : conts[c].on \in Live}
Helped  == \E r \in Reqs : helper[r].pc # "off"
Excused(reasons) == stray \cap reasons # {}

\* A status that keeps every other update out is held by somebody who will move
\* it on: a request, a helper, an exec about to happen or a server about to read
\* the file; or the program itself has left it behind, in one of five ways.
\* (isUpdateTaskActive opens and closes all four ways to start an update.)
ActiveOwned ==
    isUpdateTaskActive =>
        \/ \E r \in Reqs : req[r].pc \notin {"unused", "done"}
        \/ Helped \/ pending # {}
        \/ \E c \in Conts : conts[c].on \in {"boot", "wired"}
        \/ Excused({"crash", "gate", "late", "back", "killed"})

\* One server runs on the data, not two, and none only while a helper is at work:
\* an update that fails leaves the replacement running or, by
\* rollbackDockerUpdate, the container that ran before.  Excepted are two updates
\* that were let through, and an undoing that failed or whose helper died.
OneServer ==
    \/ Cardinality(Servers) = 1
    \/ Servers = {} /\ (Helped \/ Excused({"undo", "crash"}))
    \/ Excused({"overlap"})

\* "completed" means that the server is of the target version, unless a check
\* replaced the target or another update the container meanwhile.
CompletedTrue ==
    st.status = "completed" /\ st.target # 0 =>
        \/ \A c \in Servers : conts[c].ver = st.target
        \/ Excused({"checked", "overlap"})

\* A backup holds the version of its name, or is a copy that broke off, as long
\* as every exec of an installed file has worked and updates came one by one.
\* (startApplyBinaryRelease names the copy of the file after what runs.)
BackupsTrue ==
    \A i \in DOMAIN backups :
        backups[i].holds \in {backups[i].of, 0} \/ Excused({"exec", "overlap"})

\* A row of the history that says running is followed by a tracker, or a server
\* is to start that will close it, unless one has started before the update was
\* over.  (trackApply, and ReconcileUpdateRunsOnStartup for what it cannot see.)
RowsFollowed ==
    \A r \in Reqs : row[r] = "running" =>
        \/ trk[r] # "off" \/ Helped
        \/ \E c \in Conts : conts[c].on \in {"boot", "wired"}
        \/ Excused({"early", "undo", "crash"})

\* Who asks to update at once and is told that an update is running has met
\* another one.  (applyUpdate, and the flow README.md gives for that button.)
RefusedForCause ==
    \A r \in Reqs : At(r, "guard") /\ req[r].act = "apply" /\ isUpdateTaskActive =>
        \/ \E q \in Reqs \ {r} : req[q].pc # "unused"
        \/ faults > 0
=============================================================================
