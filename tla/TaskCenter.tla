----------------------------- MODULE TaskCenter -----------------------------
(***************************************************************************)
(* The task center, services/taskcenter: the registry polls its tasks and  *)
(* sends what changed to the chain engine, which starts the next task when *)
(* one has succeeded (scan -> probe -> backfill).  The tasks themselves    *)
(* are TaskRuns; the scans of the libraries, which only report, are here.  *)
(***************************************************************************)
EXTENDS TaskRuns

CONSTANTS Library,   \* libraries
          Unseen,    \* no snapshot yet
          Capacity   \* bound: the engine's channel, 64 in the code

ASSUME TaskCenterAssumption == Capacity \in Nat \ {0}

VARIABLES
    scan,      \* ScanProgressTracker.progress: the status of each library
    prev,      \* the broadcaster's last snapshot of each kind
    channel,   \* the engine's subscription
    last,      \* the engine's last status of each kind
    enabled,   \* the engine's switch
    fired,     \* ghost: how often a kind's success has started the next task
    earned,    \* ghost: how often it has succeeded
    dropped    \* ghost: kinds whose latest snapshot did not fit the channel

chainVars == <<prev, channel, last, enabled, fired, dropped>>
vars == <<taskVars, scan, chainVars, earned>>

Kind == Target \cup {"scan"}

\* DefaultChainRules; the status of both is "succeeded".
Rule == [scan |-> "probe", probe |-> "backfill"]

\* ScanAdapter.Snapshot.
ScanStatus(s) ==
    LET Some(word) == \E l \in Library : s[l] = word IN
    IF Some("scanning") THEN "running"
    ELSE IF Some("completed") THEN "succeeded"
    ELSE IF Some("failed") THEN "failed"
    ELSE "idle"

SnapshotOf(k) ==
    IF k = "scan" THEN [kind |-> k, status |-> ScanStatus(scan), run |-> NoCall] ELSE Snapshot(k)

Init ==
    /\ TaskInit
    /\ scan = [l \in Library |-> "none"]
    /\ prev = [k \in Kind |-> Unseen]
    /\ channel = <<>>
    /\ last = [k \in Kind |-> "unseen"]
    /\ enabled \in BOOLEAN
    /\ fired = [k \in DOMAIN Rule |-> 0]
    /\ earned = [k \in DOMAIN Rule |-> 0]
    /\ dropped = {}

-----------------------------------------------------------------------------
\* Scans.

\* StartScan.
StartScan(l) ==
    /\ scan[l] # "scanning" /\ Spend("scan")
    /\ scan' = [scan EXCEPT ![l] = "scanning"]
    /\ UNCHANGED <<progress, current, stopRequested, call, worker, tracker, row, ghosts,
                   chainVars, earned>>

\* CompleteScan; the hook that may follow is TaskRuns' MaybeTriggerAutoProbe.
CompleteScan(l) ==
    /\ scan[l] = "scanning"
    /\ scan' = [scan EXCEPT ![l] = "completed"]
    /\ earned' = [earned EXCEPT !["scan"] = @ + 1]
    /\ UNCHANGED <<taskVars, chainVars>>

\* FailScan; the ghost counts the success that another library's entry, still
\* there, makes of it.
FailScan(l) ==
    /\ scan[l] = "scanning"
    /\ scan' = [scan EXCEPT ![l] = "failed"]
    /\ earned' = [earned EXCEPT !["scan"] = @ + (IF ScanStatus(scan') = "succeeded" THEN 1 ELSE 0)]
    /\ UNCHANGED <<taskVars, chainVars>>

\* A minute later the entry is removed.
Expire(l) ==
    /\ scan[l] \in {"completed", "failed"}
    /\ scan' = [scan EXCEPT ![l] = "none"]
    /\ UNCHANGED <<taskVars, chainVars, earned>>

-----------------------------------------------------------------------------
\* The registry and the engine.

\* Mutant: two snapshots of one run are taken for the same.
snapshotEqual_Run(a, b) == a.run = b.run

\* snapshotEqual, on what the model keeps of a snapshot.
snapshotEqual(a, b) == a = b

\* A kind the broadcaster has not sent, or not as it is now.
Changed(k) == prev[k] = Unseen \/ ~snapshotEqual(prev[k], SnapshotOf(k))

\* Publish: a snapshot that does not fit the channel is dropped.
Fits(ch) == Len(ch) < Capacity
Push(k, ch) == IF Fits(ch) THEN Append(ch, SnapshotOf(k)) ELSE ch

\* One kind of a tick; what was dropped counts as sent.
Offer(k, ch) == IF Changed(k) THEN Push(k, ch) ELSE ch

\* The broadcaster's tick, in SnapshotAll's order.
Broadcast ==
    LET one   == Offer("scan", channel)
        two   == Offer("probe", one)
        three == Offer("backfill", two)
        Room  == [scan |-> Fits(channel), probe |-> Fits(one), backfill |-> Fits(two)]
    IN
    /\ {k \in Kind : Changed(k)} # {}
    /\ prev' = [k \in Kind |-> IF Changed(k) THEN SnapshotOf(k) ELSE prev[k]]
    /\ channel' = three
    /\ dropped' = {k \in Kind : IF Changed(k) THEN ~Room[k] ELSE k \in dropped}
    /\ UNCHANGED <<taskVars, scan, last, enabled, fired, earned>>

\* Mutant: a task that has failed starts the next one too.
Fires_AnyEnd(s) ==
    /\ last[s.kind] # s.status
    /\ enabled
    /\ s.kind \in DOMAIN Rule /\ s.status \in {"succeeded", "failed"}

\* Whether a snapshot is the edge to a status that starts another task.
Fires(s) ==
    /\ last[s.kind] # s.status
    /\ enabled
    /\ s.kind \in DOMAIN Rule /\ s.status = "succeeded"

\* The engine takes a snapshot, and leaves a goroutine that calls Start.
Receive ==
    /\ channel # <<>>
    /\ LET s == Head(channel) IN
       /\ last' = [last EXCEPT ![s.kind] = s.status]
       /\ IF Fires(s)
          THEN /\ \E c \in Call : Arrive(c, Rule[s.kind], "chain")
               /\ fired' = [fired EXCEPT ![s.kind] = @ + 1]
          ELSE UNCHANGED <<call, fired>>
    /\ channel' = Tail(channel)
    /\ UNCHANGED <<progress, current, stopRequested, worker, tracker, row, ghosts, outside,
                   scan, prev, enabled, earned, dropped>>

\* POST /Tasks/chain.
SetEnabled ==
    /\ Spend("switch")
    /\ enabled' = ~enabled
    /\ UNCHANGED <<progress, current, stopRequested, call, worker, tracker, row, ghosts,
                   scan, prev, channel, last, fired, earned, dropped>>

-----------------------------------------------------------------------------
Succeeds(k) ==
    /\ mapLegacyStatus(progress[k].status) # "succeeded"
    /\ mapLegacyStatus(progress'[k].status) = "succeeded"

\* A step of the tasks; the ghost counts the probes that succeed.
Task ==
    /\ TaskStep
    /\ earned' = [earned EXCEPT !["probe"] = @ + (IF Succeeds("probe") THEN 1 ELSE 0)]
    /\ UNCHANGED <<scan, chainVars>>

\* The process starts again: nothing of the scans and the chain survives.
Reboot ==
    /\ Restart
    /\ scan' = [l \in Library |-> "none"]
    /\ prev' = [k \in Kind |-> Unseen]
    /\ channel' = <<>>
    /\ last' = [k \in Kind |-> "unseen"]
    /\ dropped' = {}
    /\ UNCHANGED <<enabled, fired, earned>>

Next ==
    \/ Task
    \/ \E l \in Library : StartScan(l) \/ CompleteScan(l) \/ FailScan(l) \/ Expire(l)
    \/ Broadcast
    \/ Receive
    \/ SetEnabled
    \/ Reboot

Spec == Init /\ [][Next]_vars

-----------------------------------------------------------------------------
\* Types.
Status == {"idle", "running", "stopping", "succeeded", "failed", "cancelled"}
Told   == [kind : Kind, status : Status, run : Call \cup {NoCall}]

TypeOK ==
    /\ TaskTypeOK
    /\ scan \in [Library -> {"none", "scanning", "completed", "failed"}]
    /\ last \in [Kind -> Status \cup {"unseen"}]
    /\ channel \in Seq(Told) /\ Len(channel) <= Capacity
    /\ \A k \in Kind : prev[k] = Unseen \/ (prev[k] \in Told /\ prev[k].kind = k)
    /\ enabled \in BOOLEAN
    /\ fired \in [DOMAIN Rule -> Nat] /\ earned \in [DOMAIN Rule -> Nat]
    /\ dropped \subseteq Kind

\* When all is sent and read the engine knows every status, unless the
\* latest snapshot was dropped (registry.go:90).
EngineCatchesUp ==
    \A k \in Kind \ dropped :
        /\ ~Changed(k)
        /\ \A i \in 1 .. Len(channel) : channel[i].kind # k
        => last[k] = SnapshotOf(k).status

\* The next task is started at most once for each success (chain.go:92), a
\* failed scan beside the entry of a completed one counted as a success.
ChainEarned == \A k \in DOMAIN Rule : fired[k] <= earned[k]
=============================================================================
