------------------------- MODULE ScrapeWorkerProofs -------------------------
(***************************************************************************)
(* Theorems about ScrapeWorker, for every set of tasks and consumers and   *)
(* every limit.                                                            *)
(***************************************************************************)
EXTENDS ScrapeWorker, TLAPS

\* The backoff of every retry (retryBackoff) is a number of ticks.
LEMMA BackoffType ==
    ASSUME NEW n \in Nat
    PROVE  retryBackoff(n) \in Nat
BY LimitAssumption DEF retryBackoff

\* The row that stands for no row has the type of a row.
LEMMA AbsentType == Absent \in Row
BY LimitAssumption DEF Absent, Row, Status

\* Every statement of scrape_queue.sql leaves a well-typed row.
LEMMA RowUpdates ==
    ASSUME NEW r \in Row, NEW p \in Nat, NEW n \in Nat
    PROVE  /\ Upserted(r, p) \in Row
           /\ Claimed(r) \in Row
           /\ Done(r) \in Row
           /\ FailedFatal(r) \in Row
           /\ FailedRetry(r, n) \in Row
           /\ Retried(r) \in Row
           /\ Reset(r) \in Row
           /\ Older(r) \in Row
<1>0. /\ Absent \in Row
      /\ 0 \in 0..PruneAge
      /\ Lesser(r.priority, p) \in Nat
      /\ r.retry \in Nat /\ r.retry + 1 \in Nat
      /\ r.wait \in Nat /\ (r.wait # 0 => r.wait - 1 \in Nat)
      /\ r.age \in 0..PruneAge /\ Lesser(r.age + 1, PruneAge) \in 0..PruneAge
  BY AbsentType, LimitAssumption DEF Row, Lesser
<1>1. Upserted(r, p) \in Row
  BY <1>0 DEF Upserted, Row, Status
<1>2. Claimed(r) \in Row
  BY <1>0 DEF Claimed, Row, Status
<1>3. Done(r) \in Row
  BY <1>0 DEF Done, Row, Status
<1>4. FailedFatal(r) \in Row
  BY <1>0 DEF FailedFatal, Row, Status
<1>5. FailedRetry(r, n) \in Row
  BY <1>0 DEF FailedRetry, Row, Status
<1>6. Retried(r) \in Row
  BY <1>0 DEF Retried, Row, Status
<1>7. Reset(r) \in Row
  BY <1>0 DEF Reset, Row, Status
<1>8. Older(r) \in Row
  BY <1>0 DEF Older, Row
<1> QED BY <1>1, <1>2, <1>3, <1>4, <1>5, <1>6, <1>7, <1>8

\* So does Fail, whichever of its two statements it chooses.
LEMMA FailedType ==
    ASSUME NEW r \in Row, NEW n \in Nat
    PROVE  Failed(r, n) \in Row
<1>1. retryBackoff(n + 1) \in Nat
  BY BackoffType
<1> QED BY <1>1, RowUpdates DEF Failed

\* And so does the outcome runTask writes.
LEMMA OutcomeType ==
    ASSUME NEW r \in Row, NEW k \in Claims, NEW result \in Results
    PROVE  Outcome(k, r, result) \in Row
<1>1. k.retry \in Nat
  BY DEF Claims
<1>2. Failed(r, k.retry) \in Row
  BY <1>1, FailedType
<1>3. Done(r) \in Row /\ FailedFatal(r) \in Row
  BY RowUpdates
<1> QED BY <1>2, <1>3 DEF Outcome, Results

-----------------------------------------------------------------------------
(* Type correctness.                                                       *)

\* What the statements on sets of rows leave in the table.
LEMMA QueueTypes ==
    ASSUME QueueTypeOK
    PROVE  /\ \A S \in SUBSET Task, p \in Priorities :
                 EnqueueBatch(S, p) => QueueTypeOK'
           /\ \A S \in SUBSET Task : Claim(S) => QueueTypeOK'
           /\ \A t \in Task : RetryTask(t) => QueueTypeOK'
           /\ RetryAllFailed => QueueTypeOK'
           /\ ReconcileOnStartup => QueueTypeOK'
           /\ ReconcileStaleRunning => QueueTypeOK'
           /\ PruneDone => QueueTypeOK'
           /\ \A i \in Item : DeleteItem(i) => QueueTypeOK'
           /\ Tick => QueueTypeOK'
<1>1. \A u \in Task : row[u] \in Row
  BY DEF QueueTypeOK
<1>2. ASSUME NEW u \in Task
      PROVE  /\ \A p \in Priorities : Upserted(row[u], p) \in Row
             /\ Claimed(row[u]) \in Row
             /\ Retried(row[u]) \in Row
             /\ Reset(row[u]) \in Row
             /\ Older(row[u]) \in Row
             /\ Absent \in Row
  BY <1>1, RowUpdates, AbsentType, LimitAssumption
<1>3. ASSUME NEW S \in SUBSET Task, NEW p \in Priorities, EnqueueBatch(S, p)
      PROVE  QueueTypeOK'
  BY <1>1, <1>2, <1>3 DEF EnqueueBatch, Rewrite, QueueTypeOK
<1>4. ASSUME NEW S \in SUBSET Task, Claim(S)
      PROVE  QueueTypeOK'
  BY <1>1, <1>2, <1>4 DEF Claim, Rewrite, QueueTypeOK
<1>5. ASSUME NEW t \in Task, RetryTask(t)
      PROVE  QueueTypeOK'
  BY <1>1, <1>2, <1>5 DEF RetryTask, Rewrite, QueueTypeOK
<1>6. RetryAllFailed => QueueTypeOK'
  BY <1>1, <1>2 DEF RetryAllFailed, Rewrite, QueueTypeOK
<1>7. ReconcileOnStartup => QueueTypeOK'
  BY <1>1, <1>2 DEF ReconcileOnStartup, Rewrite, QueueTypeOK
<1>8. ReconcileStaleRunning => QueueTypeOK'
  BY <1>1, <1>2 DEF ReconcileStaleRunning, Rewrite, QueueTypeOK
<1>9. PruneDone => QueueTypeOK'
  BY <1>1, <1>2 DEF PruneDone, Rewrite, QueueTypeOK
<1>10. ASSUME NEW i \in Item, DeleteItem(i)
       PROVE  QueueTypeOK'
  BY <1>1, <1>2, <1>10 DEF DeleteItem, Rewrite, QueueTypeOK
<1>11. Tick => QueueTypeOK'
  BY <1>1, <1>2 DEF Tick, Rewrite, QueueTypeOK
<1> QED
  BY <1>3, <1>4, <1>5, <1>6, <1>7, <1>8, <1>9, <1>10, <1>11

\* A consumer that executes has a task to execute.
ExecHasClaim == \A c \in Consumer : pc[c] = "exec" => current[c] # NoClaim

\* TypeOK is inductive together with it.
TypeInv == TypeOK /\ ExecHasClaim

\* The worker starts well typed.
LEMMA InitType == Init => TypeInv
BY AbsentType DEF Init, QueueInit, TypeInv, TypeOK, QueueTypeOK, ExecHasClaim

\* A claim that is revised stays a claim, on the same task.
LEMMA RevisedClaim ==
    ASSUME NEW S, NEW k \in Claims
    PROVE  /\ Dead(S, k) \in Claims /\ Dead(S, k).task = k.task
           /\ Dead(S, k).late = k.late
           /\ Dead(S, k).live <=> k.live /\ k.task \notin S
           /\ k.task \notin S => Dead(S, k) = k
           /\ Late(S, k) \in Claims /\ Late(S, k).task = k.task
           /\ Late(S, k).live = k.live
           /\ Late(S, k).late <=> k.late \/ k.task \in S
           /\ k.task \notin S => Late(S, k) = k
           /\ Late(S, k).late = k.late => Late(S, k) = k
BY DEF Claims, Dead, Late

\* The claims of the consumers are revised by the function g.
RevisedBy(g) ==
    /\ batch' = [c \in Consumer |-> {g[k] : k \in batch[c]}]
    /\ current' = [c \in Consumer |->
                     IF current[c] = NoClaim THEN NoClaim ELSE g[current[c]]]

\* What the consumers hold after their claims are revised.
LEMMA RevisedHolding ==
    ASSUME TypeOK, NEW g \in [Claims -> Claims], RevisedBy(g)
    PROVE  /\ batch' \in [Consumer -> SUBSET Claims]
           /\ current' \in [Consumer -> Claims \cup {NoClaim}]
           /\ \A c \in Consumer :
                 /\ current[c] = NoClaim <=> current'[c] = NoClaim
                 /\ current[c] # NoClaim =>
                       current[c] \in Claims /\ current'[c] = g[current[c]]
                 /\ batch'[c] = {g[k] : k \in batch[c]}
                 /\ Holding(c)' = {g[k] : k \in Holding(c)}
<1>1. ASSUME NEW c \in Consumer
      PROVE  /\ batch[c] \subseteq Claims
             /\ current[c] # NoClaim => current[c] \in Claims /\ g[current[c]] # NoClaim
             /\ batch'[c] = {g[k] : k \in batch[c]}
             /\ current'[c] = IF current[c] = NoClaim THEN NoClaim ELSE g[current[c]]
  BY NoClaimAssumption DEF TypeOK, RevisedBy
<1>2. batch' \in [Consumer -> SUBSET Claims]
  BY <1>1 DEF RevisedBy
<1>3. current' \in [Consumer -> Claims \cup {NoClaim}]
  BY <1>1 DEF RevisedBy
<1>4. \A c \in Consumer : Holding(c)' = {g[k] : k \in Holding(c)}
  BY <1>1 DEF Holding
<1> QED BY <1>1, <1>2, <1>3, <1>4

\* Deleting rows revises the claims by the function that kills those on them.
LEMMA DetachIs ==
    ASSUME TypeOK, NEW S, Detach(S)
    PROVE  \E g \in [Claims -> Claims] :
              /\ g = [k \in Claims |-> Dead(S, k)]
              /\ RevisedBy(g)
<1> DEFINE g == [k \in Claims |-> Dead(S, k)]
<1>1. g \in [Claims -> Claims]
  BY RevisedClaim
<1>2. \A c \in Consumer : batch[c] \subseteq Claims /\ current[c] \in Claims \cup {NoClaim}
  BY DEF TypeOK
<1>3. \A k \in Claims : g[k] = Dead(S, k)
  OBVIOUS
<1> HIDE DEF g
<1>4. batch' = [c \in Consumer |-> {g[k] : k \in batch[c]}]
  BY <1>2, <1>3 DEF Detach, Revise
<1>5. current' = [c \in Consumer |->
                   IF current[c] = NoClaim THEN NoClaim ELSE g[current[c]]]
  BY <1>2, <1>3 DEF Detach, Revise
<1>6. RevisedBy(g)
  BY <1>4, <1>5 DEF RevisedBy
<1> QED BY <1>1, <1>6 DEF g

\* The holds that follow the deletion of an item are well-typed ones.
LEMMA DetachType ==
    ASSUME TypeOK, NEW S \in SUBSET Task, Detach(S)
    PROVE  /\ batch' \in [Consumer -> SUBSET Claims]
           /\ current' \in [Consumer -> Claims \cup {NoClaim}]
           /\ asked' \subseteq Task /\ disturbed' \subseteq Task
           /\ \A c \in Consumer : current[c] # NoClaim => current'[c] # NoClaim
<1>1. PICK g \in [Claims -> Claims] : RevisedBy(g)
  BY DetachIs
<1>2. asked' \subseteq Task /\ disturbed' \subseteq Task
  BY DEF Detach, TypeOK
<1> QED BY <1>1, <1>2, RevisedHolding

\* A call of Enqueue, of an administrator or of the item's deletion keeps the types.
LEMMA RequestType ==
    ASSUME TypeInv, Requests
    PROVE  TypeInv'
<1> USE DEF TypeInv, TypeOK, ExecHasClaim, workerVars, history
<1>1. ASSUME NEW S \in (SUBSET Task) \ {{}}, NEW p \in Priorities, Enqueue(S, p)
      PROVE  TypeInv'
  <2>1. QueueTypeOK'
    BY <1>1, QueueTypes DEF Enqueue
  <2> QED BY <1>1, <2>1 DEF Enqueue
<1>2. ASSUME NEW t \in Task, AdminRetry(t)
      PROVE  TypeInv'
  <2>1. QueueTypeOK'
    BY <1>2, QueueTypes DEF AdminRetry
  <2> QED BY <1>2, <2>1 DEF AdminRetry
<1>3. ASSUME AdminRetryAll
      PROVE  TypeInv'
  <2>1. QueueTypeOK'
    BY <1>3, QueueTypes DEF AdminRetryAll
  <2> QED BY <1>3, <2>1 DEF AdminRetryAll, InStatus
<1>4. ASSUME NEW i \in Item, ItemDeleted(i)
      PROVE  TypeInv'
  <2>1. QueueTypeOK'
    BY <1>4, QueueTypes DEF ItemDeleted
  <2>2. {t \in Task : ItemOf[t] = i} \in SUBSET Task
    OBVIOUS
  <2>3. /\ batch' \in [Consumer -> SUBSET Claims]
        /\ current' \in [Consumer -> Claims \cup {NoClaim}]
        /\ asked' \subseteq Task /\ disturbed' \subseteq Task
        /\ \A c \in Consumer : current[c] # NoClaim => current'[c] # NoClaim
    BY <1>4, <2>2, DetachType DEF ItemDeleted
  <2> QED BY <1>4, <2>1, <2>3 DEF ItemDeleted
<1> QED BY <1>1, <1>2, <1>3, <1>4 DEF Requests

\* A state write leaves the table well-typed, whatever the row has become.
LEMMA WriteType ==
    ASSUME QueueTypeOK, NEW k \in Claims, NEW result \in Results,
           WriteOutcome(k, result)
    PROVE  QueueTypeOK'
<1>1. \A t \in Task : Outcome(k, row[t], result) \in Row
  BY OutcomeType DEF QueueTypeOK
<1> QED BY <1>1 DEF WriteOutcome, QueueTypeOK

\* So do the claims when an execution ends.
LEMMA EndTaskType ==
    ASSUME TypeOK, NEW c \in Consumer, NEW B \in SUBSET Claims,
           NEW S \in SUBSET Task, EndTask(c, B, S)
    PROVE  /\ batch' \in [Consumer -> SUBSET Claims]
           /\ current' \in [Consumer -> Claims \cup {NoClaim}]
           /\ disturbed' \subseteq Task
           /\ \A d \in Consumer : d # c /\ current[d] # NoClaim => current'[d] # NoClaim
<1>1. ASSUME NEW d \in Consumer
      PROVE  /\ batch[d] \subseteq Claims
             /\ current[d] # NoClaim => current[d] \in Claims
             /\ batch'[d] = {Late(S, k) : k \in IF d = c THEN B ELSE batch[d]}
             /\ current'[d] = IF d = c \/ current[d] = NoClaim
                                THEN NoClaim ELSE Late(S, current[d])
  BY DEF TypeOK, EndTask
<1>2. \A k \in Claims : Late(S, k) \in Claims /\ Late(S, k) # NoClaim
  BY RevisedClaim, NoClaimAssumption
<1>3. batch' \in [Consumer -> SUBSET Claims]
  <2>1. batch' = [d \in Consumer |-> batch'[d]]
    BY DEF EndTask
  <2>2. \A d \in Consumer : batch'[d] \in SUBSET Claims
    BY <1>1, <1>2
  <2> QED BY <2>1, <2>2
<1>4. current' \in [Consumer -> Claims \cup {NoClaim}]
  <2>1. current' = [d \in Consumer |-> current'[d]]
    BY DEF EndTask
  <2>2. \A d \in Consumer : current'[d] \in Claims \cup {NoClaim}
    BY <1>1, <1>2
  <2> QED BY <2>1, <2>2
<1>5. disturbed' \subseteq Task
  BY DEF EndTask, TypeOK
<1> QED BY <1>1, <1>2, <1>3, <1>4, <1>5

\* A step of a goroutine or of a ticker keeps the types.
LEMMA SystemType ==
    ASSUME TypeInv, System
    PROVE  TypeInv'
<1> USE DEF TypeInv, TypeOK, ExecHasClaim, history
<1>1. ASSUME NEW c \in Consumer, Quit(c)
      PROVE  TypeInv'
  BY <1>1 DEF Quit, queueVars, QueueTypeOK
<1>2. ASSUME NEW c \in Consumer, Wake(c)
      PROVE  TypeInv'
  BY <1>2 DEF Wake, queueVars, QueueTypeOK
<1>3. ASSUME NEW c \in Consumer, StartTask(c)
      PROVE  TypeInv'
  <2>1. PICK k \in batch[c] :
           /\ batch' = [batch EXCEPT ![c] = @ \ {k}]
           /\ current' = [current EXCEPT ![c] = k]
           /\ asked' = IF k.live THEN asked \ {k.task} ELSE asked
    BY <1>3 DEF StartTask
  <2>2. k \in Claims /\ k # NoClaim
    BY NoClaimAssumption
  <2>3. /\ QueueTypeOK' /\ up' = up /\ stopped' = stopped
        /\ disturbed' = disturbed
        /\ pc' = [pc EXCEPT ![c] = "exec"]
    BY <1>3 DEF StartTask, queueVars, QueueTypeOK
  <2> QED BY <2>1, <2>2, <2>3
<1>4. ASSUME NEW c \in Consumer, NEW allow \in BOOLEAN, ClaimTasks(c, allow)
      PROVE  TypeInv'
  <2>1. PICK S \in SUBSET Claimable(allow) :
           /\ Claim(S)
           /\ batch' = [batch EXCEPT ![c] = ClaimsOn(S)]
           /\ pc' = [pc EXCEPT ![c] = IF S = {} THEN "sleep" ELSE "batch"]
    BY <1>4 DEF ClaimTasks
  <2>2. S \in SUBSET Task
    BY DEF Claimable, InStatus
  <2>3. QueueTypeOK'
    BY <2>1, <2>2, QueueTypes
  <2>4. ClaimsOn(S) \in SUBSET Claims
    <3>1. \A t \in S : row[t].retry \in Nat
      BY <2>2 DEF QueueTypeOK, Row
    <3>2. \A t \in S : [task |-> t, retry |-> row[t].retry, live |-> TRUE,
                        late |-> FALSE] \in Claims
      BY <2>2, <3>1 DEF Claims
    <3> QED BY <3>2 DEF ClaimsOn
  <2> QED BY <1>4, <2>1, <2>3, <2>4 DEF ClaimTasks
<1>5. ASSUME NEW c \in Consumer, NEW result \in Results, FinishTask(c, result)
      PROVE  TypeInv'
  <2>1. current[c] \in Claims /\ batch[c] \in SUBSET Claims
    BY <1>5 DEF FinishTask
  <2>2. QueueTypeOK'
    BY <1>5, <2>1, WriteType DEF FinishTask
  <2>3. Written(current[c]) \in SUBSET Task
    BY <2>1 DEF Written, Claims
  <2>4. /\ batch' \in [Consumer -> SUBSET Claims]
        /\ current' \in [Consumer -> Claims \cup {NoClaim}]
        /\ disturbed' \subseteq Task
        /\ \A d \in Consumer : d # c /\ current[d] # NoClaim => current'[d] # NoClaim
    BY <1>5, <2>1, <2>3, EndTaskType DEF FinishTask
  <2>5. /\ up' = up /\ stopped' = stopped /\ asked' = asked
        /\ pc' = [pc EXCEPT ![c] = IF batch[c] = {} THEN "poll" ELSE "batch"]
    BY <1>5 DEF FinishTask
  <2> QED BY <2>2, <2>4, <2>5
<1>6. ASSUME StaleTicker
      PROVE  TypeInv'
  <2>1. QueueTypeOK'
    BY <1>6, QueueTypes DEF StaleTicker
  <2> QED BY <1>6, <2>1 DEF StaleTicker, workerVars
<1>7. ASSUME PruneTicker
      PROVE  TypeInv'
  <2>1. QueueTypeOK'
    BY <1>7, QueueTypes DEF PruneTicker
  <2>2. Prunable \in SUBSET Task
    BY DEF Prunable, InStatus
  <2>3. /\ batch' \in [Consumer -> SUBSET Claims]
        /\ current' \in [Consumer -> Claims \cup {NoClaim}]
        /\ asked' \subseteq Task /\ disturbed' \subseteq Task
        /\ \A c \in Consumer : current[c] # NoClaim => current'[c] # NoClaim
    BY <1>7, <2>2, DetachType DEF PruneTicker
  <2> QED BY <1>7, <2>1, <2>3 DEF PruneTicker
<1> QED
  BY <1>1, <1>2, <1>3, <1>4, <1>5, <1>6, <1>7 DEF System, Consume

\* A lost answer, a failed write or a crash keeps the types.
LEMMA FaultType ==
    ASSUME TypeInv, Faults
    PROVE  TypeInv'
<1> USE DEF TypeInv, TypeOK, ExecHasClaim, history
<1>1. ASSUME NEW c \in Consumer, NEW allow \in BOOLEAN, ClaimError(c, allow)
      PROVE  TypeInv'
  <2>1. QueueTypeOK'
    <3>1. CASE \E S \in SUBSET Claimable(allow) : Claim(S)
      <4>1. PICK S \in SUBSET Claimable(allow) : Claim(S)
        BY <3>1
      <4>2. S \in SUBSET Task
        BY DEF Claimable, InStatus
      <4> QED BY <4>1, <4>2, QueueTypes
    <3>2. CASE UNCHANGED queueVars
      BY <3>2 DEF queueVars, QueueTypeOK
    <3> QED BY <1>1, <3>1, <3>2 DEF ClaimError
  <2> QED BY <1>1, <2>1 DEF ClaimError
<1>2. ASSUME NEW c \in Consumer, NEW result \in Results, FinishError(c, result)
      PROVE  TypeInv'
  <2>1. current[c] \in Claims
    BY <1>2 DEF FinishError
  <2>2. PICK S \in SUBSET Task : QueueTypeOK' /\ EndTask(c, {}, S)
    <3>1. CASE WriteOutcome(current[c], result) /\ EndTask(c, {}, Written(current[c]))
      <4>1. Written(current[c]) \in SUBSET Task
        BY <2>1 DEF Written, Claims
      <4> QED BY <2>1, <3>1, <4>1, WriteType
    <3>2. CASE UNCHANGED queueVars /\ EndTask(c, {}, {})
      BY <3>2 DEF queueVars, QueueTypeOK
    <3> QED BY <1>2, <3>1, <3>2 DEF FinishError
  <2>3. /\ batch' \in [Consumer -> SUBSET Claims]
        /\ current' \in [Consumer -> Claims \cup {NoClaim}]
        /\ disturbed' \subseteq Task
        /\ \A d \in Consumer : d # c /\ current[d] # NoClaim => current'[d] # NoClaim
    BY <2>2, EndTaskType
  <2>4. /\ up' = up /\ stopped' = stopped /\ asked' = asked
        /\ pc' = [pc EXCEPT ![c] = "sleep"]
    BY <1>2 DEF FinishError
  <2> QED BY <2>2, <2>3, <2>4
<1>3. ASSUME Crash
      PROVE  TypeInv'
  BY <1>3 DEF Crash, queueVars, QueueTypeOK
<1> QED BY <1>1, <1>2, <1>3 DEF Faults

\* Starting and resizing keep the types.
LEMMA ControlType ==
    ASSUME TypeInv, Control
    PROVE  TypeInv'
<1> USE DEF TypeInv, TypeOK, ExecHasClaim, history
<1>1. ASSUME NEW S, NEW D, Resize(S, D),
             UNCHANGED <<batch, current, history>>, QueueTypeOK', up' \in BOOLEAN
      PROVE  TypeInv'
  BY <1>1 DEF Resize
<1>2. ASSUME NEW n \in 1..WorkerMax, SetWorkerCount(n)
      PROVE  TypeInv'
  <2>1. /\ \E S, D : Resize(S, D)
        /\ UNCHANGED <<queueVars, up, batch, current, history>>
    BY <1>2 DEF SetWorkerCount
  <2>2. QueueTypeOK'
    BY <2>1 DEF queueVars, QueueTypeOK
  <2> QED BY <1>1, <2>1, <2>2
<1>3. ASSUME NEW n \in 1..WorkerMax, Run(n)
      PROVE  TypeInv'
  <2>1. QueueTypeOK'
    BY <1>3, QueueTypes DEF Run, queueVars, QueueTypeOK
  <2>2. \E S : Resize(S, {})
    BY <1>3 DEF Run
  <2> QED BY <1>1, <1>3, <2>1, <2>2 DEF Run
<1> QED BY <1>2, <1>3 DEF Control

\* Time revises the claims by the function that makes those late whose rows turn
\* stale.
LEMMA TimeIs ==
    ASSUME TypeOK, TimePasses
    PROVE  \E g \in [Claims -> Claims] :
              /\ g = [k \in Claims |->
                         Late({t \in Task : row[t].age + 1 >= StaleAge}, k)]
              /\ RevisedBy(g)
<1> DEFINE S == {t \in Task : row[t].age + 1 >= StaleAge}
<1> HIDE DEF S
<1> DEFINE g == [k \in Claims |-> Late(S, k)]
<1>1. g \in [Claims -> Claims]
  BY RevisedClaim
<1>2. \A c \in Consumer : batch[c] \subseteq Claims /\ current[c] \in Claims \cup {NoClaim}
  BY DEF TypeOK
<1>3. \A k \in Claims : g[k] = Late(S, k)
  OBVIOUS
<1>4. /\ batch' = [c \in Consumer |-> {Late(S, k) : k \in batch[c]}]
      /\ current' = [c \in Consumer |->
                       IF current[c] = NoClaim THEN NoClaim ELSE Late(S, current[c])]
  BY DEF TimePasses, Revise, S
<1> HIDE DEF g
<1>5. batch' = [c \in Consumer |-> {g[k] : k \in batch[c]}]
  BY <1>2, <1>3, <1>4
<1>6. current' = [c \in Consumer |->
                   IF current[c] = NoClaim THEN NoClaim ELSE g[current[c]]]
  BY <1>2, <1>3, <1>4
<1>7. RevisedBy(g)
  BY <1>5, <1>6 DEF RevisedBy
<1> QED BY <1>1, <1>7 DEF g, S

\* The passing of time keeps the types.
LEMMA TimeType ==
    ASSUME TypeInv, TimePasses
    PROVE  TypeInv'
<1>0. TypeOK
  BY DEF TypeInv
<1>1. QueueTypeOK'
  BY <1>0, QueueTypes DEF TypeOK, TimePasses
<1>2. PICK g \in [Claims -> Claims] : RevisedBy(g)
  BY <1>0, TimeIs
<1>3. /\ batch' \in [Consumer -> SUBSET Claims]
      /\ current' \in [Consumer -> Claims \cup {NoClaim}]
      /\ \A c \in Consumer : current[c] = NoClaim <=> current'[c] = NoClaim
  BY <1>0, <1>2, RevisedHolding
<1>4. UNCHANGED <<up, pc, stopped, asked, disturbed>>
  BY DEF TimePasses, history
<1> QED
  BY <1>1, <1>3, <1>4 DEF TypeInv, TypeOK, ExecHasClaim

\* Every step keeps the types.
LEMMA NextType == TypeInv /\ [Next]_vars => TypeInv'
<1> SUFFICES ASSUME TypeInv, [Next]_vars
             PROVE  TypeInv'
  OBVIOUS
<1>1. CASE Next
  BY <1>1, RequestType, SystemType, FaultType, ControlType, TimeType DEF Next
<1>2. CASE UNCHANGED vars
  BY <1>2 DEF vars, TypeInv, TypeOK, QueueTypeOK, ExecHasClaim
<1> QED BY <1>1, <1>2

\* Rows, claims and control points stay in their ranges.
THEOREM TypeCorrect == Spec => []TypeOK
<1>1. TypeInv => TypeOK
  BY DEF TypeInv
<1> QED
  BY <1>1, InitType, NextType, PTL DEF Spec


-----------------------------------------------------------------------------
(* Exclusive execution, the retry budget and the kept requests: IInv is    *)
(* inductive.                                                              *)

\* The inductive invariant holds at the start.
LEMMA InitIInv == Init => IInv
<1> SUFFICES ASSUME Init PROVE IInv
  OBVIOUS
<1>1. TypeOK
  BY InitType DEF TypeInv
<1>2. \A c \in Consumer : Holding(c) = {} /\ batch[c] = {} /\ current[c] = NoClaim
  BY DEF Init, Holding
<1>3. RetryBudget
  BY LimitAssumption DEF Init, QueueInit, Absent, RetryBudget
<1>4. ControlOK /\ ExecutingNotAsked /\ AcceptedRequestKept
  BY DEF Init, ControlOK, ExecutingNotAsked, AcceptedRequestKept
<1> QED
  BY <1>1, <1>2, <1>3, <1>4 DEF IInv, ClaimsCurrent, SoleHolder, OneEach

\* The inductive invariant contains the types.
LEMMA IInvType == IInv => TypeInv
BY DEF IInv, TypeInv, ControlOK, ExecHasClaim

\* Every claim that is held is a claim.
LEMMA HoldingType ==
    ASSUME TypeOK, NEW c \in Consumer
    PROVE  Holding(c) \subseteq Claims
BY DEF TypeOK, Holding

\* A step that gives nobody a new good claim and leaves the rows of the good
\* claims running, with their counts and not stale, keeps them good.
LEMMA KeepClaims ==
    ASSUME IInv,
           \A c \in Consumer : \A k \in Holding(c)' :
              Good(k) => /\ k \in Holding(c)
                         /\ row'[k.task].status = "running"
                         /\ row'[k.task].retry = row[k.task].retry
                         /\ row'[k.task].age < StaleAge
    PROVE  ClaimsCurrent' /\ SoleHolder'
<1>1. ClaimsCurrent'
  BY DEF IInv, ClaimsCurrent, Good
<1>2. SoleHolder'
  BY DEF IInv, SoleHolder, Good
<1> QED BY <1>1, <1>2

\* Claims that are dropped or revised stay one for each task.
LEMMA KeepOneEach ==
    ASSUME IInv, NEW g \in [Claims -> Claims],
           \A k \in Claims : g[k].task = k.task,
           \A c \in Consumer :
              /\ batch'[c] \subseteq {g[k] : k \in batch[c]}
              /\ \/ current'[c] = NoClaim
                 \/ current[c] # NoClaim /\ current'[c] = g[current[c]]
    PROVE  OneEach'
<1>1. ASSUME NEW c \in Consumer
      PROVE  /\ Holding(c) \subseteq Claims
             /\ batch[c] \subseteq Holding(c)
             /\ current[c] # NoClaim => current[c] \in Holding(c)
             /\ \A k, l \in Holding(c) : k.task = l.task => k = l
             /\ current[c] \notin batch[c]
  BY HoldingType DEF IInv, Holding, OneEach
<1>2. ASSUME NEW c \in Consumer, NEW m \in Holding(c)'
      PROVE  \E k \in Holding(c) : m = g[k]
  <2>1. m \in batch'[c] \/ (current'[c] # NoClaim /\ m = current'[c])
    BY <1>2 DEF Holding
  <2> QED BY <1>1, <2>1
<1>3. ASSUME NEW c \in Consumer, NEW m \in Holding(c)', NEW n \in Holding(c)',
             m.task = n.task
      PROVE  m = n
  <2>1. PICK k \in Holding(c) : m = g[k]
    BY <1>2
  <2>2. PICK l \in Holding(c) : n = g[l]
    BY <1>2
  <2>3. k \in Claims /\ l \in Claims /\ k.task = l.task
    BY <1>1, <1>3, <2>1, <2>2
  <2>4. k = l
    BY <1>1, <2>3
  <2> QED BY <2>1, <2>2, <2>4
<1>4. ASSUME NEW c \in Consumer, current'[c] \in batch'[c]
      PROVE  FALSE
  <2>1. PICK k \in batch[c] : current'[c] = g[k]
    BY <1>4
  <2>2. k \in Claims /\ current'[c] # NoClaim
    BY <1>1, <2>1, NoClaimAssumption
  <2>3. current[c] # NoClaim /\ current'[c] = g[current[c]]
    BY <2>2
  <2>4. current[c] \in Claims /\ current[c].task = k.task
    <3>1. current[c] \in Claims
      BY <1>1, <2>3
    <3>2. g[current[c]].task = current[c].task /\ g[k].task = k.task
      BY <2>2, <3>1
    <3>3. g[current[c]] = g[k]
      BY <2>1, <2>3
    <3> QED BY <3>1, <3>2, <3>3
  <2>5. current[c] = k
    BY <1>1, <2>3, <2>4
  <2> QED BY <1>1, <2>5
<1> QED BY <1>3, <1>4 DEF OneEach

\* Deleting rows leaves the claims on them dead and the others as they were.
LEMMA RemoveInv ==
    ASSUME IInv, TypeOK', NEW S \in SUBSET Task,
           row' = [t \in Task |-> IF t \in S THEN Absent ELSE row[t]],
           Detach(S),
           UNCHANGED <<up, pc, stopped>>
    PROVE  IInv'
<1>0. /\ TypeOK
      /\ \A c \in Consumer : Holding(c) \subseteq Claims
  BY HoldingType DEF IInv
<1>1. PICK g \in [Claims -> Claims] :
              /\ g = [k \in Claims |-> Dead(S, k)]
              /\ RevisedBy(g)
  BY <1>0, DetachIs
<1>2. ASSUME NEW k \in Claims
      PROVE  /\ g[k] \in Claims /\ g[k].task = k.task
             /\ Good(g[k]) => Good(k) /\ k.task \notin S /\ g[k] = k
  <2>1. g[k] = Dead(S, k)
    BY <1>1
  <2> QED BY <2>1, RevisedClaim DEF Good
<1>3. ASSUME NEW c \in Consumer
      PROVE  /\ current[c] = NoClaim <=> current'[c] = NoClaim
             /\ current[c] # NoClaim =>
                   current[c] \in Claims /\ current'[c] = g[current[c]]
             /\ batch'[c] = {g[k] : k \in batch[c]}
             /\ Holding(c)' = {g[k] : k \in Holding(c)}
  BY <1>0, <1>1, RevisedHolding
<1>4. asked' = asked \ S /\ disturbed' = disturbed \ S
  BY DEF Detach
<1>5. ClaimsCurrent' /\ SoleHolder'
  <2>1. ASSUME NEW c \in Consumer, NEW m \in Holding(c)', Good(m)
        PROVE  m \in Holding(c) /\ m.task \in Task /\ m.task \notin S
    <3>1. PICK k \in Holding(c) : m = g[k]
      BY <1>3
    <3>2. k \in Claims
      BY <1>0
    <3> QED BY <1>2, <2>1, <3>1, <3>2 DEF Claims
  <2>2. ASSUME NEW c \in Consumer, NEW m \in Holding(c)', Good(m)
        PROVE  /\ row'[m.task] = row[m.task]
               /\ row[m.task].status = "running"
               /\ row[m.task].age < StaleAge
    BY <2>1, <2>2 DEF IInv, ClaimsCurrent
  <2> QED BY <2>1, <2>2, KeepClaims
<1>6. OneEach'
  BY <1>2, <1>3, KeepOneEach
<1>7. ControlOK'
  <2>1. \A c \in Consumer : batch[c] = {} => batch'[c] = {}
    BY <1>3
  <2> QED BY <1>3, <2>1 DEF IInv, ControlOK
<1>8. ExecutingNotAsked'
  <2>1. ASSUME NEW c \in Consumer, current'[c] # NoClaim, Good(current'[c])
        PROVE  current'[c].task \notin asked'
    <3>1. /\ current[c] # NoClaim /\ current[c] \in Claims
          /\ current'[c] = g[current[c]]
      BY <1>3, <2>1
    <3>2. current'[c] = current[c] /\ Good(current[c])
      BY <1>2, <2>1, <3>1
    <3> QED BY <1>4, <3>1, <3>2 DEF IInv, ExecutingNotAsked
  <2> QED BY <2>1 DEF ExecutingNotAsked, Good
<1>9. RetryBudget'
  BY <1>4, LimitAssumption DEF IInv, RetryBudget, Absent
<1>10. AcceptedRequestKept'
  BY <1>4, <1>0 DEF IInv, AcceptedRequestKept, TypeOK
<1> QED BY <1>5, <1>6, <1>7, <1>8, <1>9, <1>10 DEF IInv

\* What an enqueue does to a row.
LEMMA UpsertedRow ==
    ASSUME NEW r \in Row, NEW p \in Priorities
    PROVE  /\ r.status \in {"pending", "running"} =>
                 /\ Upserted(r, p).status = r.status
                 /\ Upserted(r, p).retry = r.retry
                 /\ Upserted(r, p).age = 0
           /\ r.status \notin {"pending", "running"} =>
                 /\ Upserted(r, p).status = "pending"
                 /\ Upserted(r, p).retry = 0
<1>1. CASE r.status = "absent"
  BY <1>1 DEF Upserted, Absent
<1>2. CASE r.status \in {"done", "failed"}
  BY <1>2 DEF Upserted, Absent
<1>3. CASE r.status \in {"pending", "running"}
  <2>1. Upserted(r, p) = [r EXCEPT !.priority = Lesser(r.priority, p), !.age = 0]
    BY <1>3 DEF Upserted
  <2> QED BY <1>3, <2>1 DEF Row
<1> QED BY <1>1, <1>2, <1>3 DEF Row, Status

\* The budget and the requests only depend on the rows that change.
LEMMA RequestInv ==
    ASSUME IInv, TypeOK', Requests
    PROVE  IInv'
<1>0. /\ TypeOK /\ \A t \in Task : row[t] \in Row
      /\ \A c \in Consumer : Holding(c) \subseteq Claims
      /\ \A c \in Consumer : \A k \in Holding(c) : k.task \in Task
      /\ \A c \in Consumer : \A k \in Holding(c) :
            Good(k) => /\ row[k.task].status = "running"
                       /\ row[k.task].age < StaleAge
      /\ \A c \in Consumer : current[c] # NoClaim => current[c] \in Holding(c)
  <2>1. \A c \in Consumer : Holding(c) \subseteq Claims
    BY HoldingType DEF IInv
  <2>2. \A k \in Claims : k.task \in Task
    BY DEF Claims
  <2> QED BY <2>1, <2>2 DEF IInv, TypeOK, QueueTypeOK, ClaimsCurrent, Holding
<1>1. ASSUME NEW S \in (SUBSET Task) \ {{}}, NEW p \in Priorities, Enqueue(S, p)
      PROVE  IInv'
  <2>1. /\ \A t \in Task : row'[t] = IF t \in S THEN Upserted(row[t], p) ELSE row[t]
        /\ asked' = asked \cup {t \in S : row[t].status # "running"}
        /\ disturbed' = {t \in disturbed :
                            t \in S => row[t].status \in {"pending", "running"}}
        /\ UNCHANGED <<up, pc, stopped, batch, current>>
    BY <1>1 DEF Enqueue, EnqueueBatch, Rewrite, workerVars
  <2>2. ASSUME NEW t \in Task
        PROVE  /\ row[t].status = "running" =>
                     /\ row'[t].status = "running"
                     /\ row'[t].retry = row[t].retry
                     /\ row[t].age < StaleAge => row'[t].age < StaleAge
               /\ row[t].status = "pending" =>
                     row'[t].status = "pending" /\ row'[t].retry = row[t].retry
               /\ row[t].status \notin {"pending", "running"} =>
                     IF t \in S
                       THEN row'[t].status = "pending" /\ row'[t].retry = 0
                       ELSE row'[t] = row[t]
               /\ t \in S => row'[t].status \in {"pending", "running"}
    <3>1. row[t] \in Row
      BY <1>0
    <3>2. row'[t] = IF t \in S THEN Upserted(row[t], p) ELSE row[t]
      BY <2>1
    <3>3. 0 < StaleAge
      BY LimitAssumption
    <3>4. t \in S => row'[t].status \in {"pending", "running"}
      BY <3>1, <3>2, UpsertedRow
    <3> QED BY <3>1, <3>2, <3>3, <3>4, UpsertedRow
  <2>3. ClaimsCurrent' /\ SoleHolder'
    <3>1. \A c \in Consumer : Holding(c)' = Holding(c)
      BY <2>1 DEF Holding
    <3> QED BY <1>0, <2>2, <3>1, KeepClaims
  <2>4. RetryBudget'
    BY <2>1, <2>2, LimitAssumption DEF IInv, RetryBudget
  <2>5. AcceptedRequestKept'
    BY <2>1, <2>2 DEF IInv, AcceptedRequestKept, TypeOK
  <2>6. OneEach' /\ ControlOK'
    BY <2>1 DEF IInv, OneEach, ControlOK, Holding
  <2>7. ExecutingNotAsked'
    <3>1. ASSUME NEW c \in Consumer, current[c] # NoClaim, Good(current[c])
          PROVE  row[current[c].task].status = "running"
      BY <1>0, <3>1
    <3> QED BY <2>1, <3>1 DEF IInv, ExecutingNotAsked, Good
  <2> QED BY <2>3, <2>4, <2>5, <2>6, <2>7 DEF IInv
<1>2. ASSUME NEW S \in SUBSET InStatus("failed"),
             row' = [t \in Task |-> IF t \in S THEN Retried(row[t]) ELSE row[t]],
             asked' = asked \cup S, disturbed' = disturbed \ S,
             UNCHANGED <<up, pc, stopped, batch, current>>
      PROVE  IInv'
  <2>1. ASSUME NEW t \in Task
        PROVE  /\ row[t].status # "failed" => row'[t] = row[t]
               /\ row[t].status = "failed" =>
                     \/ row'[t] = row[t] /\ t \notin S
                     \/ row'[t].status = "pending" /\ row'[t].retry = 0
               /\ t \in S => row'[t].status = "pending" /\ row'[t].retry = 0
    BY <1>0, <1>2 DEF Retried, Row, InStatus
  <2>2. \A c \in Consumer : Holding(c)' = Holding(c)
    BY <1>2 DEF Holding
  <2>4. ClaimsCurrent' /\ SoleHolder'
    BY <1>0, <2>1, <2>2, KeepClaims
  <2>5. RetryBudget'
    BY <1>2, <2>1, LimitAssumption DEF IInv, RetryBudget
  <2>6. AcceptedRequestKept'
    BY <1>2, <2>1 DEF IInv, AcceptedRequestKept, TypeOK, InStatus
  <2>7. OneEach' /\ ControlOK'
    BY <1>2 DEF IInv, OneEach, ControlOK, Holding
  <2>8. ExecutingNotAsked'
    <3>1. ASSUME NEW c \in Consumer, current[c] # NoClaim, Good(current[c])
          PROVE  row[current[c].task].status = "running"
      BY <1>0, <3>1
    <3> QED BY <1>2, <3>1 DEF IInv, ExecutingNotAsked, InStatus, Good
  <2> QED BY <2>4, <2>5, <2>6, <2>7, <2>8 DEF IInv
<1>3. ASSUME NEW t \in Task, AdminRetry(t)
      PROVE  IInv'
  <2>1. {t} \in SUBSET InStatus("failed")
    BY <1>3 DEF AdminRetry, RetryTask, InStatus
  <2> QED
    BY <1>2, <1>3, <2>1 DEF AdminRetry, RetryTask, Rewrite, workerVars
<1>4. ASSUME AdminRetryAll
      PROVE  IInv'
  BY <1>2, <1>4 DEF AdminRetryAll, RetryAllFailed, Rewrite, workerVars
<1>5. ASSUME NEW i \in Item, ItemDeleted(i)
      PROVE  IInv'
  <2>1. {t \in Task : ItemOf[t] = i} \in SUBSET Task
    OBVIOUS
  <2> QED
    BY <1>5, <2>1, RemoveInv DEF ItemDeleted, DeleteItem, Rewrite
<1> QED BY <1>1, <1>3, <1>4, <1>5 DEF Requests

\* What a state write leaves of a row whose claim is current.
LEMMA OutcomeRow ==
    ASSUME NEW r \in Row, NEW k \in Claims, NEW result \in Results,
           r.retry = k.retry, r.retry < MaxRetry
    PROVE  /\ Outcome(k, r, result).status \in {"pending", "done", "failed"}
           /\ Outcome(k, r, result).retry <= MaxRetry
           /\ Outcome(k, r, result).status = "pending"
                 => Outcome(k, r, result).retry < MaxRetry
<1>0. r.retry \in Nat /\ k.retry \in Nat /\ MaxRetry \in Nat
  BY LimitAssumption DEF Row, Claims
<1>1. Done(r).status = "done" /\ Done(r).retry = r.retry
  BY DEF Done, Row
<1>2. FailedFatal(r).status = "failed" /\ FailedFatal(r).retry = r.retry + 1
  BY DEF FailedFatal, Row
<1>3. ASSUME NEW n
      PROVE  /\ FailedRetry(r, n).status = "pending"
             /\ FailedRetry(r, n).retry = r.retry + 1
  BY DEF FailedRetry, Row
<1>4. CASE result = "ok"
  BY <1>0, <1>1, <1>4 DEF Outcome
<1>5. CASE result = "fatal"
  BY <1>0, <1>2, <1>5 DEF Outcome
<1>6. CASE result = "transient"
  <2>1. Outcome(k, r, result) = Failed(r, k.retry)
    BY <1>6 DEF Outcome
  <2>2. CASE k.retry + 1 >= MaxRetry
    <3>1. Failed(r, k.retry) = FailedFatal(r)
      BY <2>2 DEF Failed
    <3> QED BY <1>0, <1>2, <2>1, <3>1
  <2>3. CASE ~(k.retry + 1 >= MaxRetry)
    <3>1. Failed(r, k.retry) = FailedRetry(r, retryBackoff(k.retry + 1))
      BY <2>3 DEF Failed
    <3> QED BY <1>0, <1>3, <2>1, <2>3, <3>1
  <2> QED BY <2>2, <2>3
<1> QED BY <1>4, <1>5, <1>6 DEF Results

\* What d holds when c has ended its task.
Ended(c, B, S, d) ==
    /\ batch'[d] = {Late(S, k) : k \in IF d = c THEN B ELSE batch[d]}
    /\ current'[d] = IF d = c \/ current[d] = NoClaim
                       THEN NoClaim ELSE Late(S, current[d])
    /\ current'[d] = NoClaim <=> (d = c \/ current[d] = NoClaim)
    /\ \A m \in Holding(d)' :
          \E k \in Holding(d) : m = Late(S, k) /\ (d = c => k \in batch[c])

\* The others keep what they hold, or are late with it; c keeps what it keeps of
\* its batch.
LEMMA EndTaskHolding ==
    ASSUME TypeOK, NEW c \in Consumer, NEW B \in SUBSET batch[c],
           NEW S \in SUBSET Task, EndTask(c, B, S), NEW d \in Consumer
    PROVE  Ended(c, B, S, d)
<1>1. /\ batch'[d] = {Late(S, k) : k \in IF d = c THEN B ELSE batch[d]}
      /\ current'[d] = IF d = c \/ current[d] = NoClaim
                         THEN NoClaim ELSE Late(S, current[d])
  BY DEF EndTask
<1>2. current'[d] = NoClaim <=> (d = c \/ current[d] = NoClaim)
  <2>1. current[d] # NoClaim => current[d] \in Claims
    BY DEF TypeOK
  <2>2. current[d] # NoClaim => Late(S, current[d]) \in Claims
    BY <2>1, RevisedClaim
  <2> QED BY <1>1, <2>2, NoClaimAssumption
<1>3. ASSUME NEW m \in Holding(d)'
      PROVE  \E k \in Holding(d) : m = Late(S, k) /\ (d = c => k \in batch[c])
  <2>1. m \in batch'[d] \/ (current'[d] # NoClaim /\ m = current'[d])
    BY <1>3 DEF Holding
  <2>2. batch[d] \subseteq Holding(d) /\ (current[d] # NoClaim => current[d] \in Holding(d))
    BY DEF Holding
  <2>3. CASE m \in batch'[d]
    BY <1>1, <2>2, <2>3
  <2>4. CASE current'[d] # NoClaim /\ m = current'[d]
    BY <1>1, <1>2, <2>2, <2>4
  <2> QED BY <2>1, <2>3, <2>4
<1> QED BY <1>1, <1>2, <1>3 DEF Ended

\* The end of an execution, with its state write or without: an execution in time
\* keeps the budget, a late one disturbs its task, and nobody stays in time on
\* the row it wrote.
LEMMA FinishInv ==
    ASSUME IInv, TypeOK', NEW c \in Consumer, NEW result \in Results,
           NEW B \in SUBSET batch[c], NEW S, NEW p,
           pc[c] = "exec",
           \/ WriteOutcome(current[c], result) /\ S = Written(current[c])
           \/ UNCHANGED queueVars /\ S = {},
           EndTask(c, B, S),
           pc' = [pc EXCEPT ![c] = p],
           p = "batch" \/ (p \in {"poll", "sleep"} /\ B = {}),
           UNCHANGED <<up, stopped, asked>>
    PROVE  IInv'
<1>k. PICK k \in Claims : k = current[c]
  BY DEF IInv, TypeOK, ControlOK
<1>0. /\ TypeOK /\ \A t \in Task : row[t] \in Row
      /\ \A d \in Consumer : Holding(d) \subseteq Claims
      /\ k \in Holding(c) /\ k.task \in Task
  BY <1>k, HoldingType, NoClaimAssumption DEF IInv, TypeOK, QueueTypeOK, Holding, Claims
<1>1. Good(k) => /\ row[k.task].status = "running"
                 /\ row[k.task].retry = k.retry
                 /\ k.task \notin asked
  BY <1>k, <1>0, NoClaimAssumption DEF IInv, ClaimsCurrent, ExecutingNotAsked, Good
<1>2. /\ \A t \in Task : t # k.task => row'[t] = row[t]
      /\ \/ S = {} /\ row'[k.task] = row[k.task]
         \/ /\ S = {k.task} /\ k.live
            /\ row'[k.task] = Outcome(k, row[k.task], result)
  BY <1>k, <1>0 DEF WriteOutcome, queueVars, Written
<1>3. S \in SUBSET Task
  BY <1>0, <1>2
<1>4. ASSUME NEW d \in Consumer
      PROVE  /\ batch'[d] = {Late(S, l) : l \in IF d = c THEN B ELSE batch[d]}
             /\ current'[d] = IF d = c \/ current[d] = NoClaim
                                THEN NoClaim ELSE Late(S, current[d])
             /\ current'[d] = NoClaim <=> (d = c \/ current[d] = NoClaim)
             /\ \A m \in Holding(d)' :
                   \E l \in Holding(d) : m = Late(S, l) /\ (d = c => l \in batch[c])
  <2>1. Ended(c, B, S, d)
    BY <1>0, <1>3, EndTaskHolding
  <2> QED BY <2>1 DEF Ended
<1>5. ASSUME NEW l \in Claims
      PROVE  /\ Late(S, l) \in Claims /\ Late(S, l).task = l.task
             /\ Good(Late(S, l)) => Good(l) /\ l.task \notin S /\ Late(S, l) = l
  BY RevisedClaim DEF Good
<1>6. ClaimsCurrent' /\ SoleHolder'
  <2>1. ASSUME NEW d \in Consumer, NEW m \in Holding(d)', Good(m)
        PROVE  m \in Holding(d) /\ m.task \in Task /\ row'[m.task] = row[m.task]
    <3>1. PICK l \in Holding(d) : m = Late(S, l)
      BY <1>4
    <3>2. l \in Claims
      BY <1>0
    <3>3. m = l /\ m.task \in Task /\ m.task \notin S
      BY <1>5, <2>1, <3>1, <3>2 DEF Claims
    <3> QED BY <1>2, <3>3
  <2>2. ASSUME NEW d \in Consumer, NEW m \in Holding(d)', Good(m)
        PROVE  row[m.task].status = "running" /\ row[m.task].age < StaleAge
    BY <2>1, <2>2 DEF IInv, ClaimsCurrent
  <2> QED BY <2>1, <2>2, KeepClaims
<1>7. OneEach'
  <2> DEFINE g == [l \in Claims |-> Late(S, l)]
  <2>1. g \in [Claims -> Claims] /\ \A l \in Claims : g[l].task = l.task
    BY <1>5
  <2>2. \A l \in Claims : g[l] = Late(S, l)
    OBVIOUS
  <2> HIDE DEF g
  <2>3. \A d \in Consumer : batch[d] \subseteq Claims /\ current[d] \in Claims \cup {NoClaim}
    BY <1>0 DEF TypeOK
  <2>4. ASSUME NEW d \in Consumer
        PROVE  /\ batch'[d] \subseteq {g[l] : l \in batch[d]}
               /\ \/ current'[d] = NoClaim
                  \/ current[d] # NoClaim /\ current'[d] = g[current[d]]
    BY <1>4, <2>2, <2>3
  <2> QED BY <2>1, <2>4, KeepOneEach
<1>8. ControlOK'
  <2>1. \A d \in Consumer : d # c => (batch[d] = {} => batch'[d] = {})
    BY <1>4
  <2>2. B = {} => batch'[c] = {}
    BY <1>4
  <2>3. \A d \in Consumer : pc'[d] = IF d = c THEN p ELSE pc[d]
    BY <1>0 DEF TypeOK
  <2>4. up' = up /\ up
    BY DEF IInv, ControlOK
  <2> QED BY <1>4, <2>1, <2>2, <2>3, <2>4 DEF IInv, ControlOK
<1>9. ExecutingNotAsked'
  <2>1. ASSUME NEW d \in Consumer, current'[d] # NoClaim, Good(current'[d])
        PROVE  current'[d].task \notin asked'
    <3>1. current[d] # NoClaim /\ current'[d] = Late(S, current[d])
      BY <1>4, <2>1
    <3>2. current[d] \in Claims
      BY <1>0, <3>1 DEF TypeOK
    <3>3. current'[d] = current[d]
      BY <1>5, <2>1, <3>1, <3>2
    <3> QED BY <2>1, <3>1, <3>3 DEF IInv, ExecutingNotAsked
  <2> QED BY <2>1 DEF ExecutingNotAsked, Good
<1>10. /\ disturbed \subseteq disturbed'
       /\ S # {} /\ ~Good(k) => k.task \in disturbed'
  BY <1>k, <1>2 DEF EndTask, Good
<1>11. RetryBudget'
  <2>1. ASSUME NEW t \in Task, t \notin disturbed'
        PROVE  /\ row'[t].status \in {"pending", "running"} => row'[t].retry < MaxRetry
               /\ row'[t].retry <= MaxRetry
    <3>1. CASE row'[t] = row[t]
      BY <1>10, <2>1, <3>1 DEF IInv, RetryBudget
    <3>2. CASE row'[t] # row[t]
      <4>1. /\ t = k.task /\ Good(k)
            /\ row'[t] = Outcome(k, row[k.task], result)
        BY <1>2, <1>10, <2>1, <3>2
      <4>2. row[k.task].retry < MaxRetry
        BY <1>1, <1>10, <2>1, <4>1 DEF IInv, RetryBudget
      <4>3. /\ Outcome(k, row[k.task], result).status \in {"pending", "done", "failed"}
            /\ Outcome(k, row[k.task], result).retry <= MaxRetry
            /\ Outcome(k, row[k.task], result).status = "pending"
                  => Outcome(k, row[k.task], result).retry < MaxRetry
        BY <1>0, <1>1, <4>1, <4>2, OutcomeRow
      <4> QED BY <4>1, <4>3
    <3> QED BY <3>1, <3>2
  <2> QED BY <2>1 DEF RetryBudget
<1>12. AcceptedRequestKept'
  <2>1. ASSUME NEW t \in asked', t \notin disturbed'
        PROVE  row'[t].status \in {"pending", "running"}
    <3>1. t \in asked /\ t \notin disturbed /\ t \in Task
      BY <1>0, <1>10, <2>1 DEF TypeOK
    <3>2. row'[t] = row[t]
      BY <1>1, <1>2, <1>10, <2>1, <3>1
    <3> QED BY <3>1, <3>2 DEF IInv, AcceptedRequestKept
  <2> QED BY <2>1 DEF AcceptedRequestKept
<1> QED BY <1>6, <1>7, <1>8, <1>9, <1>11, <1>12 DEF IInv

\* Claimed rows were pending, so nobody held them in time, and now only c does.
LEMMA ClaimInv ==
    ASSUME IInv, TypeOK', NEW c \in Consumer, NEW S \in SUBSET InStatus("pending"),
           NEW B \in {ClaimsOn(S), {}}, NEW p,
           pc[c] = "poll",
           Claim(S),
           batch' = [batch EXCEPT ![c] = B],
           pc' = [pc EXCEPT ![c] = p],
           p = "batch" \/ (p = "sleep" /\ B = {}),
           UNCHANGED <<up, stopped, current, asked, disturbed>>
    PROVE  IInv'
<1>0. /\ TypeOK /\ \A t \in Task : row[t] \in Row
      /\ \A d \in Consumer : Holding(d) \subseteq Claims
      /\ batch[c] = {} /\ current[c] = NoClaim
      /\ S \subseteq Task
  BY HoldingType DEF IInv, TypeOK, QueueTypeOK, ControlOK, InStatus
<1>1. \A t \in Task : row'[t] = IF t \in S THEN Claimed(row[t]) ELSE row[t]
  BY DEF Claim, Rewrite
<1>2. ASSUME NEW t \in Task
      PROVE  /\ t \in S => /\ row[t].status = "pending"
                           /\ row'[t].status = "running"
                           /\ row'[t].retry = row[t].retry
                           /\ row'[t].age < StaleAge
             /\ t \notin S => row'[t] = row[t]
  <2>1. ASSUME NEW r \in Row
        PROVE  /\ Claimed(r).status = "running"
               /\ Claimed(r).retry = r.retry
               /\ Claimed(r).age = 0
    BY DEF Claimed, Row
  <2>2. 0 < StaleAge
    BY LimitAssumption
  <2>3. t \in S => row[t].status = "pending"
    BY DEF InStatus
  <2> QED BY <1>0, <1>1, <2>1, <2>2, <2>3
<1>3. /\ Holding(c)' = B
      /\ \A d \in Consumer : d # c => Holding(d)' = Holding(d)
  BY <1>0 DEF Holding, TypeOK
<1>4. ASSUME NEW k \in B
      PROVE  /\ k.task \in S
             /\ k = [task |-> k.task, retry |-> row[k.task].retry, live |-> TRUE,
                     late |-> FALSE]
             /\ k.retry = row[k.task].retry
  BY DEF ClaimsOn
<1>5. ASSUME NEW d \in Consumer, d # c, NEW k \in Holding(d), Good(k)
      PROVE  /\ k.task \in Task /\ k.task \notin S
             /\ row'[k.task] = row[k.task]
  <2>1. k.task \in Task /\ row[k.task].status = "running"
    BY <1>0, <1>5 DEF IInv, ClaimsCurrent, Claims
  <2> QED BY <1>2, <2>1
<1>6. ClaimsCurrent'
  <2>1. ASSUME NEW d \in Consumer, NEW k \in Holding(d)', Good(k)
        PROVE  /\ row'[k.task].status = "running"
               /\ row'[k.task].retry = k.retry
               /\ row'[k.task].age < StaleAge
    <3>1. CASE d = c
      <4>1. k \in B
        BY <1>3, <2>1, <3>1
      <4>2. k.task \in S /\ k.task \in Task /\ k.retry = row[k.task].retry
        BY <1>0, <1>4, <4>1
      <4> QED BY <1>2, <4>2
    <3>2. CASE d # c
      <4>1. k \in Holding(d)
        BY <1>3, <2>1, <3>2
      <4>2. row'[k.task] = row[k.task]
        BY <1>5, <2>1, <3>2, <4>1
      <4> QED BY <2>1, <4>1, <4>2 DEF IInv, ClaimsCurrent
    <3> QED BY <3>1, <3>2
  <2> QED BY <2>1 DEF ClaimsCurrent, Good
<1>7. SoleHolder'
  <2>1. ASSUME NEW d \in Consumer, NEW e \in Consumer,
               NEW k \in Holding(d)', NEW l \in Holding(e)',
               Good(k), Good(l), k.task = l.task, d # e
        PROVE  FALSE
    <3>1. CASE d = c
      BY <1>3, <1>4, <1>5, <2>1, <3>1
    <3>2. CASE e = c
      BY <1>3, <1>4, <1>5, <2>1, <3>2
    <3>3. CASE d # c /\ e # c
      BY <1>3, <2>1, <3>3 DEF IInv, SoleHolder
    <3> QED BY <3>1, <3>2, <3>3
  <2> QED BY <2>1 DEF SoleHolder, Good
<1>8. OneEach'
  <2>1. NoClaim \notin B
    BY <1>0, NoClaimAssumption DEF TypeOK
  <2>2. \A d \in Consumer : batch'[d] = IF d = c THEN B ELSE batch[d]
    BY <1>0 DEF TypeOK
  <2>3. \A k, l \in B : k.task = l.task => k = l
    BY <1>4
  <2>4. \A d \in Consumer : current'[d] \notin batch'[d]
    BY <1>0, <2>1, <2>2 DEF IInv, OneEach
  <2>5. \A d \in Consumer : \A k, l \in Holding(d)' : k.task = l.task => k = l
    BY <1>3, <2>3 DEF IInv, OneEach
  <2> QED BY <2>4, <2>5 DEF OneEach
<1>9. ControlOK'
  BY <1>0 DEF IInv, ControlOK, TypeOK
<1>10. ExecutingNotAsked'
  BY DEF IInv, ExecutingNotAsked, Good
<1>11. RetryBudget'
  BY <1>2 DEF IInv, RetryBudget
<1>12. AcceptedRequestKept'
  BY <1>0, <1>2 DEF IInv, AcceptedRequestKept, TypeOK
<1> QED BY <1>6, <1>7, <1>8, <1>9, <1>10, <1>11, <1>12 DEF IInv

\* Consumers that let go of claims, or change place, and leave the table.
LEMMA ReleaseInv ==
    ASSUME IInv, TypeOK', ControlOK',
           UNCHANGED <<queueVars, asked, disturbed>>,
           \A c \in Consumer : /\ batch'[c] \subseteq batch[c]
                               /\ current'[c] \in {current[c], NoClaim}
    PROVE  IInv'
<1>0. /\ TypeOK /\ row' = row
      /\ \A c \in Consumer : batch[c] \subseteq Claims
  BY DEF IInv, TypeOK, queueVars
<1>1. \A c \in Consumer : Holding(c)' \subseteq Holding(c)
  BY DEF Holding
<1>2. ClaimsCurrent' /\ SoleHolder'
  BY <1>0, <1>1, KeepClaims DEF IInv, ClaimsCurrent
<1>3. OneEach'
  <2>1. \A c \in Consumer : current'[c] \notin batch'[c]
    BY <1>0, NoClaimAssumption DEF IInv, OneEach
  <2> QED BY <1>1, <2>1 DEF IInv, OneEach
<1>4. ExecutingNotAsked' /\ RetryBudget' /\ AcceptedRequestKept'
  BY <1>0 DEF IInv, ExecutingNotAsked, RetryBudget, AcceptedRequestKept, Good
<1> QED BY <1>2, <1>3, <1>4 DEF IInv

\* Rows nobody holds in time go back to pending.
LEMMA ResetInv ==
    ASSUME IInv, TypeOK', ControlOK', NEW S \in SUBSET InStatus("running"),
           row' = [t \in Task |-> IF t \in S THEN Reset(row[t]) ELSE row[t]],
           \A c \in Consumer : \A k \in Holding(c) : Good(k) => k.task \notin S,
           UNCHANGED <<batch, current, asked, disturbed>>
    PROVE  IInv'
<1>0. /\ TypeOK /\ \A t \in Task : row[t] \in Row
      /\ \A c \in Consumer : Holding(c) \subseteq Claims
      /\ \A c \in Consumer : Holding(c)' = Holding(c)
  BY HoldingType DEF IInv, TypeOK, QueueTypeOK, Holding
<1>1. ASSUME NEW t \in Task
      PROVE  /\ t \in S => /\ row[t].status = "running"
                           /\ row'[t].status = "pending"
                           /\ row'[t].retry = row[t].retry
             /\ t \notin S => row'[t] = row[t]
  BY <1>0 DEF Reset, Row, InStatus
<1>2. ClaimsCurrent' /\ SoleHolder'
  <2>1. \A c \in Consumer : \A k \in Holding(c) : k.task \in Task
    BY <1>0 DEF Claims
  <2> QED BY <1>0, <1>1, <2>1, KeepClaims DEF IInv, ClaimsCurrent
<1>3. OneEach' /\ ExecutingNotAsked'
  BY <1>0 DEF IInv, OneEach, ExecutingNotAsked, Good
<1>4. RetryBudget' /\ AcceptedRequestKept'
  BY <1>0, <1>1 DEF IInv, RetryBudget, AcceptedRequestKept, TypeOK
<1> QED BY <1>2, <1>3, <1>4 DEF IInv

\* What turned stale nobody holds in time.
LEMMA StaleNotOwned ==
    ASSUME IInv, NEW c \in Consumer, NEW k \in Holding(c), Good(k)
    PROVE  k.task \notin Stale
<1>1. ASSUME k.task \in Stale
      PROVE  FALSE
  <2>1. row[k.task].age \in Nat /\ StaleAge \in Nat
    BY <1>1, LimitAssumption DEF IInv, TypeOK, QueueTypeOK, Stale, InStatus, Row
  <2>2. row[k.task].age < StaleAge
    BY DEF IInv, ClaimsCurrent
  <2> QED BY <1>1, <2>1, <2>2 DEF Stale
<1> QED BY <1>1

\* A step of a goroutine or of a ticker keeps the inductive invariant.
LEMMA SystemInv ==
    ASSUME IInv, TypeOK', System
    PROVE  IInv'
<1>0. /\ TypeOK
      /\ \A t \in Task : row[t] \in Row
  BY DEF IInv, TypeOK, QueueTypeOK
<1>1. ASSUME NEW c \in Consumer, Quit(c)
      PROVE  IInv'
  <2>1. ControlOK'
    BY <1>0, <1>1 DEF Quit, IInv, ControlOK, TypeOK
  <2>2. \A d \in Consumer : batch'[d] \subseteq batch[d]
    BY <1>0, <1>1 DEF Quit, TypeOK
  <2> QED BY <1>1, <2>1, <2>2, ReleaseInv DEF Quit, history
<1>2. ASSUME NEW c \in Consumer, Wake(c)
      PROVE  IInv'
  <2>1. ControlOK'
    BY <1>0, <1>2 DEF Wake, IInv, ControlOK, TypeOK
  <2> QED BY <1>2, <2>1, ReleaseInv DEF Wake, history
<1>3. ASSUME NEW c \in Consumer, StartTask(c)
      PROVE  IInv'
  <2>1. PICK k \in batch[c] :
           /\ batch' = [batch EXCEPT ![c] = @ \ {k}]
           /\ current' = [current EXCEPT ![c] = k]
           /\ asked' = IF k.live THEN asked \ {k.task} ELSE asked
    BY <1>3 DEF StartTask
  <2>2. /\ k \in Claims /\ k # NoClaim
        /\ current[c] = NoClaim
        /\ pc' = [pc EXCEPT ![c] = "exec"]
        /\ row' = row /\ up' = up /\ disturbed' = disturbed
        /\ pc[c] = "batch"
    BY <1>0, <1>3, <2>1, NoClaimAssumption
    DEF StartTask, queueVars, TypeOK, IInv, ControlOK
  <2>3. \A d \in Consumer : Holding(d)' \subseteq Holding(d)
    BY <1>0, <2>1, <2>2 DEF Holding, TypeOK
  <2>4. ClaimsCurrent' /\ SoleHolder'
    BY <2>2, <2>3, KeepClaims DEF IInv, ClaimsCurrent
  <2>5. OneEach'
    <3>1. \A d \in Consumer : current'[d] \notin batch'[d]
      BY <1>0, <2>1, <2>2 DEF IInv, OneEach, TypeOK
    <3> QED BY <2>3, <3>1 DEF IInv, OneEach
  <2>6. ControlOK'
    BY <1>0, <2>1, <2>2 DEF IInv, ControlOK, TypeOK
  <2>7. ExecutingNotAsked'
    BY <1>0, <2>1, <2>2 DEF IInv, ExecutingNotAsked, TypeOK, Good
  <2>8. RetryBudget' /\ AcceptedRequestKept'
    BY <2>1, <2>2 DEF IInv, RetryBudget, AcceptedRequestKept
  <2> QED BY <2>4, <2>5, <2>6, <2>7, <2>8 DEF IInv
<1>4. ASSUME NEW c \in Consumer, NEW allow \in BOOLEAN, ClaimTasks(c, allow)
      PROVE  IInv'
  <2>1. PICK S \in SUBSET Claimable(allow) :
           /\ Claim(S)
           /\ batch' = [batch EXCEPT ![c] = ClaimsOn(S)]
           /\ pc' = [pc EXCEPT ![c] = IF S = {} THEN "sleep" ELSE "batch"]
    BY <1>4 DEF ClaimTasks
  <2>2. S \in SUBSET InStatus("pending") /\ (S = {} => ClaimsOn(S) = {})
    BY DEF Claimable, ClaimsOn
  <2>3. pc[c] = "poll" /\ UNCHANGED <<up, stopped, current, asked, disturbed>>
    BY <1>4 DEF ClaimTasks, history
  <2>4. CASE S = {}
    BY <2>1, <2>2, <2>3, <2>4, ClaimInv
  <2>5. CASE S # {}
    BY <2>1, <2>2, <2>3, <2>5, ClaimInv
  <2> QED BY <2>4, <2>5
<1>5. ASSUME NEW c \in Consumer, NEW result \in Results, FinishTask(c, result)
      PROVE  IInv'
  BY <1>5, FinishInv DEF FinishTask
<1>6. ASSUME StaleTicker
      PROVE  IInv'
  <2>1. /\ row' = [t \in Task |-> IF t \in Stale THEN Reset(row[t]) ELSE row[t]]
        /\ UNCHANGED <<up, pc, stopped, batch, current, asked, disturbed>>
    BY <1>6 DEF StaleTicker, ReconcileStaleRunning, Rewrite, workerVars, history
  <2>2. Stale \in SUBSET InStatus("running")
    BY DEF Stale
  <2>3. \A c \in Consumer : \A k \in Holding(c) : Good(k) => k.task \notin Stale
    BY StaleNotOwned
  <2>4. ControlOK'
    BY <2>1 DEF IInv, ControlOK
  <2> QED BY <2>1, <2>2, <2>3, <2>4, ResetInv
<1>7. ASSUME PruneTicker
      PROVE  IInv'
  <2>1. Prunable \in SUBSET Task
    BY DEF Prunable, InStatus
  <2> QED
    BY <1>7, <2>1, RemoveInv DEF PruneTicker, PruneDone, Rewrite
<1> QED
  BY <1>1, <1>2, <1>3, <1>4, <1>5, <1>6, <1>7 DEF System, Consume

\* A lost answer, a failed write or a crash keeps the inductive invariant.
LEMMA FaultInv ==
    ASSUME IInv, TypeOK', Faults
    PROVE  IInv'
<1>0. TypeOK
  BY DEF IInv
<1>1. ASSUME NEW c \in Consumer, NEW allow \in BOOLEAN, ClaimError(c, allow)
      PROVE  IInv'
  <2>1. /\ batch[c] = {} /\ pc[c] = "poll" /\ current[c] = NoClaim
        /\ pc' = [pc EXCEPT ![c] = "sleep"]
        /\ UNCHANGED <<up, stopped, batch, current, asked, disturbed>>
    BY <1>1 DEF ClaimError, IInv, ControlOK, history
  <2>2. CASE \E S \in SUBSET Claimable(allow) : Claim(S)
    <3>1. PICK S \in SUBSET Claimable(allow) : Claim(S)
      BY <2>2
    <3>2. S \in SUBSET InStatus("pending")
      BY DEF Claimable
    <3>3. batch' = [batch EXCEPT ![c] = {}]
      BY <1>0, <2>1 DEF TypeOK
    <3> QED BY <2>1, <3>1, <3>2, <3>3, ClaimInv
  <2>3. CASE UNCHANGED queueVars
    <3>1. ControlOK'
      BY <1>0, <2>1 DEF IInv, ControlOK, TypeOK
    <3> QED BY <2>1, <2>3, <3>1, ReleaseInv
  <2> QED BY <1>1, <2>2, <2>3 DEF ClaimError
<1>2. ASSUME NEW c \in Consumer, NEW result \in Results, FinishError(c, result)
      PROVE  IInv'
  <2>1. /\ pc[c] = "exec" /\ pc' = [pc EXCEPT ![c] = "sleep"]
        /\ UNCHANGED <<up, stopped, asked>>
    BY <1>2 DEF FinishError
  <2>2. PICK S : /\ EndTask(c, {}, S)
                 /\ \/ WriteOutcome(current[c], result) /\ S = Written(current[c])
                    \/ UNCHANGED queueVars /\ S = {}
    BY <1>2 DEF FinishError
  <2> QED BY <2>1, <2>2, FinishInv
<1>3. ASSUME Crash
      PROVE  IInv'
  <2>1. ControlOK'
    BY <1>3 DEF Crash, ControlOK
  <2> QED BY <1>3, <2>1, ReleaseInv DEF Crash, history
<1> QED BY <1>1, <1>2, <1>3 DEF Faults

\* Starting and resizing keep the inductive invariant.
LEMMA ControlInv ==
    ASSUME IInv, TypeOK', Control
    PROVE  IInv'
<1>0. TypeOK
  BY DEF IInv
<1>1. ASSUME NEW S \in SUBSET Consumer, NEW D, Resize(S, D),
             \A c \in S : pc[c] = "off",
             UNCHANGED <<batch, current>>, up'
      PROVE  ControlOK'
  BY <1>0, <1>1 DEF Resize, IInv, ControlOK, TypeOK
<1>2. ASSUME NEW n \in 1..WorkerMax, SetWorkerCount(n)
      PROVE  IInv'
  <2>1. PICK S \in SUBSET Consumer, D \in SUBSET Consumer :
           Resize(S, D) /\ \A c \in S : pc[c] = "off"
    <3>1. {c \in Consumer : pc[c] = "off"} \subseteq Consumer
          /\ Active \subseteq Consumer
      BY DEF Active
    <3> QED BY <1>2, <3>1 DEF SetWorkerCount
  <2>2. up' /\ UNCHANGED <<queueVars, batch, current, asked, disturbed>>
    BY <1>2 DEF SetWorkerCount, history
  <2>3. ControlOK'
    BY <1>1, <2>1, <2>2
  <2> QED BY <2>2, <2>3, ReleaseInv
<1>3. ASSUME NEW n \in 1..WorkerMax, Run(n)
      PROVE  IInv'
  <2>1. \A c \in Consumer : pc[c] = "off" /\ Holding(c) = {}
    BY <1>3 DEF Run, IInv, ControlOK, Holding
  <2>2. PICK S \in SUBSET Consumer : Resize(S, {})
    BY <1>3 DEF Run
  <2>3. up' /\ UNCHANGED <<batch, current, asked, disturbed>>
    BY <1>3 DEF Run, history
  <2>4. ControlOK'
    BY <1>1, <2>1, <2>2, <2>3
  <2>5. CASE ReconcileOnStartup
    BY <2>1, <2>3, <2>4, <2>5, ResetInv DEF ReconcileOnStartup, Rewrite
  <2>6. CASE UNCHANGED queueVars
    BY <2>3, <2>4, <2>6, ReleaseInv
  <2> QED BY <1>3, <2>5, <2>6 DEF Run
<1> QED BY <1>2, <1>3 DEF Control

\* Time makes those late whose rows turn stale; the others stay as they are.
LEMMA TimeInv ==
    ASSUME IInv, TypeOK', TimePasses
    PROVE  IInv'
<1> DEFINE turning == {t \in Task : row[t].age + 1 >= StaleAge}
<1>0. /\ TypeOK /\ \A t \in Task : row[t] \in Row
      /\ \A c \in Consumer : Holding(c) \subseteq Claims
      /\ UNCHANGED <<up, pc, stopped, asked, disturbed>>
  BY HoldingType DEF IInv, TypeOK, QueueTypeOK, TimePasses, history
<1>1. ASSUME NEW t \in Task
      PROVE  /\ row'[t].status = row[t].status
             /\ row'[t].retry = row[t].retry
             /\ t \notin turning => row'[t].age < StaleAge
  <2>1. row'[t] = Older(row[t]) /\ row[t] \in Row
    BY <1>0 DEF TimePasses, Tick, Rewrite
  <2>2. ASSUME NEW r \in Row
        PROVE  /\ Older(r).status = r.status
               /\ Older(r).retry = r.retry
               /\ Older(r).age \in {r.age, Lesser(r.age + 1, PruneAge)}
    BY DEF Older, Row
  <2>3. ASSUME NEW a \in 0..PruneAge, ~(a + 1 >= StaleAge)
        PROVE  a < StaleAge /\ Lesser(a + 1, PruneAge) < StaleAge
    BY <2>3, LimitAssumption DEF Lesser
  <2>4. row[t].age \in 0..PruneAge
    BY <2>1 DEF Row
  <2> QED BY <2>1, <2>2, <2>3, <2>4
<1>2. PICK g \in [Claims -> Claims] :
              g = [k \in Claims |-> Late(turning, k)] /\ RevisedBy(g)
  BY <1>0, TimeIs
<1> HIDE DEF turning
<1>3. ASSUME NEW k \in Claims
      PROVE  /\ g[k] \in Claims /\ g[k].task = k.task
             /\ Good(g[k]) => Good(k) /\ k.task \notin turning /\ g[k] = k
  <2>1. g[k] = Late(turning, k)
    BY <1>2
  <2> QED BY <2>1, RevisedClaim DEF Good
<1>4. ASSUME NEW c \in Consumer
      PROVE  /\ current[c] = NoClaim <=> current'[c] = NoClaim
             /\ current[c] # NoClaim =>
                   current[c] \in Claims /\ current'[c] = g[current[c]]
             /\ batch'[c] = {g[k] : k \in batch[c]}
             /\ Holding(c)' = {g[k] : k \in Holding(c)}
  BY <1>0, <1>2, RevisedHolding
<1>5. ClaimsCurrent' /\ SoleHolder'
  <2>1. ASSUME NEW c \in Consumer, NEW m \in Holding(c)', Good(m)
        PROVE  m \in Holding(c) /\ m.task \in Task /\ m.task \notin turning
    <3>1. PICK k \in Holding(c) : m = g[k]
      BY <1>4
    <3>2. k \in Claims
      BY <1>0
    <3> QED BY <1>3, <2>1, <3>1, <3>2 DEF Claims
  <2>2. ASSUME NEW c \in Consumer, NEW m \in Holding(c)', Good(m)
        PROVE  row[m.task].status = "running"
    BY <2>1, <2>2 DEF IInv, ClaimsCurrent
  <2> QED BY <1>1, <2>1, <2>2, KeepClaims
<1>6. OneEach'
  BY <1>3, <1>4, KeepOneEach
<1>7. ControlOK'
  <2>1. \A c \in Consumer : batch[c] = {} => batch'[c] = {}
    BY <1>4
  <2> QED BY <1>0, <1>4, <2>1 DEF IInv, ControlOK
<1>8. ExecutingNotAsked'
  <2>1. ASSUME NEW c \in Consumer, current'[c] # NoClaim, Good(current'[c])
        PROVE  current'[c].task \notin asked'
    <3>1. /\ current[c] # NoClaim /\ current[c] \in Claims
          /\ current'[c] = g[current[c]]
      BY <1>4, <2>1
    <3>2. current'[c] = current[c] /\ Good(current[c])
      BY <1>3, <2>1, <3>1
    <3> QED BY <1>0, <3>1, <3>2 DEF IInv, ExecutingNotAsked
  <2> QED BY <2>1 DEF ExecutingNotAsked, Good
<1>9. RetryBudget' /\ AcceptedRequestKept'
  BY <1>0, <1>1 DEF IInv, RetryBudget, AcceptedRequestKept, TypeOK
<1> QED BY <1>5, <1>6, <1>7, <1>8, <1>9 DEF IInv

\* Every step keeps the inductive invariant.
LEMMA NextStep == IInv /\ [Next]_vars => IInv'
<1> SUFFICES ASSUME IInv, [Next]_vars
             PROVE  IInv'
  OBVIOUS
<1>1. TypeOK'
  BY IInvType, NextType DEF TypeInv
<1>2. CASE Next
  BY <1>1, <1>2, RequestInv, SystemInv, FaultInv, ControlInv, TimeInv DEF Next
<1>3. CASE UNCHANGED vars
  BY <1>3 DEF vars, IInv, TypeOK, QueueTypeOK, ClaimsCurrent, SoleHolder,
              OneEach, ControlOK, ExecutingNotAsked, RetryBudget,
              AcceptedRequestKept, Holding, Good
<1> QED BY <1>2, <1>3

\* The inductive invariant holds in every behaviour.
THEOREM InvariantHolds == Spec => []IInv
BY InitIInv, NextStep, PTL DEF Spec

\* Claims, resizes, faults, deletions and restarts may interleave as they will:
\* of all who have a task in hand at most one is not late, the row of that one
\* says running, and no consumer has a task twice.
THEOREM Exclusive == Spec => []ExclusiveExecution
<1>1. IInv => ExclusiveExecution
  BY HoldingType DEF IInv, ClaimsCurrent, SoleHolder, OneEach, ExclusiveExecution,
                     Owned, Owns, Good, Claims
<1> QED BY <1>1, InvariantHolds, PTL

\* A row that no late execution wrote, and that can still be executed, has
\* retries left.
THEOREM RetriesBounded == Spec => []RetryBudget
<1>1. IInv => RetryBudget
  BY DEF IInv
<1> QED BY <1>1, InvariantHolds, PTL

\* An accepted request, for a failed row too, stays in the queue until an
\* execution starts for it; only the write of a late execution can end it.
THEOREM RequestsKept == Spec => []AcceptedRequestKept
<1>1. IInv => AcceptedRequestKept
  BY DEF IInv
<1> QED BY <1>1, InvariantHolds, PTL

-----------------------------------------------------------------------------
(* The worker implements JobLedger: the invariant says who owns a task,    *)
(* and every step of the worker is a step of the ledger.                   *)

\* The owner of a task is the consumer that holds it in time.
LEMMA OwnerIs ==
    ASSUME SoleHolder, NEW t \in Task
    PROVE  /\ \A c \in Consumer : LedgerOwner[t] = c <=> Owns(c, t)
           /\ LedgerOwner[t] = NoConsumer <=> ~Owned(t)
           /\ LedgerOwner[t] \in Consumer \cup {NoConsumer}
<1>1. \A c, d \in Consumer : Owns(c, t) /\ Owns(d, t) => c = d
  BY DEF SoleHolder, Owns
<1>2. LedgerOwner[t] = IF Owned(t) THEN CHOOSE c \in Consumer : Owns(c, t)
                                   ELSE NoConsumer
  BY DEF LedgerOwner
<1> QED BY <1>1, <1>2, NoConsumerAssumption DEF Owned

\* The same of the next state.
LEMMA OwnerIsNext ==
    ASSUME SoleHolder', NEW t \in Task
    PROVE  /\ \A c \in Consumer : LedgerOwner'[t] = c <=> Owns(c, t)'
           /\ LedgerOwner'[t] = NoConsumer <=> ~Owned(t)'
           /\ LedgerOwner'[t] \in Consumer \cup {NoConsumer}
<1>1. \A c, d \in Consumer : Owns(c, t)' /\ Owns(d, t)' => c = d
  BY DEF SoleHolder, Owns
<1>2. LedgerOwner'[t] = IF Owned(t)' THEN CHOOSE c \in Consumer : Owns(c, t)'
                                     ELSE NoConsumer
  BY DEF LedgerOwner
<1> QED BY <1>1, <1>2, NoConsumerAssumption DEF Owned

\* A task that the consumers of X lose, and no other.
LEMMA OwnerLoses ==
    ASSUME SoleHolder, SoleHolder', NEW t \in Task, NEW X,
           \A c \in Consumer : Owns(c, t)' <=> Owns(c, t) /\ c \notin X
    PROVE  LedgerOwner'[t] = IF LedgerOwner[t] \in X THEN NoConsumer
                                                    ELSE LedgerOwner[t]
<1>1. CASE Owned(t)'
  <2>1. PICK c \in Consumer : Owns(c, t)'
    BY <1>1 DEF Owned
  <2>2. Owns(c, t) /\ c \notin X
    BY <2>1
  <2> QED BY <2>1, <2>2, OwnerIs, OwnerIsNext
<1>2. CASE ~Owned(t)'
  <2>1. LedgerOwner'[t] = NoConsumer
    BY <1>2, OwnerIsNext
  <2>2. CASE Owned(t)
    <3>1. PICK c \in Consumer : Owns(c, t)
      BY <2>2 DEF Owned
    <3>2. c \in X
      BY <1>2, <3>1 DEF Owned
    <3> QED BY <2>1, <3>1, <3>2, OwnerIs
  <2>3. CASE ~Owned(t)
    BY <2>1, <2>3, OwnerIs
  <2> QED BY <2>2, <2>3
<1> QED BY <1>1, <1>2

\* A task that nobody loses or wins.
LEMMA OwnerSame ==
    ASSUME SoleHolder, SoleHolder', NEW t \in Task,
           \A c \in Consumer : Owns(c, t)' <=> Owns(c, t)
    PROVE  LedgerOwner'[t] = LedgerOwner[t]
<1>1. CASE Owned(t)
  <2>1. PICK c \in Consumer : Owns(c, t)
    BY <1>1 DEF Owned
  <2> QED BY <2>1, OwnerIs, OwnerIsNext
<1>2. CASE ~Owned(t)
  <2>1. ~Owned(t)'
    BY <1>2 DEF Owned
  <2> QED BY <1>2, <2>1, OwnerIs, OwnerIsNext
<1> QED BY <1>1, <1>2

\* The owners and the late ones are functions of the tasks.
LEMMA LedgerFunctions ==
    /\ LedgerOwner = [t \in Task |-> LedgerOwner[t]]
    /\ LedgerOwner' = [t \in Task |-> LedgerOwner'[t]]
    /\ LedgerLate = [t \in Task |-> LedgerLate[t]]
    /\ LedgerLate' = [t \in Task |-> LedgerLate'[t]]
    /\ LedgerState = [t \in Task |-> LedgerState[t]]
    /\ \A t \in Task : /\ LedgerLate[t] = {c \in Consumer : IsLate(c, t)}
                       /\ LedgerLate'[t] = {c \in Consumer : IsLate(c, t)'}
<1>1. LedgerOwner = [t \in Task |-> LedgerOwner[t]]
  BY DEF LedgerOwner
<1>2. LedgerOwner' = [t \in Task |-> LedgerOwner'[t]]
  BY DEF LedgerOwner
<1>3. LedgerLate = [t \in Task |-> LedgerLate[t]]
  BY DEF LedgerLate
<1>4. LedgerLate' = [t \in Task |-> LedgerLate'[t]]
  BY DEF LedgerLate
<1>5. LedgerState = [t \in Task |-> LedgerState[t]]
  BY DEF LedgerState
<1>6. \A t \in Task : /\ LedgerLate[t] = {c \in Consumer : IsLate(c, t)}
                      /\ LedgerLate'[t] = {c \in Consumer : IsLate(c, t)'}
  BY DEF LedgerLate
<1> QED BY <1>1, <1>2, <1>3, <1>4, <1>5, <1>6

\* Everybody keeps what he has.
KeepsAll ==
    \A t \in Task, c \in Consumer :
        (Owns(c, t)' <=> Owns(c, t)) /\ (IsLate(c, t)' <=> IsLate(c, t))

\* Then the owners and the late ones stay.
LEMMA OwnerStays ==
    ASSUME SoleHolder, SoleHolder', KeepsAll
    PROVE  LedgerOwner' = LedgerOwner /\ LedgerLate' = LedgerLate
<1>1. ASSUME NEW t \in Task
      PROVE  LedgerOwner'[t] = LedgerOwner[t] /\ LedgerLate'[t] = LedgerLate[t]
  <2>1. \A c \in Consumer : Owns(c, t)' <=> Owns(c, t)
    BY DEF KeepsAll
  <2>2. LedgerOwner'[t] = LedgerOwner[t]
    BY <2>1, OwnerSame
  <2>3. LedgerLate'[t] = LedgerLate[t]
    BY LedgerFunctions DEF KeepsAll
  <2> QED BY <2>2, <2>3
<1>2. LedgerOwner' = [t \in Task |-> LedgerOwner[t]]
  BY <1>1, LedgerFunctions
<1>3. LedgerLate' = [t \in Task |-> LedgerLate[t]]
  BY <1>1, LedgerFunctions
<1> QED BY <1>2, <1>3, LedgerFunctions

\* A step that revises no claim keeps everybody's.
LEMMA SameHolding ==
    ASSUME \A c \in Consumer : Holding(c)' = Holding(c)
    PROVE  KeepsAll
BY DEF KeepsAll, Owns, IsLate, Good

\* The status of a row says what the ledger's job is.
Shows(s) ==
    CASE s = "absent"  -> "none"
      [] s = "pending" -> "queued"
      [] s = "running" -> "running"
      [] OTHER         -> "closed"

\* A step that changes the state of the jobs of S to s and of no other.
LEMMA StateStep ==
    ASSUME NEW S, NEW s,
           \A t \in Task :
              Shows(row'[t].status) = IF t \in S THEN s ELSE Shows(row[t].status)
    PROVE  LedgerState' = Ledger!Set(LedgerState, S, s)
<1>1. LedgerState = [t \in Task |-> Shows(row[t].status)]
  BY DEF LedgerState, Shows
<1>2. LedgerState' = [t \in Task |-> Shows(row'[t].status)]
  BY DEF LedgerState, Shows
<1> QED BY <1>1, <1>2 DEF Ledger!Set

\* A consumer owns rows that are running only.
LEMMA OwnedRuns ==
    ASSUME IInv, NEW t \in Task, Owned(t)
    PROVE  row[t].status = "running"
BY DEF IInv, ClaimsCurrent, Owned, Owns

\* A step that writes no status and takes all they have from the consumers of W.
LEMMA LoseStep ==
    ASSUME IInv, IInv', NEW W \in SUBSET Consumer,
           \A t \in Task : row'[t].status = row[t].status,
           \A c \in Consumer : Holding(c)' = IF c \in W THEN {} ELSE Holding(c)
    PROVE  Ledger!Next
<1>1. ASSUME NEW t \in Task, NEW c \in Consumer
      PROVE  /\ Owns(c, t)' <=> Owns(c, t) /\ c \notin W
             /\ IsLate(c, t)' <=> IsLate(c, t) /\ c \notin W
  BY DEF Owns, IsLate, Good
<1>2. \A t \in Task :
         LedgerOwner'[t] = IF LedgerOwner[t] \in W THEN NoConsumer ELSE LedgerOwner[t]
  BY <1>1, OwnerLoses DEF IInv
<1>3. \A t \in Task : LedgerLate'[t] = LedgerLate[t] \ W
  BY <1>1, LedgerFunctions
<1>4. LedgerState' = LedgerState
  BY DEF LedgerState
<1>5. LedgerOwner' = [t \in Task |-> IF LedgerOwner[t] \in W THEN NoConsumer
                                                           ELSE LedgerOwner[t]]
  BY <1>2, LedgerFunctions
<1>6. LedgerLate' = [t \in Task |-> LedgerLate[t] \ W]
  BY <1>3, LedgerFunctions
<1>7. Ledger!Lose(W)
  BY <1>4, <1>5, <1>6 DEF Ledger!Lose
<1> QED BY <1>7 DEF Ledger!Next

\* Rows that were not in the queue enter it, and everybody keeps what he has.
LEMMA SubmitStep ==
    ASSUME IInv, IInv', NEW S \in SUBSET Task, UNCHANGED <<batch, current>>,
           \A t \in S : /\ row[t].status \in {"absent", "done", "failed"}
                        /\ row'[t].status = "pending",
           \A t \in Task \ S : row'[t].status = row[t].status
    PROVE  Ledger!Next
<1>1. LedgerOwner' = LedgerOwner /\ LedgerLate' = LedgerLate
  <2>1. \A c \in Consumer : Holding(c)' = Holding(c)
    BY DEF Holding
  <2> QED BY <2>1, SameHolding, OwnerStays DEF IInv
<1>2. LedgerState' = Ledger!Set(LedgerState, S, "queued")
  BY StateStep DEF Shows
<1>3. \A t \in S : LedgerState[t] \in {"none", "closed"}
  BY DEF LedgerState
<1> QED BY <1>1, <1>2, <1>3 DEF Ledger!Next, Ledger!Submit

\* Running rows that nobody owns go back to the queue.
LEMMA RecoverStep ==
    ASSUME IInv, IInv', NEW S \in SUBSET Task, UNCHANGED <<batch, current>>,
           \A t \in S : /\ row[t].status = "running" /\ ~Owned(t)
                        /\ row'[t].status = "pending",
           \A t \in Task \ S : row'[t].status = row[t].status
    PROVE  Ledger!Next
<1>1. LedgerOwner' = LedgerOwner /\ LedgerLate' = LedgerLate
  <2>1. \A c \in Consumer : Holding(c)' = Holding(c)
    BY DEF Holding
  <2> QED BY <2>1, SameHolding, OwnerStays DEF IInv
<1>2. LedgerState' = Ledger!Set(LedgerState, S, "queued")
  BY StateStep DEF Shows
<1>3. \A t \in S : LedgerState[t] = "running" /\ LedgerOwner[t] = NoConsumer
  BY OwnerIs DEF LedgerState, IInv
<1> QED BY <1>1, <1>2, <1>3 DEF Ledger!Next, Ledger!Recover

\* Deleted rows take their claims along.
LEMMA ForgetStep ==
    ASSUME IInv, IInv', NEW S \in SUBSET Task,
           row' = [t \in Task |-> IF t \in S THEN Absent ELSE row[t]],
           Detach(S)
    PROVE  Ledger!Next
<1>0. TypeOK /\ \A c \in Consumer : Holding(c) \subseteq Claims
  BY HoldingType DEF IInv
<1>1. PICK g \in [Claims -> Claims] :
              /\ g = [k \in Claims |-> Dead(S, k)]
              /\ RevisedBy(g)
  BY <1>0, DetachIs
<1>2. ASSUME NEW k \in Claims
      PROVE  /\ g[k].task = k.task /\ g[k].late = k.late
             /\ g[k].live <=> k.live /\ k.task \notin S
  <2>1. g[k] = Dead(S, k)
    BY <1>1
  <2> QED BY <2>1, RevisedClaim
<1>3. \A c \in Consumer : Holding(c)' = {g[k] : k \in Holding(c)}
  BY <1>0, <1>1, RevisedHolding
<1>4. ASSUME NEW t \in Task, NEW c \in Consumer
      PROVE  /\ Owns(c, t)' <=> Owns(c, t) /\ t \notin S
             /\ IsLate(c, t)' <=> IsLate(c, t) /\ t \notin S
  BY <1>0, <1>2, <1>3 DEF Owns, IsLate, Good
<1>5. ASSUME NEW t \in Task
      PROVE  /\ LedgerOwner'[t] = IF t \in S THEN NoConsumer ELSE LedgerOwner[t]
             /\ LedgerLate'[t] = IF t \in S THEN {} ELSE LedgerLate[t]
  <2>1. CASE t \in S
    <3>1. ~Owned(t)'
      BY <1>4, <2>1 DEF Owned
    <3> QED BY <1>4, <2>1, <3>1, OwnerIsNext, LedgerFunctions DEF IInv
  <2>2. CASE t \notin S
    <3>1. \A c \in Consumer : Owns(c, t)' <=> Owns(c, t)
      BY <1>4, <2>2
    <3>2. LedgerOwner'[t] = LedgerOwner[t]
      BY <3>1, OwnerSame DEF IInv
    <3> QED BY <1>4, <2>2, <3>2, LedgerFunctions
  <2> QED BY <2>1, <2>2
<1>6. LedgerOwner' = Ledger!Set(LedgerOwner, S, NoConsumer)
  BY <1>5, LedgerFunctions DEF Ledger!Set
<1>7. LedgerLate' = Ledger!Set(LedgerLate, S, {})
  BY <1>5, LedgerFunctions DEF Ledger!Set
<1>8. LedgerState' = Ledger!Set(LedgerState, S, "none")
  BY StateStep DEF Shows, Absent
<1> QED BY <1>6, <1>7, <1>8 DEF Ledger!Next, Ledger!Forget

\* The owners of rows that turn stale have had their time.
LEMMA ExpireStep ==
    ASSUME IInv, IInv', TimePasses
    PROVE  Ledger!Next
<1> DEFINE turning == {t \in Task : row[t].age + 1 >= StaleAge}
<1>0. /\ TypeOK /\ \A t \in Task : row[t] \in Row
      /\ \A c \in Consumer : Holding(c) \subseteq Claims
  BY HoldingType DEF IInv, TypeOK, QueueTypeOK
<1>1. PICK g \in [Claims -> Claims] :
              g = [k \in Claims |-> Late(turning, k)] /\ RevisedBy(g)
  BY <1>0, TimeIs
<1> DEFINE S == {t \in turning : Owned(t)}
<1>s. S \in SUBSET Task /\ \A t \in Task : t \in S <=> t \in turning /\ Owned(t)
  OBVIOUS
<1> HIDE DEF turning, S
<1>2. ASSUME NEW k \in Claims
      PROVE  /\ g[k].task = k.task /\ g[k].live = k.live
             /\ g[k].late <=> k.late \/ k.task \in turning
  <2>1. g[k] = Late(turning, k)
    BY <1>1
  <2> QED BY <2>1, RevisedClaim
<1>3. \A c \in Consumer : Holding(c)' = {g[k] : k \in Holding(c)}
  BY <1>0, <1>1, RevisedHolding
<1>4. ASSUME NEW t \in Task, NEW c \in Consumer
      PROVE  /\ Owns(c, t)' <=> Owns(c, t) /\ t \notin turning
             /\ IsLate(c, t)' <=> IsLate(c, t) \/ (Owns(c, t) /\ t \in turning)
  BY <1>0, <1>2, <1>3 DEF Owns, IsLate, Good
<1>5. ASSUME NEW t \in Task
      PROVE  /\ LedgerOwner'[t] = IF t \in S THEN NoConsumer ELSE LedgerOwner[t]
             /\ LedgerLate'[t] = IF t \in S THEN LedgerLate[t] \cup {LedgerOwner[t]}
                                            ELSE LedgerLate[t]
  <2>1. CASE t \in S
    <3>1. ~Owned(t)' /\ t \in turning /\ Owned(t)
      BY <1>s, <1>4, <2>1 DEF Owned
    <3>2. LedgerOwner'[t] = NoConsumer
      BY <3>1, OwnerIsNext DEF IInv
    <3>3. /\ LedgerOwner[t] \in Consumer
          /\ \A c \in Consumer : Owns(c, t) <=> c = LedgerOwner[t]
      BY <3>1, OwnerIs DEF IInv
    <3>4. LedgerLate'[t] = LedgerLate[t] \cup {LedgerOwner[t]}
      BY <1>4, <3>1, <3>3, LedgerFunctions
    <3> QED BY <2>1, <3>2, <3>4
  <2>2. CASE t \notin S
    <3>1. ASSUME NEW c \in Consumer
          PROVE  /\ Owns(c, t)' <=> Owns(c, t)
                 /\ IsLate(c, t)' <=> IsLate(c, t)
      BY <1>s, <1>4, <2>2 DEF Owned
    <3>2. LedgerOwner'[t] = LedgerOwner[t]
      BY <3>1, OwnerSame DEF IInv
    <3> QED BY <2>2, <3>1, <3>2, LedgerFunctions
  <2> QED BY <2>1, <2>2
<1>6. LedgerOwner' = Ledger!Set(LedgerOwner, S, NoConsumer)
  BY <1>5, LedgerFunctions DEF Ledger!Set
<1>7. LedgerLate' = [t \in Task |-> IF t \in S THEN LedgerLate[t] \cup {LedgerOwner[t]}
                                               ELSE LedgerLate[t]]
  BY <1>5, LedgerFunctions
<1>8. LedgerState' = LedgerState
  <2>1. \A r \in Row : Older(r).status = r.status
    BY DEF Older, Row
  <2>2. \A t \in Task : row'[t].status = row[t].status
    BY <1>0, <2>1 DEF TimePasses, Tick, Rewrite
  <2> QED BY <2>2 DEF LedgerState
<1>9. \A t \in S : LedgerOwner[t] # NoConsumer
  BY <1>s, OwnerIs DEF IInv
<1>10. Ledger!Expire(S)
  BY <1>6, <1>7, <1>8, <1>9 DEF Ledger!Expire
<1> QED BY <1>s, <1>10 DEF Ledger!Next

\* Pending rows are taken: by c, or by nobody when the answer of the claim is
\* lost.
LEMMA TakeStep ==
    ASSUME IInv, IInv', NEW c \in Consumer, NEW S \in SUBSET InStatus("pending"),
           batch[c] = {}, current[c] = NoClaim,
           Claim(S), UNCHANGED current,
           \/ batch' = [batch EXCEPT ![c] = ClaimsOn(S)]
           \/ UNCHANGED batch
    PROVE  Ledger!Next
<1>0. /\ TypeOK /\ S \subseteq Task
      /\ \A t \in S : row[t].status = "pending"
  BY DEF IInv, InStatus
<1>1. \A t \in S, d \in Consumer : ~Owns(d, t)
  BY <1>0, OwnedRuns DEF Owned
<1>2. \A t \in Task : row'[t] = IF t \in S THEN Claimed(row[t]) ELSE row[t]
  BY DEF Claim, Rewrite
<1>3. \A t \in S : Claimed(row[t]).status = "running"
  BY <1>0 DEF Claimed, TypeOK, QueueTypeOK, Row
<1>4. LedgerState' = Ledger!Set(LedgerState, S, "running")
  BY <1>2, <1>3, StateStep DEF Shows
<1>5. \A t \in S : LedgerState[t] = "queued"
  BY <1>0 DEF LedgerState
<1>6. \A t \in S : LedgerOwner[t] = NoConsumer
  BY <1>0, <1>1, OwnerIs DEF IInv, Owned
<1>7. CASE batch' = [batch EXCEPT ![c] = ClaimsOn(S)]
  <2>1. ASSUME NEW t \in Task, NEW d \in Consumer
        PROVE  /\ Owns(d, t)' <=> IF t \in S THEN d = c ELSE Owns(d, t)
               /\ IsLate(d, t)' <=> IsLate(d, t)
    <3>1. CASE d # c
      <4>1. Holding(d)' = Holding(d)
        BY <1>0, <1>7, <3>1 DEF Holding, TypeOK
      <4> QED BY <1>1, <3>1, <4>1 DEF Owns, IsLate, Good
    <3>2. CASE d = c
      <4>1. Holding(c)' = ClaimsOn(S) /\ Holding(c) = {}
        BY <1>0, <1>7 DEF Holding, TypeOK
      <4>2. \A k \in ClaimsOn(S) : k.task \in S /\ k.live /\ ~k.late
        BY DEF ClaimsOn
      <4>3. (\E k \in ClaimsOn(S) : k.task = t) <=> t \in S
        <5>1. ASSUME t \in S
              PROVE  \E k \in ClaimsOn(S) : k.task = t
          <6>1. [task |-> t, retry |-> row[t].retry, live |-> TRUE, late |-> FALSE]
                   \in ClaimsOn(S)
            BY <5>1 DEF ClaimsOn
          <6> QED BY <6>1
        <5> QED BY <4>2, <5>1
      <4>4. Owns(c, t)' <=> t \in S
        BY <4>1, <4>2, <4>3 DEF Owns, Good
      <4>5. ~IsLate(c, t)' /\ ~IsLate(c, t) /\ ~Owns(c, t)
        BY <4>1, <4>2 DEF IsLate, Owns
      <4> QED BY <3>2, <4>4, <4>5
    <3> QED BY <3>1, <3>2
  <2>2. ASSUME NEW t \in Task
        PROVE  LedgerOwner'[t] = IF t \in S THEN c ELSE LedgerOwner[t]
    <3>1. CASE t \in S
      BY <2>1, <3>1, OwnerIsNext DEF IInv
    <3>2. CASE t \notin S
      <4>1. \A d \in Consumer : Owns(d, t)' <=> Owns(d, t)
        BY <2>1, <3>2
      <4>2. LedgerOwner'[t] = LedgerOwner[t]
        BY <4>1, OwnerSame DEF IInv
      <4> QED BY <3>2, <4>2
    <3> QED BY <3>1, <3>2
  <2>3. LedgerOwner' = Ledger!Set(LedgerOwner, S, c)
    BY <2>2, LedgerFunctions DEF Ledger!Set
  <2>4. LedgerLate' = LedgerLate
    <3>1. \A t \in Task : LedgerLate'[t] = LedgerLate[t]
      BY <2>1, LedgerFunctions
    <3>2. LedgerLate' = [t \in Task |-> LedgerLate[t]]
      BY <3>1, LedgerFunctions
    <3> QED BY <3>2, LedgerFunctions
  <2>5. Ledger!Take(c, S)
    BY <1>4, <1>5, <2>3, <2>4 DEF Ledger!Take
  <2> QED BY <1>0, <2>5 DEF Ledger!Next
<1>8. CASE UNCHANGED batch
  <2>1. \A d \in Consumer : Holding(d)' = Holding(d)
    BY <1>8 DEF Holding
  <2>2. LedgerOwner' = LedgerOwner /\ LedgerLate' = LedgerLate
    BY <2>1, SameHolding, OwnerStays DEF IInv
  <2>3. LedgerOwner' = Ledger!Set(LedgerOwner, S, NoConsumer)
    BY <1>6, <2>2, LedgerFunctions DEF Ledger!Set
  <2>4. Ledger!Take(NoConsumer, S)
    BY <1>4, <1>5, <2>2, <2>3 DEF Ledger!Take
  <2> QED BY <1>0, <2>4 DEF Ledger!Next
<1> QED BY <1>7, <1>8

\* c has ended the task j and gives up the tasks of L: its other claims and
\* those of the others stay, whoever else had j in time is late with it.
LEMMA EndsAsFinish ==
    ASSUME IInv, IInv', NEW c \in Consumer, NEW j \in Task,
           NEW L \in SUBSET Task, NEW s \in {"queued", "closed"}, j \in L,
           Owns(c, j) \/ IsLate(c, j),
           LedgerState' = [LedgerState EXCEPT ![j] = s],
           \A t \in Task, d \in Consumer :
              /\ Owns(d, t)' <=> t # j /\ ~(d = c /\ t \in L) /\ Owns(d, t)
              /\ IsLate(d, t)' <=> /\ ~(d = c /\ t \in L)
                                   /\ IsLate(d, t) \/ (t = j /\ Owns(d, t))
    PROVE  Ledger!Next
<1>1. ASSUME NEW t \in Task
      PROVE  LedgerOwner'[t] = IF t = j \/ (t \in L /\ LedgerOwner[t] = c)
                                 THEN NoConsumer ELSE LedgerOwner[t]
  <2>1. CASE t = j
    <3>1. ~Owned(t)'
      BY <2>1 DEF Owned
    <3> QED BY <2>1, <3>1, OwnerIsNext DEF IInv
  <2>2. CASE t # j /\ t \in L
    <3>1. \A d \in Consumer : Owns(d, t)' <=> Owns(d, t) /\ d \notin {c}
      BY <2>2
    <3>2. LedgerOwner'[t] = IF LedgerOwner[t] \in {c} THEN NoConsumer
                                                     ELSE LedgerOwner[t]
      BY <3>1, OwnerLoses DEF IInv
    <3> QED BY <2>2, <3>2
  <2>3. CASE t # j /\ t \notin L
    <3>1. \A d \in Consumer : Owns(d, t)' <=> Owns(d, t)
      BY <2>3
    <3>2. LedgerOwner'[t] = LedgerOwner[t]
      BY <3>1, OwnerSame DEF IInv
    <3> QED BY <2>3, <3>2
  <2> QED BY <2>1, <2>2, <2>3
<1>2. ASSUME NEW t \in Task
      PROVE  LedgerLate'[t] =
                (IF t = j THEN LedgerLate[t] \cup ({LedgerOwner[t]} \ {NoConsumer})
                          ELSE LedgerLate[t])
                  \ (IF t \in L THEN {c} ELSE {})
  <2>1. /\ LedgerOwner[t] \in Consumer \cup {NoConsumer}
        /\ \A d \in Consumer : LedgerOwner[t] = d <=> Owns(d, t)
    BY OwnerIs DEF IInv
  <2>2. {LedgerOwner[t]} \ {NoConsumer} = {d \in Consumer : Owns(d, t)}
    BY <2>1, NoConsumerAssumption
  <2>3. /\ LedgerLate[t] = {d \in Consumer : IsLate(d, t)}
        /\ LedgerLate'[t] = {d \in Consumer : IsLate(d, t)'}
    BY LedgerFunctions
  <2>4. CASE t = j
    BY <2>2, <2>3, <2>4
  <2>5. CASE t # j
    BY <2>3, <2>5
  <2> QED BY <2>4, <2>5
<1>3. LedgerOwner' = [t \in Task |-> IF t = j \/ (t \in L /\ LedgerOwner[t] = c)
                                       THEN NoConsumer ELSE LedgerOwner[t]]
  BY <1>1, LedgerFunctions
<1>4. LedgerLate' = [t \in Task |->
                (IF t = j THEN LedgerLate[t] \cup ({LedgerOwner[t]} \ {NoConsumer})
                          ELSE LedgerLate[t])
                  \ (IF t \in L THEN {c} ELSE {})]
  BY <1>2, LedgerFunctions
<1>5. LedgerOwner[j] = c \/ c \in LedgerLate[j]
  BY OwnerIs, LedgerFunctions DEF IInv
<1>6. Ledger!Finish(c, j, s, L)
  BY <1>3, <1>4, <1>5 DEF Ledger!Finish
<1> QED BY <1>6 DEF Ledger!Next

\* Whatever runTask writes, the row does not say running any more.
LEMMA OutcomeStatus ==
    ASSUME NEW r \in Row, NEW k \in Claims, NEW result \in Results
    PROVE  Outcome(k, r, result).status \in {"pending", "done", "failed"}
<1>1. Done(r).status = "done" /\ FailedFatal(r).status = "failed"
  BY DEF Done, FailedFatal, Row
<1>2. ASSUME NEW n
      PROVE  FailedRetry(r, n).status = "pending"
  BY DEF FailedRetry, Row
<1>3. CASE result \in {"ok", "fatal"}
  BY <1>1, <1>3 DEF Outcome
<1>4. CASE result = "transient"
  BY <1>1, <1>2, <1>4 DEF Outcome, Failed
<1> QED BY <1>3, <1>4 DEF Results

\* A state write that finds its row ends the job of c, which gives up that task
\* or, after an error, all it has.
LEMMA WrittenStep ==
    ASSUME IInv, IInv', NEW c \in Consumer, NEW result \in Results,
           pc[c] = "exec", current[c].live, WriteOutcome(current[c], result),
           NEW B \in {batch[c], {}}, EndTask(c, B, {current[c].task})
    PROVE  Ledger!Next
<1>k. PICK k \in Claims : k = current[c]
  BY DEF IInv, TypeOK, ControlOK
<1>0. /\ TypeOK /\ \A t \in Task : row[t] \in Row
      /\ \A d \in Consumer : Holding(d) \subseteq Claims
      /\ k \in Holding(c) /\ k.task \in Task /\ k.live
      /\ Holding(c) = batch[c] \cup {k} /\ k \notin batch[c]
  BY <1>k, HoldingType, NoClaimAssumption
  DEF IInv, TypeOK, QueueTypeOK, Holding, OneEach, Claims
<1>j. PICK j \in Task : j = k.task
  BY <1>0
<1>1. Owns(c, j) \/ IsLate(c, j)
  BY <1>0, <1>j DEF Owns, IsLate, Good
<1>2. \A l \in batch[c] : l \in Claims /\ l.task # j
  BY <1>0, <1>j DEF IInv, OneEach
<1> DEFINE g == [l \in Claims |-> Late({j}, l)]
<1>g. \A l \in Claims : g[l] = Late({j}, l)
  OBVIOUS
<1> HIDE DEF g
<1>3. ASSUME NEW l \in Claims
      PROVE  /\ g[l].task = l.task /\ g[l].live = l.live
             /\ g[l].late <=> l.late \/ l.task = j
  BY <1>g, RevisedClaim
<1>4. /\ \A d \in Consumer : d # c => Holding(d)' = {g[l] : l \in Holding(d)}
      /\ Holding(c)' = {g[l] : l \in B}
  <2>1. ASSUME NEW d \in Consumer
        PROVE  /\ d # c => batch'[d] = {Late({j}, l) : l \in batch[d]}
               /\ d = c => batch'[d] = {Late({j}, l) : l \in B}
               /\ current'[d] = IF d = c \/ current[d] = NoClaim
                                  THEN NoClaim ELSE Late({j}, current[d])
    BY <1>k, <1>j DEF EndTask
  <2>2. ASSUME NEW d \in Consumer, current[d] # NoClaim
        PROVE  current[d] \in Claims /\ Late({j}, current[d]) # NoClaim
    BY <1>0, <2>2, RevisedClaim, NoClaimAssumption DEF TypeOK
  <2>5. \A d \in Consumer : batch[d] \subseteq Claims
    BY <1>0 DEF TypeOK
  <2>3. ASSUME NEW d \in Consumer, d # c
        PROVE  Holding(d)' = {g[l] : l \in Holding(d)}
    <3>1. batch'[d] = {g[l] : l \in batch[d]}
      BY <1>g, <2>1, <2>3, <2>5
    <3>2. current'[d] = IF current[d] = NoClaim THEN NoClaim ELSE g[current[d]]
      BY <1>g, <2>1, <2>2, <2>3
    <3>3. current[d] # NoClaim => g[current[d]] # NoClaim
      BY <1>g, <2>2
    <3> QED BY <3>1, <3>2, <3>3 DEF Holding
  <2>4. Holding(c)' = {g[l] : l \in B}
    <3>1. B \subseteq Claims
      BY <2>5
    <3>2. batch'[c] = {Late({j}, l) : l \in B} /\ current'[c] = NoClaim
      BY <2>1
    <3>3. {Late({j}, l) : l \in B} = {g[l] : l \in B}
      BY <1>g, <3>1
    <3> QED BY <3>2, <3>3 DEF Holding
  <2> QED BY <2>3, <2>4
<1>5. ASSUME NEW t \in Task, NEW d \in Consumer, d # c
      PROVE  /\ Owns(d, t)' <=> t # j /\ Owns(d, t)
             /\ IsLate(d, t)' <=> IsLate(d, t) \/ (t = j /\ Owns(d, t))
  <2>1. /\ Holding(d)' = {g[l] : l \in Holding(d)}
        /\ Holding(d) \subseteq Claims
    BY <1>0, <1>4, <1>5
  <2> QED BY <1>3, <2>1 DEF Owns, IsLate, Good
<1>6. ASSUME NEW t \in Task
      PROVE  /\ Owns(c, t)' <=> \E l \in B : l.task = t /\ Good(l)
             /\ IsLate(c, t)' <=> \E l \in B : l.task = t /\ l.live /\ l.late
  <2>1. \A l \in B : l \in Claims /\ l.task # j
    BY <1>2
  <2> QED BY <1>3, <1>4, <2>1 DEF Owns, IsLate, Good
<1>7. ASSUME NEW t \in Task
      PROVE  /\ t # j => (Owns(c, t) <=> \E l \in batch[c] : l.task = t /\ Good(l))
             /\ t # j => (IsLate(c, t) <=> \E l \in batch[c] : l.task = t /\ l.live /\ l.late)
  BY <1>0, <1>j DEF Owns, IsLate
<1>8. PICK s \in {"queued", "closed"} :
              LedgerState' = [LedgerState EXCEPT ![j] = s]
  <2> DEFINE o == Outcome(k, row[j], result)
  <2>1. o.status \in {"pending", "done", "failed"}
    BY <1>0, OutcomeStatus
  <2>2. \A t \in Task : row'[t] = IF t = j THEN o ELSE row[t]
    BY <1>k, <1>0, <1>j DEF WriteOutcome
  <2> HIDE DEF o
  <2>3. PICK s \in {"queued", "closed"} : Shows(o.status) = s
    BY <2>1 DEF Shows
  <2>4. LedgerState' = Ledger!Set(LedgerState, {j}, s)
    BY <2>2, <2>3, StateStep
  <2>5. LedgerState' = [LedgerState EXCEPT ![j] = s]
    BY <2>4, LedgerFunctions DEF Ledger!Set
  <2> QED BY <2>5
<1>9. CASE B = batch[c]
  <2>2. PICK L \in SUBSET Task : L = {j}
    OBVIOUS
  <2>1. \A t \in Task, d \in Consumer :
              /\ Owns(d, t)' <=> t # j /\ ~(d = c /\ t \in L) /\ Owns(d, t)
              /\ IsLate(d, t)' <=> /\ ~(d = c /\ t \in L)
                                   /\ IsLate(d, t) \/ (t = j /\ Owns(d, t))
    <3>1. ASSUME NEW t \in Task
          PROVE  /\ Owns(c, t)' <=> t # j /\ Owns(c, t)
                 /\ IsLate(c, t)' <=> t # j /\ IsLate(c, t)
      BY <1>2, <1>6, <1>7, <1>9
    <3> QED BY <1>5, <2>2, <3>1
  <2>3. j \in L
    BY <2>2
  <2> QED BY <1>1, <1>8, <2>1, <2>3, EndsAsFinish
<1>10. CASE B = {}
  <2>1. \A t \in Task, d \in Consumer :
              /\ Owns(d, t)' <=> t # j /\ ~(d = c /\ t \in Task) /\ Owns(d, t)
              /\ IsLate(d, t)' <=> /\ ~(d = c /\ t \in Task)
                                   /\ IsLate(d, t) \/ (t = j /\ Owns(d, t))
    <3>1. ASSUME NEW t \in Task
          PROVE  ~Owns(c, t)' /\ ~IsLate(c, t)'
      BY <1>6, <1>10
    <3> QED BY <1>5, <3>1
  <2>2. Task \in SUBSET Task
    OBVIOUS
  <2> QED BY <1>1, <1>8, <2>1, <2>2, EndsAsFinish
<1> QED BY <1>9, <1>10

\* An execution that ends without a write drops its dead claim, or all it has.
LEMMA UnwrittenStep ==
    ASSUME IInv, IInv', NEW c \in Consumer, row' = row,
           pc[c] = "exec", EndTask(c, {}, {})
    PROVE  Ledger!Next
<1>1. ASSUME NEW d \in Consumer
      PROVE  Holding(d)' = IF d \in {c} THEN {} ELSE Holding(d)
  <2>1. \A k \in Claims : Late({}, k) = k
    BY RevisedClaim
  <2>2. /\ batch[d] \subseteq Claims
        /\ current[d] \in Claims \cup {NoClaim}
    BY DEF IInv, TypeOK
  <2>3. /\ batch'[d] = {Late({}, k) : k \in IF d = c THEN {} ELSE batch[d]}
        /\ current'[d] = IF d = c \/ current[d] = NoClaim
                           THEN NoClaim ELSE Late({}, current[d])
    BY DEF EndTask
  <2>4. CASE d = c
    BY <2>3, <2>4 DEF Holding
  <2>5. CASE d # c
    <3>1. batch'[d] = batch[d] /\ current'[d] = current[d]
      BY <2>1, <2>2, <2>3, <2>5
    <3> QED BY <2>5, <3>1 DEF Holding
  <2> QED BY <2>4, <2>5
<1>2. \A t \in Task : row'[t].status = row[t].status
  OBVIOUS
<1>3. {c} \in SUBSET Consumer
  OBVIOUS
<1> QED BY <1>1, <1>2, <1>3, LoseStep

\* A dead claim that is dropped was nobody's.
LEMMA DeadStep ==
    ASSUME IInv, IInv', NEW c \in Consumer, row' = row,
           pc[c] = "exec", ~current[c].live, EndTask(c, batch[c], {})
    PROVE  Ledger!Next
<1>1. ASSUME NEW d \in Consumer
      PROVE  Holding(d)' = IF d = c THEN batch[c] ELSE Holding(d)
  <2>1. \A k \in Claims : Late({}, k) = k
    BY RevisedClaim
  <2>2. /\ batch[d] \subseteq Claims
        /\ current[d] \in Claims \cup {NoClaim}
    BY DEF IInv, TypeOK
  <2>3. /\ batch'[d] = {Late({}, k) : k \in batch[d]}
        /\ current'[d] = IF d = c \/ current[d] = NoClaim
                           THEN NoClaim ELSE Late({}, current[d])
    BY DEF EndTask
  <2>4. batch'[d] = batch[d]
    BY <2>1, <2>2, <2>3
  <2>5. CASE d = c
    BY <2>3, <2>4, <2>5 DEF Holding
  <2>6. CASE d # c
    BY <2>1, <2>2, <2>3, <2>4, <2>6 DEF Holding
  <2> QED BY <2>5, <2>6
<1>2. current[c] # NoClaim /\ Holding(c) = batch[c] \cup {current[c]}
  BY DEF IInv, ControlOK, Holding
<1>3. KeepsAll
  BY <1>1, <1>2 DEF KeepsAll, Owns, IsLate, Good
<1>4. LedgerOwner' = LedgerOwner /\ LedgerLate' = LedgerLate
  BY <1>3, OwnerStays DEF IInv
<1>5. LedgerState' = LedgerState
  BY DEF LedgerState
<1>6. Ledger!Submit({})
  BY <1>4, <1>5, LedgerFunctions DEF Ledger!Submit, Ledger!Set
<1> QED BY <1>6 DEF Ledger!Next

\* Every step of the worker is a step of the ledger, or none.
LEMMA LedgerStep ==
    ASSUME IInv, IInv', [Next]_vars
    PROVE  [Ledger!Next]_(Ledger!ledger)
<1>0. /\ TypeOK /\ \A t \in Task : row[t] \in Row
  BY DEF IInv, TypeOK, QueueTypeOK
<1>1. ASSUME NEW S \in SUBSET Task, NEW p \in Priorities, Enqueue(S, p)
      PROVE  Ledger!Next
  <2> DEFINE T == {t \in S : row[t].status \in {"absent", "done", "failed"}}
  <2>1. /\ \A t \in Task : row'[t] = IF t \in S THEN Upserted(row[t], p) ELSE row[t]
        /\ UNCHANGED <<batch, current>>
    BY <1>1 DEF Enqueue, EnqueueBatch, Rewrite, workerVars
  <2>2. \A t \in Task : row[t].status \in Status
    BY <1>0 DEF Row
  <2>3. \A t \in T : row'[t].status = "pending"
    BY <1>0, <2>1, UpsertedRow
  <2>4. \A t \in Task \ T : row'[t].status = row[t].status
    BY <1>0, <2>1, <2>2, UpsertedRow DEF Status
  <2>5. T \in SUBSET Task /\ \A t \in T : row[t].status \in {"absent", "done", "failed"}
    OBVIOUS
  <2> HIDE DEF T
  <2> QED BY <2>1, <2>3, <2>4, <2>5, SubmitStep
<1>2. ASSUME NEW S \in SUBSET InStatus("failed"), Rewrite(S, Retried),
             UNCHANGED <<batch, current>>
      PROVE  Ledger!Next
  <2>1. \A t \in Task : row'[t] = IF t \in S THEN Retried(row[t]) ELSE row[t]
    BY <1>2 DEF Rewrite
  <2>2. S \in SUBSET Task /\ \A t \in S : row[t].status = "failed"
    BY DEF InStatus
  <2>3. \A t \in S : Retried(row[t]).status = "pending"
    BY <1>0, <2>2 DEF Retried, Row
  <2> QED BY <1>2, <2>1, <2>2, <2>3, SubmitStep
<1>3. CASE Requests
  <2>1. ASSUME NEW t \in Task, AdminRetry(t)
        PROVE  Ledger!Next
    <3>1. {t} \in SUBSET InStatus("failed")
      BY <2>1 DEF AdminRetry, RetryTask, InStatus
    <3> QED BY <1>2, <2>1, <3>1 DEF AdminRetry, RetryTask, workerVars
  <2>2. ASSUME AdminRetryAll
        PROVE  Ledger!Next
    BY <1>2, <2>2 DEF AdminRetryAll, RetryAllFailed, workerVars
  <2>3. ASSUME NEW i \in Item, ItemDeleted(i)
        PROVE  Ledger!Next
    <3>1. {t \in Task : ItemOf[t] = i} \in SUBSET Task
      OBVIOUS
    <3> QED BY <2>3, <3>1, ForgetStep DEF ItemDeleted, DeleteItem, Rewrite
  <2> QED BY <1>1, <1>3, <2>1, <2>2, <2>3 DEF Requests
<1>4. ASSUME NEW S \in SUBSET InStatus("running"), Rewrite(S, Reset),
             UNCHANGED <<batch, current>>, \A t \in S : ~Owned(t)
      PROVE  Ledger!Next
  <2>1. \A t \in Task : row'[t] = IF t \in S THEN Reset(row[t]) ELSE row[t]
    BY <1>4 DEF Rewrite
  <2>2. S \in SUBSET Task /\ \A t \in S : row[t].status = "running"
    BY DEF InStatus
  <2>3. \A t \in S : Reset(row[t]).status = "pending"
    BY <1>0, <2>2 DEF Reset, Row
  <2> QED BY <1>4, <2>1, <2>2, <2>3, RecoverStep
<1>5. ASSUME UNCHANGED queueVars,
             \A c \in Consumer : Holding(c)' = Holding(c)
      PROVE  Ledger!Next
  <2>1. PICK W \in SUBSET Consumer : W = {}
    OBVIOUS
  <2>2. /\ \A c \in Consumer : Holding(c)' = IF c \in W THEN {} ELSE Holding(c)
        /\ \A t \in Task : row'[t].status = row[t].status
    BY <1>5, <2>1 DEF queueVars
  <2> QED BY <2>2, LoseStep
<1>6. CASE System
  <2>1. ASSUME NEW c \in Consumer, Quit(c)
        PROVE  Ledger!Next
    <3>1. current[c] = NoClaim
      BY <2>1 DEF Quit, IInv, ControlOK
    <3>2. \A d \in Consumer : Holding(d)' = IF d \in {c} THEN {} ELSE Holding(d)
      BY <1>0, <2>1, <3>1 DEF Quit, Holding, TypeOK
    <3>3. {c} \in SUBSET Consumer /\ \A t \in Task : row'[t].status = row[t].status
      BY <2>1 DEF Quit, queueVars
    <3> QED BY <3>2, <3>3, LoseStep
  <2>2. ASSUME NEW c \in Consumer, Wake(c)
        PROVE  Ledger!Next
    BY <1>5, <2>2 DEF Wake, Holding
  <2>3. ASSUME NEW c \in Consumer, StartTask(c)
        PROVE  Ledger!Next
    <3>1. PICK k \in batch[c] :
             /\ batch' = [batch EXCEPT ![c] = @ \ {k}]
             /\ current' = [current EXCEPT ![c] = k]
      BY <2>3 DEF StartTask
    <3>2. current[c] = NoClaim /\ k # NoClaim
      BY <1>0, <2>3, NoClaimAssumption DEF StartTask, IInv, ControlOK, TypeOK
    <3>3. \A d \in Consumer : Holding(d)' = Holding(d)
      BY <1>0, <3>1, <3>2 DEF Holding, TypeOK
    <3> QED BY <1>5, <2>3, <3>3 DEF StartTask
  <2>4. ASSUME NEW c \in Consumer, NEW allow \in BOOLEAN, ClaimTasks(c, allow)
        PROVE  Ledger!Next
    <3>1. PICK S \in SUBSET Claimable(allow) :
             Claim(S) /\ batch' = [batch EXCEPT ![c] = ClaimsOn(S)]
      BY <2>4 DEF ClaimTasks
    <3>2. S \in SUBSET InStatus("pending")
      BY DEF Claimable
    <3>3. batch[c] = {} /\ current[c] = NoClaim /\ UNCHANGED current
      BY <2>4 DEF ClaimTasks, IInv, ControlOK
    <3> QED BY <3>1, <3>2, <3>3, TakeStep
  <2>5. ASSUME NEW c \in Consumer, NEW result \in Results, FinishTask(c, result)
        PROVE  Ledger!Next
    <3>1. CASE current[c].live
      BY <2>5, <3>1, WrittenStep DEF FinishTask, Written
    <3>2. CASE ~current[c].live
      <4>1. row' = row
        BY <1>0, <2>5, <3>2 DEF FinishTask, WriteOutcome, TypeOK, QueueTypeOK
      <4> QED BY <2>5, <3>2, <4>1, DeadStep DEF FinishTask, Written
    <3> QED BY <3>1, <3>2
  <2>6. ASSUME StaleTicker
        PROVE  Ledger!Next
    <3>1. Stale \in SUBSET InStatus("running")
      BY DEF Stale
    <3>2. \A t \in Stale : ~Owned(t)
      BY StaleNotOwned DEF Owned, Owns
    <3> QED BY <1>4, <2>6, <3>1, <3>2 DEF StaleTicker, ReconcileStaleRunning, workerVars
  <2>7. ASSUME PruneTicker
        PROVE  Ledger!Next
    <3>1. Prunable \in SUBSET Task
      BY DEF Prunable, InStatus
    <3> QED BY <2>7, <3>1, ForgetStep DEF PruneTicker, PruneDone, Rewrite
  <2> QED
    BY <1>6, <2>1, <2>2, <2>3, <2>4, <2>5, <2>6, <2>7 DEF System, Consume
<1>7. CASE Faults
  <2>1. ASSUME NEW c \in Consumer, NEW allow \in BOOLEAN, ClaimError(c, allow)
        PROVE  Ledger!Next
    <3>1. /\ batch[c] = {} /\ current[c] = NoClaim
          /\ UNCHANGED <<batch, current>>
      BY <2>1 DEF ClaimError, IInv, ControlOK
    <3>2. CASE \E S \in SUBSET Claimable(allow) : Claim(S)
      <4>1. PICK S \in SUBSET Claimable(allow) : Claim(S)
        BY <3>2
      <4>2. S \in SUBSET InStatus("pending")
        BY DEF Claimable
      <4> QED BY <3>1, <4>1, <4>2, TakeStep
    <3>3. CASE UNCHANGED queueVars
      BY <1>5, <3>1, <3>3 DEF Holding
    <3> QED BY <2>1, <3>2, <3>3 DEF ClaimError
  <2>2. ASSUME NEW c \in Consumer, NEW result \in Results, FinishError(c, result)
        PROVE  Ledger!Next
    <3>0. pc[c] = "exec"
      BY <2>2 DEF FinishError
    <3>1. CASE WriteOutcome(current[c], result) /\ EndTask(c, {}, Written(current[c]))
      <4>1. CASE current[c].live
        BY <3>0, <3>1, <4>1, WrittenStep DEF Written
      <4>2. CASE ~current[c].live
        <5>1. row' = row
          BY <1>0, <3>1, <4>2 DEF WriteOutcome, TypeOK, QueueTypeOK
        <5> QED BY <3>0, <3>1, <4>2, <5>1, UnwrittenStep DEF Written
      <4> QED BY <4>1, <4>2
    <3>2. CASE UNCHANGED queueVars /\ EndTask(c, {}, {})
      BY <3>0, <3>2, UnwrittenStep DEF queueVars
    <3> QED BY <2>2, <3>1, <3>2 DEF FinishError
  <2>3. ASSUME Crash
        PROVE  Ledger!Next
    <3>1. /\ \A d \in Consumer : Holding(d)' = IF d \in Consumer THEN {} ELSE Holding(d)
          /\ Consumer \in SUBSET Consumer
          /\ \A t \in Task : row'[t].status = row[t].status
      BY <2>3 DEF Crash, Holding, queueVars
    <3> QED BY <3>1, LoseStep
  <2> QED BY <1>7, <2>1, <2>2, <2>3 DEF Faults
<1>8. CASE Control
  <2>1. ASSUME NEW n \in 1..WorkerMax, SetWorkerCount(n)
        PROVE  Ledger!Next
    BY <1>5, <2>1 DEF SetWorkerCount, Holding
  <2>2. ASSUME NEW n \in 1..WorkerMax, Run(n)
        PROVE  Ledger!Next
    <3>1. \A t \in Task : ~Owned(t)
      BY <2>2 DEF Run, IInv, ControlOK, Owned, Owns, Holding
    <3>2. CASE ReconcileOnStartup
      <4>1. \A t \in InStatus("running") : ~Owned(t)
        BY <3>1 DEF InStatus
      <4> QED BY <1>4, <2>2, <3>2, <4>1 DEF Run, ReconcileOnStartup
    <3>3. CASE UNCHANGED queueVars
      BY <1>5, <2>2, <3>3 DEF Run, Holding
    <3> QED BY <2>2, <3>2, <3>3 DEF Run
  <2> QED BY <1>8, <2>1, <2>2 DEF Control
<1>9. CASE TimePasses
  BY <1>9, ExpireStep
<1>10. CASE UNCHANGED vars
  BY <1>5, <1>10 DEF vars, queueVars, Holding
<1> QED BY <1>3, <1>6, <1>7, <1>8, <1>9, <1>10 DEF Next

\* The ledger starts empty.
LEMMA LedgerInit == Init => Ledger!Init
<1> SUFFICES ASSUME Init PROVE Ledger!Init
  OBVIOUS
<1>1. \A t \in Task : ~Owned(t) /\ \A c \in Consumer : ~IsLate(c, t)
  BY DEF Init, Owned, Owns, IsLate, Holding
<1>2. LedgerOwner = [t \in Task |-> NoConsumer]
  BY <1>1 DEF LedgerOwner
<1>3. LedgerLate = [t \in Task |-> {}]
  BY <1>1 DEF LedgerLate
<1>4. LedgerState = [t \in Task |-> "none"]
  BY DEF Init, QueueInit, Absent, LedgerState
<1> QED BY <1>2, <1>3, <1>4 DEF Ledger!Init

\* The worker keeps what JobLedger promises: a task has one owner, is ended by
\* its owner or by one who came too late, and taken back only from nobody or
\* from an owner who has had his time, through lost answers, dropped batches,
\* deletions, resizing and restarts.
THEOREM LedgerImplemented == Spec => ImplementsLedger
BY LedgerInit, LedgerStep, InvariantHolds, PTL
DEF Spec, ImplementsLedger, Ledger!Spec

-----------------------------------------------------------------------------
(* What a step of the worker can do to a row.                              *)

Stays(t)   == row'[t].status = row[t].status
Goes(t)    == row'[t].status = "absent"
Opens(t)   == /\ row[t].status \in {"absent", "done", "failed"}
              /\ row'[t].status = "pending"
              /\ t \in asked'
Starts(t)  == row[t].status = "pending" /\ row'[t].status = "running"
Returns(t) == row[t].status = "running" /\ ~Owned(t) /\ row'[t].status = "pending"
Ends(t)    == /\ row[t].status = "running"
              /\ \/ row'[t].status \in {"done", "failed"}
                 \/ row'[t].status = "pending" /\ row'[t].retry = row[t].retry + 1

Moves(t) ==
    Stays(t) \/ Goes(t) \/ Opens(t) \/ Starts(t) \/ Returns(t) \/ Ends(t) \/ LateEnd(t)

\* What a state write does to a row whose claim is current.
LEMMA OutcomeEnds ==
    ASSUME NEW r \in Row, NEW k \in Claims, NEW result \in Results
    PROVE  \/ Outcome(k, r, result).status \in {"done", "failed"}
           \/ /\ Outcome(k, r, result).status = "pending"
              /\ Outcome(k, r, result).retry = r.retry + 1
<1>1. Done(r).status = "done" /\ FailedFatal(r).status = "failed"
  BY DEF Done, FailedFatal, Row
<1>2. ASSUME NEW n
      PROVE  FailedRetry(r, n).status = "pending" /\ FailedRetry(r, n).retry = r.retry + 1
  BY DEF FailedRetry, Row
<1>3. CASE result \in {"ok", "fatal"}
  BY <1>1, <1>3 DEF Outcome
<1>4. CASE result = "transient"
  <2>1. Outcome(k, r, result) = Failed(r, k.retry)
    BY <1>4 DEF Outcome
  <2>2. \/ Failed(r, k.retry) = FailedFatal(r)
        \/ Failed(r, k.retry) = FailedRetry(r, retryBackoff(k.retry + 1))
    BY DEF Failed
  <2> QED BY <1>1, <1>2, <2>1, <2>2
<1> QED BY <1>3, <1>4 DEF Results

\* A row opens for an accepted request, is taken when it is pending, and leaves
\* "running" by the write of its execution or when nobody owns it; the write of
\* a late execution may find it anywhere.
LEMMA RowMoves ==
    ASSUME IInv, [Next]_vars, NEW t \in Task
    PROVE  Moves(t)
<1> USE DEF Moves
<1>0. /\ TypeOK /\ \A u \in Task : row[u] \in Row
  BY DEF IInv, TypeOK, QueueTypeOK
<1>1. row' = row => Stays(t)
  BY DEF Stays
<1>3. CASE Requests
  <2>1. ASSUME NEW S \in SUBSET Task, NEW p \in Priorities, Enqueue(S, p)
        PROVE  Moves(t)
    <3>1. /\ row'[t] = IF t \in S THEN Upserted(row[t], p) ELSE row[t]
          /\ t \in S /\ row[t].status # "running" => t \in asked'
      BY <2>1 DEF Enqueue, EnqueueBatch, Rewrite
    <3>2. row[t].status \in Status
      BY <1>0 DEF Row
    <3> QED BY <1>0, <3>1, <3>2, UpsertedRow DEF Status, Stays, Opens
  <2>2. ASSUME NEW S \in SUBSET InStatus("failed"), Rewrite(S, Retried), S \subseteq asked'
        PROVE  Moves(t)
    <3>1. Retried(row[t]).status = "pending"
      BY <1>0 DEF Retried, Row
    <3>2. row'[t] = IF t \in S THEN Retried(row[t]) ELSE row[t]
      BY <2>2 DEF Rewrite
    <3> QED BY <2>2, <3>1, <3>2 DEF InStatus, Stays, Opens
  <2>3. ASSUME NEW u \in Task, AdminRetry(u)
        PROVE  Moves(t)
    <3>1. {u} \in SUBSET InStatus("failed") /\ {u} \subseteq asked'
      BY <2>3 DEF AdminRetry, RetryTask, InStatus
    <3> QED BY <2>2, <2>3, <3>1 DEF AdminRetry, RetryTask
  <2>4. ASSUME AdminRetryAll
        PROVE  Moves(t)
    BY <2>2, <2>4 DEF AdminRetryAll, RetryAllFailed
  <2>5. ASSUME NEW i \in Item, ItemDeleted(i)
        PROVE  Moves(t)
    BY <2>5 DEF ItemDeleted, DeleteItem, Rewrite, Absent, Stays, Goes
  <2> QED BY <1>3, <2>1, <2>3, <2>4, <2>5 DEF Requests
<1>4. ASSUME NEW S \in SUBSET InStatus("pending"), Claim(S)
      PROVE  Moves(t)
  <2>1. Claimed(row[t]).status = "running"
    BY <1>0 DEF Claimed, Row
  <2> QED BY <1>4, <2>1 DEF Claim, Rewrite, InStatus, Stays, Starts
<1>5. ASSUME NEW S \in SUBSET InStatus("running"), Rewrite(S, Reset),
             \A u \in S : ~Owned(u)
      PROVE  Moves(t)
  <2>1. Reset(row[t]).status = "pending"
    BY <1>0 DEF Reset, Row
  <2> QED BY <1>5, <2>1 DEF Rewrite, InStatus, Stays, Returns
<1>6. ASSUME NEW c \in Consumer, NEW result \in Results, pc[c] = "exec",
             WriteOutcome(current[c], result), current'[c] = NoClaim
      PROVE  Moves(t)
  <2>1. PICK k \in Claims : k = current[c] /\ k \in Holding(c) /\ current[c] # NoClaim
    BY <1>0, <1>6, NoClaimAssumption DEF IInv, TypeOK, ControlOK, Holding
  <2>2. row'[t] = IF k.live /\ t = k.task THEN Outcome(k, row[t], result) ELSE row[t]
    BY <1>6, <2>1 DEF WriteOutcome
  <2>3. CASE ~(k.live /\ t = k.task)
    BY <2>2, <2>3 DEF Stays
  <2>4. CASE k.live /\ t = k.task /\ k.late
    BY <1>6, <2>1, <2>4 DEF LateEnd
  <2>5. CASE k.live /\ t = k.task /\ ~k.late
    <3>1. row[t].status = "running"
      BY <2>1, <2>5 DEF IInv, ClaimsCurrent, Good
    <3> QED BY <1>0, <2>2, <2>5, <3>1, OutcomeEnds DEF Ends
  <2> QED BY <2>3, <2>4, <2>5
<1>7. CASE System
  <2>1. ASSUME NEW c \in Consumer, NEW allow \in BOOLEAN, ClaimTasks(c, allow)
        PROVE  Moves(t)
    BY <1>4, <2>1 DEF ClaimTasks, Claimable
  <2>2. ASSUME NEW c \in Consumer, NEW result \in Results, FinishTask(c, result)
        PROVE  Moves(t)
    BY <1>6, <2>2 DEF FinishTask, EndTask
  <2>3. ASSUME StaleTicker
        PROVE  Moves(t)
    <3>1. Stale \in SUBSET InStatus("running")
      BY DEF Stale
    <3>2. \A u \in Stale : ~Owned(u)
      BY StaleNotOwned DEF Owned, Owns
    <3> QED BY <1>5, <2>3, <3>1, <3>2 DEF StaleTicker, ReconcileStaleRunning
  <2>4. ASSUME PruneTicker
        PROVE  Moves(t)
    BY <2>4 DEF PruneTicker, PruneDone, Rewrite, Absent, Stays, Goes
  <2>5. ASSUME NEW c \in Consumer, Quit(c) \/ Wake(c) \/ StartTask(c)
        PROVE  Moves(t)
    BY <1>1, <2>5 DEF Quit, Wake, StartTask, queueVars
  <2> QED BY <1>7, <2>1, <2>2, <2>3, <2>4, <2>5 DEF System, Consume
<1>8. CASE Faults
  <2>1. ASSUME NEW c \in Consumer, NEW allow \in BOOLEAN, ClaimError(c, allow)
        PROVE  Moves(t)
    BY <1>1, <1>4, <2>1 DEF ClaimError, Claimable, queueVars
  <2>2. ASSUME NEW c \in Consumer, NEW result \in Results, FinishError(c, result)
        PROVE  Moves(t)
    BY <1>1, <1>6, <2>2 DEF FinishError, EndTask, queueVars
  <2> QED BY <1>1, <1>8, <2>1, <2>2 DEF Faults, Crash, queueVars
<1>9. CASE Control
  <2>1. ASSUME NEW n \in 1..WorkerMax, Run(n)
        PROVE  Moves(t)
    <3>1. \A u \in InStatus("running") : ~Owned(u)
      BY <2>1 DEF Run, IInv, ControlOK, Owned, Owns, Holding
    <3> QED BY <1>1, <1>5, <2>1, <3>1 DEF Run, ReconcileOnStartup, queueVars
  <2> QED BY <1>1, <1>9, <2>1 DEF Control, SetWorkerCount, queueVars
<1>10. CASE TimePasses
  <2>1. Older(row[t]).status = row[t].status
    BY <1>0 DEF Older, Row
  <2> QED BY <1>10, <2>1 DEF TimePasses, Tick, Rewrite, Stays
<1>11. CASE UNCHANGED vars
  BY <1>1, <1>11 DEF vars
<1> QED BY <1>3, <1>7, <1>8, <1>9, <1>10, <1>11 DEF Next

\* A finished row keeps its result until it is asked for again, deleted, or
\* written by an execution that was late: an execution in time and the reconciles
\* never touch it.
THEOREM ResultsKept == Spec => ResultsStay
<1>1. IInv /\ [Next]_vars =>
        [\A t \in Task :
            row[t].status \in {"done", "failed"} =>
               \/ row'[t].status \in {row[t].status, "absent"}
               \/ row'[t].status = "pending" /\ t \in asked'
               \/ LateEnd(t)]_vars
  BY RowMoves DEF Moves, Stays, Goes, Opens, Starts, Returns, Ends
<1> QED BY <1>1, InvariantHolds, PTL DEF Spec, ResultsStay
=============================================================================
