---------------------------- MODULE ScrapeWorker ----------------------------
(***************************************************************************)
(* The consumers of scrape_queue: ScrapeWorker.Run, SetWorkerCount, consume*)
(* and runTask, with the callers that enqueue, retry and delete around     *)
(* them, and the crash and restart of the process.                         *)
(*                                                                         *)
(* A consumer is a goroutine slot.  What it took from the table is a set   *)
(* of claims: RETURNING gives the rows in no particular order.  A claim    *)
(* remembers the retry count it read; live turns FALSE when the row with   *)
(* its id is deleted, so that its later writes match no row.               *)
(*                                                                         *)
(* Nothing makes a consumer finish a batch before its rows turn stale and  *)
(* are given to others.  Claims that this happens to are called late, for  *)
(* the properties only: no action looks at late.                           *)
(***************************************************************************)
EXTENDS ScrapeQueue

CONSTANTS
    Consumer,    \* goroutine slots
    NoClaim,     \* the value of current when no task is being executed
    ClaimBatch,  \* scrapeClaimBatch
    WorkerMax    \* scrapeWorkerMax

ASSUME WorkerAssumption ==
    /\ IsFiniteSet(Consumer)
    /\ ClaimBatch \in Nat \ {0}
    /\ WorkerMax \in Nat \ {0}

\* late: the row was held until it was stale, or another execution wrote it.
Claims == [task : Task, retry : Nat, live : BOOLEAN, late : BOOLEAN]

ASSUME NoClaimAssumption == NoClaim \notin Claims

VARIABLES
    up,       \* the process runs
    pc,       \* where a consumer is
    stopped,  \* its stop channel is closed
    batch,    \* the claims it still has to process
    current,  \* the claim it is executing
    asked,    \* requests since whose acceptance no execution has started
    disturbed \* tasks written by a late execution since they were last new

workerVars == <<up, pc, stopped, batch, current>>
history == <<asked, disturbed>>
vars == <<items, row, up, pc, stopped, batch, current, asked, disturbed>>

Active == {c \in Consumer : pc[c] # "off" /\ ~stopped[c]}

\* The claims a consumer still acts on.
Holding(c) ==
    batch[c] \cup (IF current[c] = NoClaim THEN {} ELSE {current[c]})

Holds(c, t) == \E k \in Holding(c) : k.task = t /\ k.live

Held(t) == \E c \in Consumer : Holds(c, t)

\* The claims that are good, and those that are not but will write the row.
Good(k) == k.live /\ ~k.late

Owns(c, t) == \E k \in Holding(c) : k.task = t /\ Good(k)

Owned(t) == \E c \in Consumer : Owns(c, t)

IsLate(c, t) == \E k \in Holding(c) : k.task = t /\ k.live /\ k.late

-----------------------------------------------------------------------------
Init ==
    /\ QueueInit
    /\ up = FALSE
    /\ pc = [c \in Consumer |-> "off"]
    /\ stopped = [c \in Consumer |-> FALSE]
    /\ batch = [c \in Consumer |-> {}]
    /\ current = [c \in Consumer |-> NoClaim]
    /\ asked = {}
    /\ disturbed = {}

\* What becomes of a claim on a row of S that is deleted, or no longer its own.
Dead(S, k) == IF k.task \in S THEN [k EXCEPT !.live = FALSE] ELSE k

Late(S, k) == IF k.task \in S THEN [k EXCEPT !.late = TRUE] ELSE k

Revise(f(_)) ==
    /\ batch' = [c \in Consumer |-> {f(k) : k \in batch[c]}]
    /\ current' = [c \in Consumer |->
                     IF current[c] = NoClaim THEN NoClaim ELSE f(current[c])]

\* A row taken out of the table leaves the claims on it without a row.
Detach(S) ==
    /\ Revise(LAMBDA k : Dead(S, k))
    /\ asked' = asked \ S
    /\ disturbed' = disturbed \ S

-----------------------------------------------------------------------------
(* Requests.                                                               *)

\* A request for a row that is already running is absorbed by that run.
Enqueue(S, p) ==
    /\ up
    /\ EnqueueBatch(S, p)
    /\ asked' = asked \cup {t \in S : row[t].status # "running"}
    /\ disturbed' = {t \in disturbed :
                        t \in S => row[t].status \in {"pending", "running"}}
    /\ UNCHANGED workerVars

AdminRetry(t) ==
    /\ up
    /\ RetryTask(t)
    /\ asked' = asked \cup {t}
    /\ disturbed' = disturbed \ {t}
    /\ UNCHANGED workerVars

AdminRetryAll ==
    /\ up
    /\ asked' = asked \cup InStatus("failed")
    /\ disturbed' = disturbed \ InStatus("failed")
    /\ RetryAllFailed
    /\ UNCHANGED workerVars

ItemDeleted(i) ==
    /\ up
    /\ DeleteItem(i)
    /\ Detach({t \in Task : ItemOf[t] = i})
    /\ UNCHANGED <<up, pc, stopped>>

-----------------------------------------------------------------------------
(* Tickers of Run.                                                         *)

PruneTicker ==
    /\ up
    /\ PruneDone
    /\ Detach(Prunable)
    /\ UNCHANGED <<up, pc, stopped>>

StaleTicker ==
    /\ up
    /\ ReconcileStaleRunning
    /\ UNCHANGED <<workerVars, history>>

\* Whoever holds a row as it turns stale is late.
TimePasses ==
    LET turning == {t \in Task : row[t].age + 1 >= StaleAge}
    IN  /\ Tick
        /\ Revise(LAMBDA k : Late(turning, k))
        /\ UNCHANGED <<up, pc, stopped, history>>

-----------------------------------------------------------------------------
(* Starting, resizing and losing consumers.                                *)

\* Spawn goroutines in S, close the stop channels of D.
Resize(S, D) ==
    /\ pc' = [c \in Consumer |-> IF c \in S THEN "poll" ELSE pc[c]]
    /\ stopped' = [c \in Consumer |->
                     IF c \in S THEN FALSE ELSE stopped[c] \/ c \in D]

SetWorkerCount(n) ==
    LET size == Lesser(IF n < 1 THEN 1 ELSE n, WorkerMax)
        cur  == Cardinality(Active)
    IN  /\ up
        /\ \/ /\ size > cur
              /\ \E S \in SUBSET {c \in Consumer : pc[c] = "off"} :
                    Cardinality(S) = size - cur /\ Resize(S, {})
           \/ /\ size < cur
              /\ \E D \in SUBSET Active :
                    Cardinality(D) = cur - size /\ Resize({}, D)
        /\ UNCHANGED <<queueVars, up, batch, current, history>>

\* Run goes on when the startup reconcile fails.
Run(n) ==
    /\ ~up
    /\ up' = TRUE
    /\ ReconcileOnStartup \/ UNCHANGED queueVars
    /\ \E S \in SUBSET Consumer :
          /\ Cardinality(S) = Lesser(n, WorkerMax)
          /\ Resize(S, {})
    /\ UNCHANGED <<batch, current, history>>

\* Everything in memory is lost; what consumers held stays running.
Crash ==
    /\ up
    /\ up' = FALSE
    /\ pc' = [c \in Consumer |-> "off"]
    /\ stopped' = [c \in Consumer |-> FALSE]
    /\ batch' = [c \in Consumer |-> {}]
    /\ current' = [c \in Consumer |-> NoClaim]
    /\ UNCHANGED <<queueVars, history>>

-----------------------------------------------------------------------------
(* consume and runTask.                                                    *)

\* The checks of the stop channel: before a claim, between two tasks of a
\* batch (the rest of the batch stays running, held by nobody) and asleep.
Quit(c) ==
    /\ pc[c] \in {"poll", "batch", "sleep"}
    /\ stopped[c]
    /\ pc' = [pc EXCEPT ![c] = "off"]
    /\ stopped' = [stopped EXCEPT ![c] = FALSE]
    /\ batch' = [batch EXCEPT ![c] = {}]
    /\ UNCHANGED <<queueVars, up, current, history>>

\* The claims made of the rows of S.
ClaimsOn(S) ==
    {[task |-> t, retry |-> row[t].retry, live |-> TRUE, late |-> FALSE] :
        t \in S}

ClaimTasks(c, allowRemote) ==
    /\ pc[c] = "poll"
    /\ ~stopped[c]
    /\ \E S \in SUBSET Claimable(allowRemote) :
          /\ ClaimAnswer(S, ClaimBatch, allowRemote)
          /\ Claim(S)
          /\ batch' = [batch EXCEPT ![c] = ClaimsOn(S)]
          /\ pc' = [pc EXCEPT ![c] = IF S = {} THEN "sleep" ELSE "batch"]
    /\ UNCHANGED <<up, stopped, current, history>>

\* Claim returns an error, after or without having taken effect.
ClaimError(c, allowRemote) ==
    /\ pc[c] = "poll"
    /\ ~stopped[c]
    /\ \/ \E S \in SUBSET Claimable(allowRemote) :
             ClaimAnswer(S, ClaimBatch, allowRemote) /\ Claim(S)
       \/ UNCHANGED queueVars
    /\ pc' = [pc EXCEPT ![c] = "sleep"]
    /\ UNCHANGED <<up, stopped, batch, current, history>>

Wake(c) ==
    /\ pc[c] = "sleep"
    /\ ~stopped[c]
    /\ pc' = [pc EXCEPT ![c] = "poll"]
    /\ UNCHANGED <<queueVars, up, stopped, batch, current, history>>

StartTask(c) ==
    /\ pc[c] = "batch"
    /\ ~stopped[c]
    /\ \E k \in batch[c] :
          /\ batch' = [batch EXCEPT ![c] = @ \ {k}]
          /\ current' = [current EXCEPT ![c] = k]
          /\ asked' = IF k.live THEN asked \ {k.task} ELSE asked
    /\ pc' = [pc EXCEPT ![c] = "exec"]
    /\ UNCHANGED <<queueVars, up, stopped, disturbed>>

\* What runTask writes: WHERE id = $1, whatever the row's status is by now.
Outcome(k, r, result) ==
    CASE result = "ok"        -> Done(r)
      [] result = "fatal"     -> FailedFatal(r)
      [] result = "transient" -> Failed(r, k.retry)

Results == {"ok", "fatal", "transient"}

WriteOutcome(k, result) ==
    /\ row' = [t \in Task |-> IF k.live /\ t = k.task
                                THEN Outcome(k, row[t], result) ELSE row[t]]
    /\ UNCHANGED items

\* c has ended its task and written the rows of S; it keeps B of its batch.
\* Who else has claimed these rows is late from now on.
EndTask(c, B, S) ==
    /\ batch' = [d \in Consumer |->
                   {Late(S, k) : k \in IF d = c THEN B ELSE batch[d]}]
    /\ current' = [d \in Consumer |->
                     IF d = c \/ current[d] = NoClaim
                       THEN NoClaim ELSE Late(S, current[d])]
    /\ disturbed' = IF current[c].late THEN disturbed \cup S ELSE disturbed

Written(k) == IF k.live THEN {k.task} ELSE {}

FinishTask(c, result) ==
    /\ pc[c] = "exec"
    /\ WriteOutcome(current[c], result)
    /\ EndTask(c, batch[c], Written(current[c]))
    /\ pc' = [pc EXCEPT ![c] = IF batch[c] = {} THEN "poll" ELSE "batch"]
    /\ UNCHANGED <<up, stopped, asked>>

\* The state write returns an error, after or without having taken effect:
\* the consumer drops the rest of its batch and pauses.
FinishError(c, result) ==
    /\ pc[c] = "exec"
    /\ \/ WriteOutcome(current[c], result) /\ EndTask(c, {}, Written(current[c]))
       \/ UNCHANGED queueVars /\ EndTask(c, {}, {})
    /\ pc' = [pc EXCEPT ![c] = "sleep"]
    /\ UNCHANGED <<up, stopped, asked>>

-----------------------------------------------------------------------------
(* What the worker does by itself, and what happens to it.                 *)

Consume(c) ==
    \/ Quit(c) \/ Wake(c) \/ StartTask(c)
    \/ \E allow \in BOOLEAN : ClaimTasks(c, allow)
    \/ \E result \in Results : FinishTask(c, result)

System == (\E c \in Consumer : Consume(c)) \/ StaleTicker \/ PruneTicker

Requests ==
    \/ \E S \in (SUBSET Task) \ {{}}, p \in Priorities : Enqueue(S, p)
    \/ \E t \in Task : AdminRetry(t)
    \/ AdminRetryAll
    \/ \E i \in Item : ItemDeleted(i)

Faults ==
    \/ \E c \in Consumer, allow \in BOOLEAN : ClaimError(c, allow)
    \/ \E c \in Consumer, result \in Results : FinishError(c, result)
    \/ Crash

Control == \E n \in 1..WorkerMax : SetWorkerCount(n) \/ Run(n)

Next == System \/ Requests \/ Faults \/ Control \/ TimePasses

Spec == Init /\ [][Next]_vars

-----------------------------------------------------------------------------
(* Properties.                                                             *)

\* The shape of the state: whatever the consumers and callers do, rows,
\* claims and control points stay in their ranges.
TypeOK ==
    /\ QueueTypeOK
    /\ up \in BOOLEAN
    /\ pc \in [Consumer -> {"off", "poll", "sleep", "batch", "exec"}]
    /\ stopped \in [Consumer -> BOOLEAN]
    /\ batch \in [Consumer -> SUBSET Claims]
    /\ current \in [Consumer -> Claims \cup {NoClaim}]
    /\ asked \subseteq Task
    /\ disturbed \subseteq Task

\* Of all who have a task in hand at most one is not late: only a row that was
\* held until it was stale is given to a second consumer.  Its row says running
\* for as long as it is, and no consumer has a task twice (Claim, the reconciles,
\* runTask).
ExclusiveExecution ==
    \A t \in Task :
        /\ Owned(t) => row[t].status = "running"
        /\ \A c, d \in Consumer : Owns(c, t) /\ Owns(d, t) => c = d
        /\ \A c \in Consumer : \A k, l \in Holding(c) :
              k.task = t /\ l.task = t => k = l

\* Fail bounds the retries: unless a late execution wrote the row, a row that
\* can still be executed has retries left, although the decision is taken on
\* the count read at claim time.
RetryBudget ==
    \A t \in Task \ disturbed :
        /\ row[t].status \in {"pending", "running"} => row[t].retry < MaxRetry
        /\ row[t].retry <= MaxRetry

\* A request that was accepted, for a failed row too, and not absorbed by a
\* running one, is not lost: until an execution starts for it the row stays in
\* the queue, through retries, abandoned batches, stale reconciles and
\* restarts.  Only the write of an execution that had lost the row ends it.
AcceptedRequestKept ==
    \A t \in asked \ disturbed : row[t].status \in {"pending", "running"}

\* ReconcileStaleRunning only takes back rows that nobody works on (its comment
\* says that they come from a panic or a deadlock): a row that returns to
\* pending with its retry count unchanged is not held.
StaleRowsAreOrphans ==
    [][\A t \in Task :
          /\ row[t].status = "running"
          /\ row'[t].status = "pending"
          /\ row'[t].retry = row[t].retry
          => ~Held(t)]_vars

\* A late execution of the task ends in this step.
LateEnd(t) ==
    \E c \in Consumer :
        /\ current[c] # NoClaim /\ current'[c] = NoClaim
        /\ current[c].task = t /\ current[c].live /\ current[c].late

\* A finished row keeps its result until someone asks for the task again, the
\* row is deleted, or an execution that was late before it finished writes it
\* (Done, Fail: WHERE id = $1): none that is in time does, and no reconcile.
ResultsStay ==
    [][\A t \in Task :
          row[t].status \in {"done", "failed"} =>
             \/ row'[t].status \in {row[t].status, "absent"}
             \/ row'[t].status = "pending" /\ t \in asked'
             \/ LateEnd(t)]_vars

\* The comment of Enqueue (scrape_queue.go:61-63): a task that is queued, be it
\* pending, running or failed, is not queued again.  So only an administrator,
\* or a late execution that fails for the time being, makes a failed row pending.
\* A request differs from a retry by the better priority it may bring.
FailedNotReopened ==
    [][\A t \in Task :
          row[t].status = "failed" /\ row'[t].status = "pending" =>
             AdminRetry(t) \/ AdminRetryAll \/ LateEnd(t)]_vars

(***************************************************************************)
(* The inductive invariant, in named parts.                                *)
(***************************************************************************)

\* A claim that is not late is as good as its row: running, with the count
\* that was read.
ClaimsCurrent ==
    \A c \in Consumer : \A k \in Holding(c) :
        Good(k) => /\ row[k.task].status = "running"
                   /\ row[k.task].retry = k.retry
                   /\ row[k.task].age < StaleAge

SoleHolder ==
    \A c, d \in Consumer : \A k \in Holding(c), l \in Holding(d) :
        Good(k) /\ Good(l) /\ k.task = l.task => c = d

\* A consumer has a task once, and what it executes has left the batch.
OneEach ==
    \A c \in Consumer :
        /\ \A k, l \in Holding(c) : k.task = l.task => k = l
        /\ current[c] \notin batch[c]

\* Control points and claims go together.
ControlOK ==
    /\ \A c \in Consumer : pc[c] = "exec" <=> current[c] # NoClaim
    /\ \A c \in Consumer : pc[c] \in {"off", "poll", "sleep"} => batch[c] = {}
    /\ ~up => \A c \in Consumer : pc[c] = "off"

\* The execution under way is the one that was asked for, unless it is late.
ExecutingNotAsked ==
    \A c \in Consumer :
        current[c] # NoClaim =>
            (Good(current[c]) => current[c].task \notin asked)

IInv ==
    /\ TypeOK
    /\ ClaimsCurrent
    /\ SoleHolder
    /\ OneEach
    /\ ControlOK
    /\ ExecutingNotAsked
    /\ RetryBudget
    /\ AcceptedRequestKept

(***************************************************************************)
(* The worker implements the ledger.                                       *)
(***************************************************************************)
CONSTANT NoConsumer

ASSUME NoConsumerAssumption == NoConsumer \notin Consumer

LedgerState ==
    [t \in Task |->
        CASE row[t].status = "absent"  -> "none"
          [] row[t].status = "pending" -> "queued"
          [] row[t].status = "running" -> "running"
          [] OTHER                     -> "closed"]

LedgerOwner ==
    [t \in Task |-> IF Owned(t) THEN CHOOSE c \in Consumer : Owns(c, t)
                                ELSE NoConsumer]

LedgerLate == [t \in Task |-> {c \in Consumer : IsLate(c, t)}]

Ledger == INSTANCE JobLedger WITH
    Job <- Task, Worker <- Consumer, NoWorker <- NoConsumer,
    state <- LedgerState, owner <- LedgerOwner, late <- LedgerLate

\* Every step of the worker is a step of the ledger: jobs are taken from the
\* queue, ended by who owns them or came too late, and go back to the queue when
\* nobody owns them.
ImplementsLedger == Ledger!Spec

(***************************************************************************)
(* Progress.  The process is restarted, its goroutines and tickers run,    *)
(* time passes; callers, faults and the administrator eventually leave the *)
(* worker alone, and claims are allowed to take remote tasks again and     *)
(* again (the circuit breaker closes).                                     *)
(***************************************************************************)
Fairness ==
    /\ WF_vars(\E n \in 1..WorkerMax : Run(n))
    /\ WF_vars(StaleTicker)
    /\ WF_vars(TimePasses)
    /\ \A c \in Consumer :
          /\ WF_vars(Quit(c) \/ Wake(c) \/ StartTask(c))
          /\ WF_vars(\E result \in Results : FinishTask(c, result))
          /\ SF_vars(ClaimTasks(c, TRUE))

Calm == <>[][\/ System \/ TimePasses
             \/ \E n \in 1..WorkerMax : Run(n)]_vars

FairSpec == Spec /\ Fairness

\* Once the worker is left alone, every task in the queue is brought to an
\* end, those that a stopped, failed or crashed consumer left running too.
QueueDrains ==
    Calm => \A t \in Task :
               (row[t].status \in {"pending", "running"}
                  ~> row[t].status \notin {"pending", "running"})
=============================================================================
