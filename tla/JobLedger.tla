----------------------------- MODULE JobLedger -----------------------------
(***************************************************************************)
(* What a persistent job queue promises its users.  A job is owned by at   *)
(* most one worker.  A worker that takes too long with it stops owning it, *)
(* but works on; a job that nobody owns may be recovered and be taken by   *)
(* another.  Only its owner ends a job, or one that is late with it.       *)
(***************************************************************************)
CONSTANTS Job, Worker, NoWorker  \* NoWorker is not a worker

VARIABLES
    state,  \* "none", "queued", "running" or "closed"
    owner,  \* the worker that runs a job
    late    \* the workers that work on a job and do not own it any more

ledger == <<state, owner, late>>

Init ==
    /\ state = [j \in Job |-> "none"]
    /\ owner = [j \in Job |-> NoWorker]
    /\ late = [j \in Job |-> {}]

Set(f, S, v) == [j \in Job |-> IF j \in S THEN v ELSE f[j]]

\* New jobs, and closed jobs asked for again.
Submit(S) ==
    /\ \A j \in S : state[j] \in {"none", "closed"}
    /\ state' = Set(state, S, "queued")
    /\ UNCHANGED <<owner, late>>

\* w takes jobs; NoWorker takes them when the answer to w is lost.
Take(w, S) ==
    /\ \A j \in S : state[j] = "queued"
    /\ state' = Set(state, S, "running")
    /\ owner' = Set(owner, S, w)
    /\ UNCHANGED late

\* The owners of jobs have had their time.
Expire(S) ==
    /\ \A j \in S : owner[j] # NoWorker
    /\ owner' = Set(owner, S, NoWorker)
    /\ late' = [j \in Job |-> IF j \in S THEN late[j] \cup {owner[j]} ELSE late[j]]
    /\ UNCHANGED state

\* w ends a job of its own, or one it is late with, whose owner then is late
\* too; it gives up the jobs of L.
Finish(w, j, s, L) ==
    /\ owner[j] = w \/ w \in late[j]
    /\ s \in {"queued", "closed"}
    /\ j \in L
    /\ state' = [state EXCEPT ![j] = s]
    /\ owner' = [i \in Job |-> IF i = j \/ (i \in L /\ owner[i] = w)
                                THEN NoWorker ELSE owner[i]]
    /\ late' = [i \in Job |->
                  (IF i = j THEN late[i] \cup ({owner[i]} \ {NoWorker})
                            ELSE late[i])
                    \ (IF i \in L THEN {w} ELSE {})]

\* Workers give up all they have; it stays running.
Lose(W) ==
    /\ owner' = [j \in Job |-> IF owner[j] \in W THEN NoWorker ELSE owner[j]]
    /\ late' = [j \in Job |-> late[j] \ W]
    /\ UNCHANGED state

\* Jobs without an owner go back to the queue.
Recover(S) ==
    /\ \A j \in S : state[j] = "running" /\ owner[j] = NoWorker
    /\ state' = Set(state, S, "queued")
    /\ UNCHANGED <<owner, late>>

Forget(S) ==
    /\ state' = Set(state, S, "none")
    /\ owner' = Set(owner, S, NoWorker)
    /\ late' = Set(late, S, {})

Next ==
    \/ \E S \in SUBSET Job : Submit(S) \/ Expire(S) \/ Recover(S) \/ Forget(S)
    \/ \E w \in Worker \cup {NoWorker}, S \in SUBSET Job : Take(w, S)
    \/ \E w \in Worker, j \in Job, s \in {"queued", "closed"},
          L \in SUBSET Job : Finish(w, j, s, L)
    \/ \E W \in SUBSET Worker : Lose(W)

Spec == Init /\ [][Next]_ledger
=============================================================================
