------------------------ MODULE SidecarRefreshProofs ------------------------
(***************************************************************************)
(* Theorems about SidecarRefresh, for every set of items, consumers and    *)
(* sidecar files and every limit.                                          *)
(***************************************************************************)
EXTENDS SidecarRefresh, SequenceTheorems, TLAPS

\* The claims a goroutine has taken and not ended.
Tasks(c) == batch[c] \cup ({current[c]} \ {NoClaim})

\* What a goroutine has in hand goes with where it is, and nothing is in hand
\* while the process is down.
Places ==
    \A c \in Consumer :
        /\ pc[c] \in {"off", "poll", "sleep"} => batch[c] = {}
        /\ pc[c] \in {"exec", "failing"} <=> current[c] # NoClaim
        /\ current[c] = NoClaim => todo[c] = <<>>
        /\ ~up => pc[c] = "off"

\* A subtree refresh apart, an execution has one step: on its own file, or the
\* hand-over of a remote refresh.
Plans ==
    \A c \in Consumer :
        current[c] # NoClaim /\ todo[c] # <<>> =>
            \/ current[c].key[2] = "subtree"
            \/ current[c].option = "remote" /\ todo[c] = <<"scrape">>
            \/ todo[c] = <<current[c].key[2]>>

\* Who has read something is at the step that writes it, and the file has not
\* become older.
Reads ==
    \A c \in Consumer :
        seen[c] # NoVersion =>
            /\ todo[c] # <<>> /\ Head(todo[c]) \in Facet
            /\ seen[c] <= disk[Subject(c)]

One(b) == IF b THEN 1 ELSE 0

\* A file's events, its place in the map and the flushes that still have to
\* enqueue it stand for a change each.
Arrivals ==
    /\ \A d \in Dir : \A f \in entry[d] : d = DirOf[f[1]]
    /\ \A f \in File :
          flight[f] + One(f \in events) + One(f \in entry[DirOf[f[1]]]) <= disk[f]

\* Nothing shows a version that the file has not had.
Behind == \A f \in File : shown[f] <= disk[f]

\* A claim is held once, and its row is running with the count that was read.
Exclusive ==
    /\ \A c \in Consumer : \A m \in Tasks(c) :
          row[m.key].status = "running" /\ row[m.key].retry = m.retry
    /\ \A c, d \in Consumer : \A m \in Tasks(c), n \in Tasks(d) :
          m.key = n.key => c = d /\ m = n
    /\ \A c \in Consumer : current[c] \notin batch[c]

\* A row that is to be worked on has a retry left.
RetriesLeft ==
    \A k \in Key :
        row[k].status \in {"pending", "running"} => row[k].retry < MaxRetry

\* Someone works on the row of f who will write what is on disk, or repeat it.
Served(f) ==
    \/ WillRead(f)
    \/ \E c \in Executing(f) : current[c].option = "local" /\ seen[c] = disk[f]

\* The row that stands for a change keeps the option that reads the file.
Standing(f) ==
    /\ row[f].option = "local"
    /\ \/ row[f].status \in {"pending", "failed"}
       \/ row[f].status = "running" /\ (Held(f) => Served(f))

\* ChangeAccounted, with what a retry by hand and the end of an execution need.
Accounted ==
    \A f \in File :
        shown[f] # disk[f] => Announced(f) \/ f \in lost \/ Standing(f)

\* An execution of the file's own row has read what the item shows or later.
Ahead ==
    \A c \in Consumer :
        /\ seen[c] # NoVersion
        /\ current[c].key \in File
        /\ <<current[c].key[1], "subtree">> \notin Key
        => shown[current[c].key] <= seen[c]

IInv ==
    /\ TypeOK /\ Places /\ Plans /\ Reads /\ Arrivals /\ Behind
    /\ Exclusive /\ RetriesLeft /\ Accounted /\ Ahead

-----------------------------------------------------------------------------
(* What the statements and the goroutines have in hand.                    *)

\* The rows and claims that the statements start from have their types.
LEMMA RowTypes ==
    /\ Absent \in Row
    /\ \A o \in Option : Fresh(o) \in Row
    /\ \A m \in Claims : m.key \in Key /\ m.option \in Option /\ m.retry \in 0..MaxRetry
<1>1. \A o \in Option : Fresh(o) \in Row
  BY RetryAssumption DEF Fresh, Row, Status
<1>2. Fresh("local") \in Row
  BY <1>1 DEF Option
<1>3. Absent \in Row
  BY <1>2 DEF Absent, Row, Status
<1> QED BY <1>1, <1>3 DEF Claims

\* A failure uses a retry up, or ends the task.
LEMMA RetryTypes ==
    ASSUME NEW r \in Row, NEW n \in Nat, r.retry < MaxRetry
    PROVE  /\ Failed(r, n) \in Row
           /\ Failed(r, n).option = r.option
           /\ Failed(r, n).status \in {"pending", "failed"}
           /\ Failed(r, n).status = "pending" /\ n = r.retry =>
                Failed(r, n).retry < MaxRetry
<1>1. r.retry + 1 \in 0..MaxRetry
  BY RetryAssumption DEF Row
<1>2. CASE n + 1 >= MaxRetry
  BY <1>1, <1>2, RetryAssumption DEF Failed, Row, Status
<1>3. CASE ~(n + 1 >= MaxRetry)
  <2>1. Failed(r, n) =
          [r EXCEPT !.status = "pending", !.retry = r.retry + 1, !.due = FALSE]
    BY <1>3 DEF Failed
  <2>2. n = r.retry => r.retry + 1 < MaxRetry
    BY <1>3, RetryAssumption DEF Row
  <2> QED BY <1>1, <2>1, <2>2 DEF Row, Status
<1> QED BY <1>2, <1>3

\* A retry by hand starts over.
LEMMA RetriedType ==
    ASSUME NEW r \in Row
    PROVE  /\ Retried(r) \in Row
           /\ Retried(r).status = "pending" /\ Retried(r).retry = 0
           /\ Retried(r).option = r.option
<1>1. 0 \in 0..MaxRetry
  BY RetryAssumption
<1>2. Retried(r) \in Row
  BY <1>1 DEF Retried, Row, Status
<1>3. /\ Retried(r).status = "pending" /\ Retried(r).retry = 0
      /\ Retried(r).option = r.option
  BY DEF Retried, Row
<1> QED BY <1>2, <1>3

\* What is held is what Holds says.
LEMMA HoldsIsTasks ==
    ASSUME TypeOK, NEW c \in Consumer, NEW k \in Key
    PROVE  Holds(c, k) <=> \E m \in Tasks(c) : m.key = k
BY DEF Holds, Executing, Tasks, TypeOK

\* A held row is running, with the count its claim has.
LEMMA HeldRuns ==
    ASSUME TypeOK, Exclusive, NEW k \in Key, Held(k)
    PROVE  row[k].status = "running"
<1>1. PICK c \in Consumer : Holds(c, k)
  BY DEF Held
<1>2. PICK m \in Tasks(c) : m.key = k
  BY <1>1, HoldsIsTasks
<1> QED BY <1>2 DEF Exclusive

\* What is held is a claim on a key.
LEMMA TaskTypes ==
    ASSUME TypeOK, NEW c \in Consumer
    PROVE  /\ \A m \in Tasks(c) :
                m \in Claims /\ m.key \in Key /\ m.option \in Option
                /\ m.retry \in 0..MaxRetry
           /\ current[c] # NoClaim =>
                current[c] \in Tasks(c) /\ current[c] \in Claims
           /\ batch[c] \subseteq Tasks(c)
<1>1. batch[c] \subseteq Claims /\ current[c] \in Claims \cup {NoClaim}
  BY DEF TypeOK
<1>2. Tasks(c) \subseteq Claims
  BY <1>1 DEF Tasks
<1> QED BY <1>1, <1>2, RowTypes DEF Tasks

\* One goroutine at most executes a key.
LEMMA OneExecutes ==
    ASSUME TypeOK, Exclusive, NEW c \in Consumer, NEW d \in Consumer,
           current[c] # NoClaim, current[d] # NoClaim,
           current[c].key = current[d].key
    PROVE  c = d
BY TaskTypes DEF Exclusive

\* Who executes a key has no other claim on it.
LEMMA OnlyCurrent ==
    ASSUME TypeOK, Exclusive, NEW c \in Consumer, NEW d \in Consumer,
           current[c] # NoClaim, NEW m \in batch[d]
    PROVE  m.key # current[c].key
<1>1. current[c] \in Tasks(c) /\ m \in Tasks(d)
  BY TaskTypes
<1>2. m.key = current[c].key => c = d /\ m = current[c]
  BY <1>1 DEF Exclusive
<1> QED BY <1>2 DEF Exclusive

\* The step that reads or writes a file is about a file of the table.
LEMMA SubjectFile ==
    ASSUME TypeOK, Plans, NEW c \in Consumer, current[c] # NoClaim,
           todo[c] # <<>>, Head(todo[c]) \in Facet
    PROVE  /\ Subject(c) \in File
           /\ current[c].key \in File => Subject(c) = current[c].key
           /\ current[c].key \notin File =>
                current[c].key = <<Subject(c)[1], "subtree">>
<1>1. current[c].key \in Key
  BY TaskTypes
<1>2. PICK i \in Item, s \in Facet \cup {"subtree"} : current[c].key = <<i, s>>
  BY <1>1, SidecarAssumption
<1>3. Subject(c) = <<i, Head(todo[c])>>
  BY <1>2 DEF Subject
<1>4. CASE s = "subtree"
  <2>1. {i} \X Facet \subseteq Key
    BY <1>1, <1>2, <1>4, SidecarAssumption
  <2> QED BY <1>1, <1>2, <1>3, <1>4, <2>1 DEF File, Facet
<1>5. CASE s # "subtree"
  <2>1. todo[c] = <<s>>
    BY <1>2, <1>5 DEF Plans, Facet
  <2> QED BY <1>1, <1>2, <1>3, <1>5, <2>1 DEF File, Facet
<1> QED BY <1>4, <1>5

-----------------------------------------------------------------------------
(* The steps, in groups that change the same part of the state.            *)

FlowStep ==
    \/ \E f \in File : Edit(f) \/ OnSidecarChange(f) \/ FlushDrop(f)
    \/ \E d \in Dir : FlushTake(d)

RequestStep ==
    \/ \E f \in File : FlushEnqueue(f)
    \/ \E k \in Asked, o \in Option : RefreshItem(k, o)
    \/ \E S : AdminRetry(S)
    \/ \E k \in Key : PruneTicker(k) \/ TimePasses(k) \/ (~Held(k) /\ StaleTicker(k))

LifeStep ==
    \/ \E n \in 1..WorkerMax : Run(n)
    \/ Crash
    \/ \E c \in Consumer : Spawn(c) \/ Quit(c)

TakeStep ==
    \E c \in Consumer : ClaimTasks(c) \/ ClaimError(c) \/ Wake(c) \/ StartTask(c)

WorkStep ==
    \E c \in Consumer :
        \/ ReadSidecar(c) \/ WriteItem(c) \/ WriteIgnored(c)
        \/ EnqueueChildren(c) \/ HandToScraper(c) \/ StepError(c)

EndStep == \E c \in Consumer : Succeed(c) \/ GiveBack(c) \/ EndUnrecorded(c)

\* Every step is in a group.
LEMMA Grouped ==
    ASSUME Next
    PROVE  FlowStep \/ RequestStep \/ LifeStep \/ TakeStep \/ WorkStep \/ EndStep
<1>1. System => FlowStep \/ RequestStep \/ LifeStep \/ TakeStep \/ WorkStep \/ EndStep
  BY DEF System, Consume, Watch, Restart, FlowStep, RequestStep, LifeStep, TakeStep,
         WorkStep, EndStep
<1>2. Administrator => RequestStep \/ LifeStep
  BY DEF Administrator, RequestStep, LifeStep
<1>3. Faults => FlowStep \/ TakeStep \/ WorkStep \/ EndStep \/ LifeStep
  BY DEF Faults, FlowStep, TakeStep, WorkStep, EndStep, LifeStep
<1>4. Edits => FlowStep
  BY DEF Edits, FlowStep
<1> QED BY <1>1, <1>2, <1>3, <1>4 DEF Next

\* Events and timers leave the table and the worker alone.
LEMMA FlowFrame ==
    ASSUME FlowStep
    PROVE  UNCHANGED <<row, shown, up, pc, batch, current, todo, seen>>
BY DEF FlowStep, Edit, OnSidecarChange, FlushDrop, FlushTake, worker

\* A request changes the table, an enqueue of the scheduler its count too.
LEMMA RequestFrame ==
    ASSUME RequestStep
    PROVE  UNCHANGED <<disk, shown, events, entry, up, pc, batch, current, todo, seen>>
BY DEF RequestStep, FlushEnqueue, RefreshItem, AdminRetry, PruneTicker, TimePasses,
       StaleTicker, scheduler, worker

\* Taking a task changes the table and the worker.
LEMMA TakeFrame ==
    ASSUME TakeStep
    PROVE  UNCHANGED <<disk, shown, events, entry, flight, up, seen, lost>>
BY DEF TakeStep, ClaimTasks, ClaimError, Wake, StartTask, scheduler

\* A step of an execution leaves the table and the claims alone.
LEMMA WorkFrame ==
    ASSUME WorkStep
    PROVE  UNCHANGED <<row, disk, events, entry, flight, up, batch, current>>
BY DEF WorkStep, ReadSidecar, WriteItem, WriteIgnored, EnqueueChildren, HandToScraper,
       StepError, scheduler

\* The end of one changes the table and the worker.
LEMMA EndFrame ==
    ASSUME EndStep
    PROVE  UNCHANGED <<disk, shown, events, entry, flight, up, batch, lost>>
BY DEF EndStep, Succeed, GiveBack, EndUnrecorded, EndTask, scheduler

-----------------------------------------------------------------------------
(* What a step does to a row.                                              *)

Puts(k)     == \E o \in Option : row'[k] = Upserted(row[k], o)
Repeats(k)  == row[k].status = "failed" /\ row'[k] = Retried(row[k])
Vanishes(k) == row[k].status = "done" /\ row'[k] = Absent
Ripens(k)   == row'[k] = [row[k] EXCEPT !.due = TRUE]
Frees(k)    == /\ row[k].status = "running" /\ ~Held(k)
               /\ row'[k] = [row[k] EXCEPT !.status = "pending"]
Starts(k)   == /\ row[k].status = "pending"
               /\ row'[k] = [row[k] EXCEPT !.status = "running"]
Finishes(k) == /\ \E c \in Consumer : current[c] # NoClaim /\ current[c].key = k
               /\ row'[k] = [row[k] EXCEPT !.status = "done"]
Fails(k)    == \E c \in Consumer :
                  /\ current[c] # NoClaim /\ current[c].key = k
                  /\ row'[k] = Failed(row[k], current[c].retry)

Spared(k) ==
    \/ row'[k] = row[k]
    \/ Puts(k) \/ Repeats(k) \/ Vanishes(k) \/ Ripens(k) \/ Frees(k)

Move(k) == Spared(k) \/ Starts(k) \/ Finishes(k) \/ Fails(k)

Moves == row' = [k \in Key |-> row'[k]] /\ \A k \in Key : Move(k)

\* The statements that requests and tickers run.
LEMMA RequestMoves ==
    ASSUME TypeOK, RequestStep
    PROVE  row' = [k \in Key |-> row'[k]] /\ \A k \in Key : Spared(k)
<1> DEFINE Goal == row' = [k \in Key |-> row'[k]] /\ \A k \in Key : Spared(k)
<1>1. row = [k \in Key |-> row[k]] /\ "local" \in Option
  BY DEF TypeOK, Option
<1>2. ASSUME NEW f \in File, FlushEnqueue(f)
      PROVE  Goal
  BY <1>1, <1>2 DEF FlushEnqueue, Enqueue, Rewrite, Spared, Puts
<1>3. ASSUME NEW k \in Asked, NEW o \in Option, RefreshItem(k, o)
      PROVE  Goal
  BY <1>1, <1>3 DEF RefreshItem, Enqueue, Rewrite, Spared, Puts
<1>4. ASSUME NEW S, AdminRetry(S)
      PROVE  Goal
  BY <1>1, <1>4 DEF AdminRetry, Retry, InStatus, Rewrite, Spared, Repeats
<1>5. ASSUME NEW k \in Key, PruneTicker(k)
      PROVE  Goal
  BY <1>1, <1>5 DEF PruneTicker, PruneDone, InStatus, Rewrite, Spared, Vanishes
<1>6. ASSUME NEW k \in Key, TimePasses(k)
      PROVE  Goal
  BY <1>1, <1>6 DEF TimePasses, BackoffEnds, Rewrite, Spared, Ripens
<1>7. ASSUME NEW k \in Key, ~Held(k), StaleTicker(k)
      PROVE  Goal
  BY <1>1, <1>7 DEF StaleTicker, Reset, Rewrite, Spared, Frees
<1> QED BY <1>2, <1>3, <1>4, <1>5, <1>6, <1>7 DEF RequestStep

\* Nobody holds anything while the process is down.
LEMMA DownHoldsNothing ==
    ASSUME TypeOK, Places, ~up, NEW k \in Key
    PROVE  ~Held(k)
BY DEF Held, Holds, Executing, Places

\* Those that the worker runs.
LEMMA WorkerMoves ==
    ASSUME TypeOK, Places, LifeStep \/ TakeStep \/ EndStep
    PROVE  Moves
<1>1. row = [k \in Key |-> row[k]]
  BY DEF TypeOK
<1>2. row' = row => Moves
  BY <1>1 DEF Moves, Move, Spared
<1>3. ASSUME NEW n \in 1..WorkerMax, Run(n)
      PROVE  Moves
  BY <1>1, <1>2, <1>3, DownHoldsNothing
  DEF Run, ReconcileOnStartup, Reset, InStatus, Rewrite, Moves, Move, Spared, Frees
<1>4. ASSUME NEW S \in SUBSET Due, Claim(S)
      PROVE  Moves
  BY <1>1, <1>4 DEF Claim, Due, InStatus, Rewrite, Moves, Move, Spared, Starts
<1>5. ASSUME NEW c \in Consumer, Succeed(c)
      PROVE  Moves
  BY <1>1, <1>5 DEF Succeed, Places, Done, Rewrite, Moves, Move, Spared, Finishes
<1>6. ASSUME NEW c \in Consumer, GiveBack(c)
      PROVE  Moves
  BY <1>1, <1>6 DEF GiveBack, Places, Fail, Rewrite, Moves, Move, Spared, Fails
<1>7. CASE LifeStep
  BY <1>2, <1>3, <1>7 DEF LifeStep, Crash, Spawn, Quit
<1>8. CASE TakeStep
  BY <1>2, <1>4, <1>8 DEF TakeStep, ClaimTasks, ClaimError, Wake, StartTask
<1>9. CASE EndStep
  BY <1>2, <1>5, <1>6, <1>9 DEF EndStep, EndUnrecorded
<1> QED BY <1>7, <1>8, <1>9

\* A row changes in one of the named ways.
LEMMA StepMoves ==
    ASSUME TypeOK, Places, Next
    PROVE  Moves
<1>1. row = [k \in Key |-> row[k]]
  BY DEF TypeOK
<1>2. row' = row => Moves
  BY <1>1 DEF Moves, Move, Spared
<1>3. RequestStep => Moves
  BY RequestMoves DEF Moves, Move
<1> QED BY <1>2, <1>3, Grouped, WorkerMoves, FlowFrame, WorkFrame

\* The rows stay well typed and keep a retry while they are to be worked on.
LEMMA RowsStep ==
    ASSUME TypeOK, Exclusive, RetriesLeft, Moves
    PROVE  row' \in [Key -> Row] /\ RetriesLeft'
<1>1. ASSUME NEW k \in Key
      PROVE  /\ row'[k] \in Row
             /\ row'[k].status \in {"pending", "running"} => row'[k].retry < MaxRetry
  <2>1. /\ row[k] \in Row
        /\ row[k].status \in {"pending", "running"} => row[k].retry < MaxRetry
    BY DEF TypeOK, RetriesLeft
  <2>2. CASE Puts(k)
    <3>1. PICK o \in Option : row'[k] = Upserted(row[k], o)
      BY <2>2 DEF Puts
    <3>2. Fresh(o) \in Row /\ Fresh(o).retry = 0
      BY RowTypes DEF Fresh
    <3> QED BY <2>1, <3>1, <3>2, RetryAssumption DEF Upserted, Row
  <2>3. CASE Repeats(k)
    BY <2>1, <2>3, RetriedType, RetryAssumption DEF Repeats
  <2>4. CASE Vanishes(k)
    BY <2>4, RowTypes DEF Vanishes, Absent
  <2>5. CASE Ripens(k)
    BY <2>1, <2>5 DEF Ripens, Row
  <2>6. CASE Frees(k) \/ Starts(k) \/ Finishes(k)
    BY <2>1, <2>6 DEF Frees, Starts, Finishes, Row, Status
  <2>7. CASE Fails(k)
    <3>1. PICK c \in Consumer :
             /\ current[c] # NoClaim /\ current[c].key = k
             /\ row'[k] = Failed(row[k], current[c].retry)
      BY <2>7 DEF Fails
    <3>2. row[k].status = "running" /\ row[k].retry = current[c].retry
      BY <3>1, TaskTypes DEF Exclusive
    <3>3. row[k].retry \in 0..MaxRetry /\ row[k].retry < MaxRetry
      BY <2>1, <3>2 DEF Row
    <3> QED BY <2>1, <3>1, <3>2, <3>3, RetryTypes
  <2> QED BY <2>1, <2>2, <2>3, <2>4, <2>5, <2>6, <2>7 DEF Moves, Move, Spared
<1> QED BY <1>1 DEF Moves, RetriesLeft

-----------------------------------------------------------------------------
(* Where goroutines are and what they do next.                             *)

TodoStep == Facet \cup {"children", "scrape"}

\* What dispatch plans for a claim.
LEMMA PlanOf ==
    ASSUME NEW m \in Claims
    PROVE  /\ Steps(m) \in Seq(TodoStep) /\ Steps(m) # <<>>
           /\ \/ m.key[2] = "subtree"
              \/ m.option = "remote" /\ Steps(m) = <<"scrape">>
              \/ Steps(m) = <<m.key[2]>>
<1>1. m.key[2] \in Facet \cup {"subtree"}
  BY SidecarAssumption, RowTypes
<1>2. CASE m.key[2] = "subtree"
  <2>1. Steps(m) = <<"metadata", "images", "children">>
                     \o (IF m.option = "remote" THEN <<"scrape">> ELSE <<>>)
    BY <1>2 DEF Steps
  <2>2. /\ <<"metadata", "images", "children">> \in Seq(TodoStep)
        /\ <<"scrape">> \in Seq(TodoStep) /\ <<>> \in Seq(TodoStep)
    BY DEF TodoStep, Facet
  <2> QED BY <1>2, <2>1, <2>2
<1>3. CASE m.key[2] # "subtree"
  <2>1. Steps(m) = IF m.key[2] = "metadata" /\ m.option = "remote"
                     THEN <<"scrape">> ELSE <<m.key[2]>>
    BY <1>3 DEF Steps
  <2>2. "scrape" \in TodoStep /\ m.key[2] \in TodoStep
    BY <1>1, <1>3 DEF TodoStep
  <2>3. \A x \in TodoStep : <<x>> \in Seq(TodoStep) /\ <<x>> # <<>>
    OBVIOUS
  <2> QED BY <2>1, <2>2, <2>3
<1> QED BY <1>2, <1>3

\* A step that is done leaves the later ones.
LEMMA TailOf ==
    ASSUME NEW S, NEW s \in Seq(S), s # <<>>
    PROVE  Tail(s) \in Seq(S) /\ \A x : s = <<x>> => Tail(s) = <<>>
<1>1. Tail(s) \in Seq(S) /\ Len(Tail(s)) = Len(s) - 1
  BY HeadTailProperties
<1>2. ASSUME NEW x, s = <<x>>
      PROVE  Tail(s) = <<>>
  <2>1. Len(s) = 1
    BY <1>2
  <2>2. \A t \in Seq(S) : t # <<>> => Len(t) # 0
    BY EmptySeq
  <2>3. Len(Tail(s)) = 0
    BY <1>1, <2>1
  <2> QED BY <1>1, <2>2, <2>3
<1> QED BY <1>1, <1>2

\* Every goroutine stays where its claims allow it to be.
LEMMA PlacesStep ==
    ASSUME TypeOK, Places, Next
    PROVE  Places'
<1>1. CASE FlowStep
  BY <1>1, FlowFrame DEF Places
<1>2. CASE RequestStep
  BY <1>2, RequestFrame DEF Places
<1>3. CASE LifeStep
  BY <1>3 DEF LifeStep, Run, Crash, Spawn, Quit, Places, TypeOK
<1>4. CASE TakeStep
  <2>1. PICK c \in Consumer :
           ClaimTasks(c) \/ ClaimError(c) \/ Wake(c) \/ StartTask(c)
    BY <1>4 DEF TakeStep
  <2>2. CASE ClaimTasks(c)
    BY <2>2 DEF ClaimTasks, ClaimsOn, Places, TypeOK
  <2>3. CASE ClaimError(c) \/ Wake(c)
    BY <2>3 DEF ClaimError, Wake, Places, TypeOK
  <2>4. CASE StartTask(c)
    <3>1. PICK m \in batch[c] :
             /\ batch' = [batch EXCEPT ![c] = @ \ {m}]
             /\ current' = [current EXCEPT ![c] = m]
             /\ todo' = [todo EXCEPT ![c] = Steps(m)]
      BY <2>4 DEF StartTask
    <3>2. m # NoClaim
      BY NothingAssumption DEF TypeOK
    <3> QED BY <2>4, <3>1, <3>2 DEF StartTask, Places, TypeOK
  <2> QED BY <2>1, <2>2, <2>3, <2>4
<1>5. CASE WorkStep
  BY <1>5 DEF WorkStep, ReadSidecar, WriteItem, WriteIgnored, EnqueueChildren,
              HandToScraper, StepError, StepDone, AtStep, Places, TypeOK
<1>6. CASE EndStep
  <2>1. PICK c \in Consumer : EndTask(c)
    BY <1>6 DEF EndStep, Succeed, GiveBack, EndUnrecorded
  <2>2. batch' = batch /\ up' = up
    BY <1>6, EndFrame
  <2>3. pc'[c] \in {"poll", "batch"} /\ (pc'[c] = "poll" => batch[c] = {})
    BY <2>1 DEF EndTask, TypeOK
  <2>4. current'[c] = NoClaim /\ todo'[c] = <<>>
    BY <2>1 DEF EndTask, TypeOK
  <2>5. \A d \in Consumer \ {c} :
           pc'[d] = pc[d] /\ current'[d] = current[d] /\ todo'[d] = todo[d]
    BY <2>1 DEF EndTask, TypeOK
  <2>6. up
    BY <1>6 DEF EndStep, Succeed, GiveBack, EndUnrecorded, Places
  <2> QED BY <2>2, <2>3, <2>4, <2>5, <2>6 DEF Places
<1> QED BY <1>1, <1>2, <1>3, <1>4, <1>5, <1>6, Grouped

\* A plan only gets shorter.
LEMMA PlansStep ==
    ASSUME TypeOK, Places, Plans, Next
    PROVE  Plans'
<1>1. CASE FlowStep
  BY <1>1, FlowFrame DEF Plans
<1>2. CASE RequestStep
  BY <1>2, RequestFrame DEF Plans
<1>3. CASE LifeStep
  BY <1>3 DEF LifeStep, Run, Crash, Spawn, Quit, Plans, TypeOK
<1>4. CASE TakeStep
  <2>1. PICK c \in Consumer :
           ClaimTasks(c) \/ ClaimError(c) \/ Wake(c) \/ StartTask(c)
    BY <1>4 DEF TakeStep
  <2>2. CASE ClaimTasks(c) \/ ClaimError(c) \/ Wake(c)
    BY <2>2 DEF ClaimTasks, ClaimError, Wake, Plans
  <2>3. CASE StartTask(c)
    <3>1. PICK m \in batch[c] :
             /\ current' = [current EXCEPT ![c] = m]
             /\ todo' = [todo EXCEPT ![c] = Steps(m)]
      BY <2>3 DEF StartTask
    <3>2. m \in Claims
      BY DEF TypeOK
    <3> QED BY <3>1, <3>2, PlanOf DEF Plans, TypeOK
  <2> QED BY <2>1, <2>2, <2>3
<1>5. CASE WorkStep
  <2>1. PICK c \in Consumer : todo' = todo \/ (todo[c] # <<>> /\ StepDone(c))
    BY <1>5 DEF WorkStep, ReadSidecar, WriteItem, WriteIgnored, EnqueueChildren,
                HandToScraper, StepError, AtStep
  <2>2. current' = current
    BY <1>5, WorkFrame
  <2>3. \A d \in Consumer : todo'[d] = todo[d] \/ (todo[d] # <<>> /\ todo'[d] = Tail(todo[d]))
    BY <2>1 DEF StepDone, TypeOK
  <2>4. \A d \in Consumer : \A x : todo[d] = <<x>> => Tail(todo[d]) = <<>>
    BY TailOf DEF TypeOK
  <2> QED BY <2>2, <2>3, <2>4 DEF Plans
<1>6. CASE EndStep
  BY <1>6 DEF EndStep, Succeed, GiveBack, EndUnrecorded, EndTask, Plans, TypeOK
<1> QED BY <1>1, <1>2, <1>3, <1>4, <1>5, <1>6, Grouped

-----------------------------------------------------------------------------
(* What executions read and items show.                                    *)

\* A file only changes by being edited.
LEMMA DiskGrows ==
    ASSUME TypeOK, Next
    PROVE  /\ disk' \in [File -> 0..MaxEdits]
           /\ \A f \in File : disk[f] <= disk'[f]
<1>0. disk \in [File -> 0..MaxEdits] /\ MaxEdits \in Nat
  BY SidecarAssumption DEF TypeOK
<1>1. ASSUME NEW f \in File, Edit(f)
      PROVE  /\ disk' \in [File -> 0..MaxEdits]
             /\ \A g \in File : disk[g] <= disk'[g]
  BY <1>0, <1>1 DEF Edit
<1>2. disk' = disk \/ \E f \in File : Edit(f)
  BY Grouped, RequestFrame, TakeFrame, WorkFrame, EndFrame
  DEF FlowStep, OnSidecarChange, FlushDrop, FlushTake, LifeStep, Run, Crash, Spawn, Quit
<1>3. CASE disk' = disk
  BY <1>0, <1>3
<1> QED BY <1>1, <1>2, <1>3

Reading(c) ==
    /\ todo[c] # <<>> /\ Head(todo[c]) \in Facet /\ seen[c] = NoVersion
    /\ seen' = [seen EXCEPT ![c] = disk[Subject(c)]]
    /\ UNCHANGED <<shown, todo, pc, lost>>

Writing(c) ==
    /\ seen[c] # NoVersion
    /\ todo[c] # <<>> /\ Head(todo[c]) \in Facet
    /\ current[c].option # "validate"
    /\ shown' = [shown EXCEPT ![Subject(c)] = seen[c]]
    /\ lost' = IF seen[c] = disk[Subject(c)] THEN lost \ {Subject(c)}
               ELSE IF seen[c] < shown[Subject(c)] THEN lost \cup {Subject(c)}
               ELSE lost
    /\ StepDone(c) /\ UNCHANGED pc

Skipping(c) ==
    /\ todo[c] # <<>>
    /\ StepDone(c)
    /\ \/ Head(todo[c]) \notin Facet /\ UNCHANGED lost
       \/ current[c].option = "validate" /\ UNCHANGED lost
       \/ Head(todo[c]) \in Facet /\ Lose({Subject(c)})
    /\ UNCHANGED <<shown, pc>>

Failing(c) ==
    /\ todo[c] # <<>>
    /\ pc' = [pc EXCEPT ![c] = "failing"]
    /\ UNCHANGED <<shown, todo, seen, lost>>

\* A step of an execution reads, writes, is done without a write, or fails.
LEMMA WorkKinds ==
    ASSUME Places, NEW c \in Consumer,
           \/ ReadSidecar(c) \/ WriteItem(c) \/ WriteIgnored(c)
           \/ EnqueueChildren(c) \/ HandToScraper(c) \/ StepError(c)
    PROVE  /\ current[c] # NoClaim /\ pc[c] = "exec"
           /\ Reading(c) \/ Writing(c) \/ Skipping(c) \/ Failing(c)
<1>1. pc[c] = "exec" /\ current[c] # NoClaim
  BY DEF ReadSidecar, WriteItem, WriteIgnored, EnqueueChildren, HandToScraper,
         StepError, AtStep, Places
<1>2. ReadSidecar(c) => Reading(c)
  BY DEF ReadSidecar, AtStep, Reading
<1>3. WriteItem(c) => Writing(c) \/ Skipping(c)
  BY DEF WriteItem, AtStep, Writing, Skipping
<1>4. WriteIgnored(c) => Skipping(c)
  BY DEF WriteIgnored, AtStep, Skipping, Facet
<1>5. EnqueueChildren(c) => Skipping(c) \/ Failing(c)
  BY DEF EnqueueChildren, AtStep, Skipping, Failing, Facet
<1>6. HandToScraper(c) => Skipping(c)
  BY DEF HandToScraper, AtStep, Skipping, Facet
<1>7. StepError(c) => Failing(c)
  BY DEF StepError, Failing
<1> QED BY <1>1, <1>2, <1>3, <1>4, <1>5, <1>6, <1>7

\* What is read is what is on disk, and it is written or given up before the plan
\* goes on.
LEMMA ReadsStep ==
    ASSUME TypeOK, Places, Plans, Reads, Next
    PROVE  Reads'
<1>1. /\ disk' \in [File -> 0..MaxEdits] /\ \A f \in File : disk[f] <= disk'[f]
      /\ disk \in [File -> 0..MaxEdits] /\ MaxEdits \in Nat
  BY DiskGrows, SidecarAssumption DEF TypeOK
<1>2. \A d \in Consumer : seen[d] # NoVersion =>
           /\ seen[d] \in 0..MaxEdits /\ current[d] # NoClaim
           /\ todo[d] # <<>> /\ Head(todo[d]) \in Facet
           /\ seen[d] <= disk[Subject(d)] /\ Subject(d) \in File
  BY SubjectFile DEF TypeOK, Reads, Places
<1>3. ASSUME NEW d \in Consumer,
             seen'[d] = NoVersion \/
               (seen'[d] = seen[d] /\ todo'[d] = todo[d] /\ current'[d] = current[d])
      PROVE  seen'[d] # NoVersion =>
               /\ todo'[d] # <<>> /\ Head(todo'[d]) \in Facet
               /\ seen'[d] <= disk'[Subject(d)']
  <2>1. CASE seen'[d] # NoVersion
    <3>1. Subject(d)' = Subject(d)
      BY <1>3, <2>1 DEF Subject
    <3>2. seen[d] <= disk'[Subject(d)]
      BY <1>1, <1>2, <1>3, <2>1
    <3> QED BY <1>2, <1>3, <2>1, <3>1, <3>2
  <2> QED BY <2>1
<1>4. CASE FlowStep \/ RequestStep
  BY <1>3, <1>4, FlowFrame, RequestFrame DEF Reads
<1>5. CASE LifeStep
  BY <1>3, <1>5 DEF LifeStep, Run, Crash, Spawn, Quit, Reads
<1>6. CASE TakeStep
  <2>1. PICK c \in Consumer :
           ClaimTasks(c) \/ ClaimError(c) \/ Wake(c) \/ StartTask(c)
    BY <1>6 DEF TakeStep
  <2>2. CASE ClaimTasks(c) \/ ClaimError(c) \/ Wake(c)
    BY <1>3, <2>2 DEF ClaimTasks, ClaimError, Wake, Reads
  <2>3. CASE StartTask(c)
    <3>1. seen[c] = NoVersion
      BY <1>2, <2>3 DEF StartTask, Places
    <3>2. \A d \in Consumer : d # c => todo'[d] = todo[d] /\ current'[d] = current[d]
      BY <2>3 DEF StartTask, TypeOK
    <3>3. seen' = seen
      BY <2>3 DEF StartTask
    <3> QED BY <1>3, <3>1, <3>2, <3>3 DEF Reads
  <2> QED BY <2>1, <2>2, <2>3
<1>7. CASE WorkStep
  <2>1. PICK c \in Consumer :
           \/ ReadSidecar(c) \/ WriteItem(c) \/ WriteIgnored(c)
           \/ EnqueueChildren(c) \/ HandToScraper(c) \/ StepError(c)
    BY <1>7 DEF WorkStep
  <2>2. disk' = disk /\ current' = current
    BY <1>7, WorkFrame
  <2>3. CASE Reading(c)
    <3>1. \A d \in Consumer : d # c => seen'[d] = seen[d] /\ todo'[d] = todo[d]
      BY <2>3 DEF Reading, TypeOK
    <3>2. Subject(c)' = Subject(c) /\ Subject(c) \in File
      BY <2>1, <2>2, <2>3, SubjectFile, WorkKinds DEF Reading, Subject
    <3>3. /\ todo'[c] # <<>> /\ Head(todo'[c]) \in Facet
          /\ seen'[c] <= disk'[Subject(c)']
      BY <1>1, <2>2, <2>3, <3>2 DEF Reading, TypeOK
    <3> QED BY <1>3, <2>2, <3>1, <3>3 DEF Reads
  <2>4. CASE Writing(c) \/ Skipping(c)
    <3>1. seen'[c] = NoVersion
      BY <2>4 DEF Writing, Skipping, StepDone, TypeOK
    <3>2. \A d \in Consumer : d # c => seen'[d] = seen[d] /\ todo'[d] = todo[d]
      BY <2>4 DEF Writing, Skipping, StepDone, TypeOK
    <3> QED BY <1>3, <2>2, <3>1, <3>2 DEF Reads
  <2>5. CASE Failing(c)
    BY <1>3, <2>2, <2>5 DEF Failing, Reads
  <2> QED BY <2>1, <2>3, <2>4, <2>5, WorkKinds
<1>8. CASE EndStep
  <2>1. PICK c \in Consumer : EndTask(c)
    BY <1>8 DEF EndStep, Succeed, GiveBack, EndUnrecorded
  <2>2. seen'[c] = NoVersion
    BY <2>1 DEF EndTask, TypeOK
  <2>3. \A d \in Consumer : d # c =>
           seen'[d] = seen[d] /\ todo'[d] = todo[d] /\ current'[d] = current[d]
    BY <2>1 DEF EndTask, TypeOK
  <2> QED BY <1>3, <2>2, <2>3 DEF Reads
<1> QED BY <1>4, <1>5, <1>6, <1>7, <1>8, Grouped

\* Only a step that writes changes what items show.
LEMMA ShownSteps ==
    ASSUME Places, Next
    PROVE  shown' = shown \/ \E c \in Consumer : current[c] # NoClaim /\ Writing(c)
<1>1. CASE WorkStep
  BY <1>1, WorkKinds DEF WorkStep, Reading, Skipping, Failing
<1>2. CASE LifeStep
  BY <1>2 DEF LifeStep, Run, Crash, Spawn, Quit
<1> QED BY <1>1, <1>2, Grouped, FlowFrame, RequestFrame, TakeFrame, EndFrame

\* Items show versions that their files have had.
LEMMA BehindStep ==
    ASSUME TypeOK, Places, Plans, Reads, Behind, Next
    PROVE  shown' \in [File -> 0..MaxEdits] /\ Behind'
<1>1. /\ disk' \in [File -> 0..MaxEdits] /\ \A f \in File : disk[f] <= disk'[f]
      /\ disk \in [File -> 0..MaxEdits] /\ MaxEdits \in Nat
      /\ shown \in [File -> 0..MaxEdits]
  BY DiskGrows, SidecarAssumption DEF TypeOK
<1>2. CASE shown' = shown
  BY <1>1, <1>2 DEF Behind
<1>3. ASSUME NEW c \in Consumer, current[c] # NoClaim, Writing(c)
      PROVE  shown' \in [File -> 0..MaxEdits] /\ Behind'
  <2>1. Subject(c) \in File
    BY <1>3, SubjectFile DEF Writing
  <2>2. seen[c] \in 0..MaxEdits /\ seen[c] <= disk[Subject(c)]
    BY <1>3 DEF Writing, Reads, TypeOK
  <2>3. shown' = [shown EXCEPT ![Subject(c)] = seen[c]]
    BY <1>3 DEF Writing
  <2> QED BY <1>1, <2>1, <2>2, <2>3 DEF Behind
<1> QED BY <1>2, <1>3, ShownSteps

\* An execution that goes on keeps what it has read and what it is about.
LEMMA SeenSteps ==
    ASSUME TypeOK, Places, Reads, Next, NEW d \in Consumer
    PROVE  \/ seen'[d] = NoVersion
           \/ seen'[d] = seen[d] /\ current'[d] = current[d] /\ todo'[d] = todo[d]
           \/ Reading(d) /\ current[d] # NoClaim /\ current'[d] = current[d]
<1>1. CASE FlowStep \/ RequestStep
  BY <1>1, FlowFrame, RequestFrame
<1>2. CASE LifeStep
  BY <1>2 DEF LifeStep, Run, Crash, Spawn, Quit
<1>3. CASE TakeStep
  BY <1>3 DEF TakeStep, ClaimTasks, ClaimError, Wake, StartTask, TypeOK, Reads, Places
<1>4. CASE WorkStep
  <2>1. PICK c \in Consumer :
           /\ current[c] # NoClaim
           /\ Reading(c) \/ Writing(c) \/ Skipping(c) \/ Failing(c)
    BY <1>4, WorkKinds DEF WorkStep
  <2>2. current' = current
    BY <1>4, WorkFrame
  <2> QED BY <2>1, <2>2 DEF Reading, Writing, Skipping, Failing, StepDone, TypeOK
<1>5. CASE EndStep
  BY <1>5 DEF EndStep, Succeed, GiveBack, EndUnrecorded, EndTask, TypeOK
<1> QED BY <1>1, <1>2, <1>3, <1>4, <1>5, Grouped

\* Who writes a file that another execution is about shares it as a subtree does.
LEMMA WriterOf ==
    ASSUME TypeOK, Plans, Exclusive,
           NEW c \in Consumer, current[c] # NoClaim, Writing(c),
           NEW d \in Consumer, current[d] # NoClaim, Subject(c) = current[d].key
    PROVE  c = d \/ <<Subject(c)[1], "subtree">> \in Key
<1>1. CASE current[c].key \in File
  BY <1>1, SubjectFile, OneExecutes DEF Writing
<1>2. CASE current[c].key \notin File
  BY <1>2, SubjectFile, TaskTypes DEF Writing
<1> QED BY <1>1, <1>2

\* Nobody overtakes the execution of a file's own row.
LEMMA AheadStep ==
    ASSUME TypeOK, Places, Plans, Reads, Behind, Exclusive, Ahead, Next
    PROVE  Ahead'
<1> SUFFICES ASSUME NEW d \in Consumer,
                    seen'[d] # NoVersion, current'[d].key \in File,
                    <<current'[d].key[1], "subtree">> \notin Key
             PROVE  shown'[current'[d].key] <= seen'[d]
  BY DEF Ahead
<1>1. CASE Reading(d) /\ current[d] # NoClaim /\ current'[d] = current[d]
  <2>1. Subject(d) = current[d].key
    BY <1>1, SubjectFile DEF Reading
  <2>2. seen'[d] = disk[Subject(d)] /\ shown' = shown
    BY <1>1 DEF Reading, TypeOK
  <2> QED BY <1>1, <2>1, <2>2 DEF Behind
<1>2. CASE seen'[d] = seen[d] /\ current'[d] = current[d] /\ todo'[d] = todo[d]
  <2>1. shown[current[d].key] <= seen[d]
    BY <1>2 DEF Ahead
  <2>2. current[d] # NoClaim /\ todo'[d] # <<>>
    BY <1>2 DEF Reads, Places
  <2>3. ASSUME NEW c \in Consumer, current[c] # NoClaim, Writing(c),
               Subject(c) = current[d].key
        PROVE  FALSE
    <3>1. c = d
      BY <1>2, <2>2, <2>3, WriterOf
    <3>2. seen'[c] = NoVersion
      BY <2>3 DEF Writing, StepDone, TypeOK
    <3> QED BY <3>1, <3>2
  <2>4. shown'[current[d].key] = shown[current[d].key]
    <3>1. CASE shown' = shown
      BY <3>1
    <3>2. ASSUME NEW c \in Consumer, current[c] # NoClaim, Writing(c)
          PROVE  shown'[current[d].key] = shown[current[d].key]
      <4>1. shown' = [shown EXCEPT ![Subject(c)] = seen[c]]
        BY <3>2 DEF Writing
      <4>2. Subject(c) # current[d].key
        BY <2>3, <3>2
      <4> QED BY <1>2, <4>1, <4>2 DEF TypeOK
    <3> QED BY <3>1, <3>2, ShownSteps
  <2> QED BY <1>2, <2>1, <2>4
<1> QED BY <1>1, <1>2, SeenSteps

\* What goes back is written for a subtree, or beside one.
LEMMA NeverBackStep ==
    ASSUME TypeOK, Places, Plans, Ahead, Next, NEW f \in File, shown'[f] < shown[f]
    PROVE  <<f[1], "subtree">> \in Key
<1>1. shown[f] \in Nat
  BY SidecarAssumption DEF TypeOK
<1>2. PICK c \in Consumer : current[c] # NoClaim /\ Writing(c)
  BY <1>1, ShownSteps
<1>3. Subject(c) \in File /\ shown' = [shown EXCEPT ![Subject(c)] = seen[c]]
  BY <1>2, SubjectFile DEF Writing
<1>4. f = Subject(c) /\ seen[c] < shown[f]
  BY <1>1, <1>3 DEF TypeOK
<1>5. CASE current[c].key \in File
  <2>1. f = current[c].key /\ seen[c] # NoVersion
    BY <1>2, <1>4, <1>5, SubjectFile DEF Writing
  <2>2. seen[c] \in Nat
    BY <2>1, SidecarAssumption DEF TypeOK
  <2> QED BY <1>1, <1>4, <2>1, <2>2 DEF Ahead
<1>6. CASE current[c].key \notin File
  BY <1>2, <1>4, <1>6, SubjectFile, TaskTypes DEF Writing
<1> QED BY <1>5, <1>6

-----------------------------------------------------------------------------
(* Changes on their way to the table.                                      *)

\* Each change counted once: an event, a path in the map or a flush in progress.
LEMMA ArrivalsStep ==
    ASSUME TypeOK, Arrivals, Next
    PROVE  /\ Arrivals'
           /\ flight' \in [File -> 0..MaxEdits]
           /\ entry' \in [Dir -> SUBSET File]
           /\ events' \subseteq File
<1> DEFINE Goal == /\ Arrivals'
                   /\ flight' \in [File -> 0..MaxEdits]
                   /\ entry' \in [Dir -> SUBSET File]
                   /\ events' \subseteq File
<1>0. /\ MaxEdits \in Nat /\ disk \in [File -> 0..MaxEdits]
      /\ flight \in [File -> 0..MaxEdits] /\ entry \in [Dir -> SUBSET File]
      /\ events \subseteq File
      /\ \A f \in File : DirOf[f[1]] \in Dir
  BY SidecarAssumption DEF TypeOK, Dir, File
<1>1. UNCHANGED <<disk, flight, entry, events>> => Goal
  BY <1>0 DEF Arrivals
<1>2. ASSUME NEW f \in File, Edit(f)
      PROVE  Goal
  BY <1>0, <1>2 DEF Edit, Arrivals, One
<1>3. ASSUME NEW f \in File, OnSidecarChange(f)
      PROVE  Goal
  BY <1>0, <1>3 DEF OnSidecarChange, Arrivals, One
<1>4. ASSUME NEW d \in Dir, FlushTake(d)
      PROVE  Goal
  <2>1. /\ entry' = [entry EXCEPT ![d] = {}] /\ disk' = disk /\ events' = events
        /\ flight' = [f \in File |-> flight[f] + One(f \in entry[d])]
    BY <1>4 DEF FlushTake, One
  <2>2. \A f \in File : f \in entry[d] => d = DirOf[f[1]]
    BY DEF Arrivals
  <2>3. \A f \in File :
           flight'[f] + One(f \in events) + One(f \in entry'[DirOf[f[1]]]) <= disk[f]
    BY <1>0, <2>1, <2>2 DEF Arrivals, One
  <2> QED BY <1>0, <2>1, <2>3 DEF Arrivals, One
<1>5. ASSUME NEW f \in File, FlushEnqueue(f) \/ FlushDrop(f)
      PROVE  Goal
  <2>1. /\ flight[f] > 0 /\ flight' = [flight EXCEPT ![f] = flight[f] - 1]
        /\ UNCHANGED <<disk, events, entry>>
    BY <1>5 DEF FlushEnqueue, FlushDrop
  <2> QED BY <1>0, <2>1 DEF Arrivals, One
<1>6. CASE Crash
  BY <1>0, <1>6 DEF Crash, Arrivals, One
<1>7. CASE FlowStep
  BY <1>2, <1>3, <1>4, <1>5, <1>7 DEF FlowStep
<1>8. CASE RequestStep
  BY <1>1, <1>5, <1>8 DEF RequestStep, RefreshItem, AdminRetry, PruneTicker, TimePasses,
                         StaleTicker, scheduler
<1>9. CASE LifeStep
  BY <1>1, <1>6, <1>9 DEF LifeStep, Run, Spawn, Quit, scheduler
<1>10. TakeStep \/ WorkStep \/ EndStep => UNCHANGED <<disk, flight, entry, events>>
  BY TakeFrame, WorkFrame, EndFrame
<1> QED BY <1>1, <1>7, <1>8, <1>9, <1>10, Grouped

-----------------------------------------------------------------------------
(* Claims and their rows.                                                  *)

\* Who lets go of claims, and leaves the rows of the others, keeps them exclusive.
LEMMA LettingGo ==
    ASSUME TypeOK, Exclusive,
           \A c \in Consumer :
               /\ Tasks(c)' \subseteq Tasks(c)
               /\ current'[c] \notin batch'[c]
               /\ \A m \in Tasks(c)' :
                     /\ row'[m.key].status = "running"
                     /\ row'[m.key].retry = row[m.key].retry
    PROVE  Exclusive'
BY DEF Exclusive

\* No request and no ticker touches a row that is held, but for its option.
LEMMA RequestSpares ==
    ASSUME TypeOK, Exclusive, RequestStep, NEW c \in Consumer, NEW m \in Tasks(c)
    PROVE  row'[m.key].status = "running" /\ row'[m.key].retry = row[m.key].retry
<1>1. m.key \in Key /\ row[m.key].status = "running" /\ row[m.key] \in Row
  BY TaskTypes DEF Exclusive, TypeOK
<1>2. Held(m.key)
  BY <1>1, HoldsIsTasks DEF Held
<1>3. Spared(m.key)
  BY <1>1, RequestMoves
<1> QED BY <1>1, <1>2, <1>3
        DEF Spared, Puts, Upserted, Repeats, Vanishes, Ripens, Frees, Row

\* A claim takes rows that nobody holds.
LEMMA ClaimExclusive ==
    ASSUME TypeOK, Places, Exclusive, NEW c \in Consumer, ClaimTasks(c)
    PROVE  Exclusive'
<1>1. PICK S \in SUBSET Due : Claim(S) /\ batch' = [batch EXCEPT ![c] = ClaimsOn(S)]
  BY DEF ClaimTasks
<1>2. S \subseteq Key /\ \A k \in S : row[k].status = "pending" /\ row[k] \in Row
  BY DEF Due, InStatus, TypeOK
<1>3. current' = current /\ current[c] = NoClaim
  BY DEF ClaimTasks, Places
<1>4. \A d \in Consumer : d # c => Tasks(d)' = Tasks(d)
  BY <1>1, <1>3 DEF Tasks, TypeOK
<1>5. Tasks(c)' = ClaimsOn(S)
  BY <1>1, <1>3 DEF Tasks, TypeOK
<1>6. \A k \in Key : row'[k] = IF k \in S THEN [row[k] EXCEPT !.status = "running"]
                                          ELSE row[k]
  BY <1>1 DEF Claim, Rewrite
<1>7. \A m \in ClaimsOn(S) :
         /\ m.key \in S /\ m.retry = row[m.key].retry
         /\ row'[m.key].status = "running" /\ row'[m.key].retry = row[m.key].retry
  <2>1. ASSUME NEW k \in S
        PROVE  row'[k].status = "running" /\ row'[k].retry = row[k].retry
    BY <1>2, <1>6, <2>1 DEF Row
  <2> QED BY <2>1 DEF ClaimsOn
<1>8. \A m, n \in ClaimsOn(S) : m.key = n.key => m = n
  BY DEF ClaimsOn
<1>9. \A d \in Consumer : d # c => \A m \in Tasks(d) :
         m.key \in Key \ S /\ row'[m.key] = row[m.key]
  BY <1>2, <1>6, TaskTypes DEF Exclusive
<1>10. \A d \in Consumer : current'[d] \notin batch'[d]
  <2>1. NoClaim \notin ClaimsOn(S)
    <3>1. ClaimsOn(S) \subseteq Claims
      BY <1>2 DEF ClaimsOn, Claims, Row
    <3> QED BY <3>1, NothingAssumption
  <2> QED BY <1>1, <1>3, <2>1 DEF Exclusive, TypeOK
<1> QED BY <1>4, <1>5, <1>7, <1>8, <1>9, <1>10 DEF Exclusive

\* Starting a task of the batch makes it the one that is executed.
LEMMA StartExclusive ==
    ASSUME TypeOK, Places, Exclusive, NEW c \in Consumer, StartTask(c)
    PROVE  Exclusive'
<1>1. PICK m \in batch[c] :
         /\ batch' = [batch EXCEPT ![c] = batch[c] \ {m}]
         /\ current' = [current EXCEPT ![c] = m]
  BY DEF StartTask
<1>2. /\ batch'[c] = batch[c] \ {m} /\ current'[c] = m
      /\ \A d \in Consumer : d # c => batch'[d] = batch[d] /\ current'[d] = current[d]
      /\ row' = row
  BY <1>1 DEF StartTask, TypeOK
<1>3. Tasks(c)' \subseteq Tasks(c)
  BY <1>2 DEF Tasks
<1>4. \A d \in Consumer : d # c => Tasks(d)' = Tasks(d)
  BY <1>2 DEF Tasks
<1>5. \A d \in Consumer : current'[d] \notin batch'[d]
  BY <1>2 DEF Exclusive
<1> QED BY <1>2, <1>3, <1>4, <1>5, LettingGo DEF Exclusive

\* The end of an execution writes its own row only.
LEMMA EndExclusive ==
    ASSUME TypeOK, Places, Exclusive, EndStep
    PROVE  Exclusive'
<1>1. PICK c \in Consumer : Succeed(c) \/ GiveBack(c) \/ EndUnrecorded(c)
  BY DEF EndStep
<1>2. current[c] # NoClaim /\ EndTask(c)
  BY <1>1 DEF Succeed, GiveBack, EndUnrecorded, Places
<1>3. \A k \in Key : k # current[c].key => row'[k] = row[k]
  BY <1>1 DEF Succeed, GiveBack, EndUnrecorded, Done, Fail, Rewrite
<1>4. /\ batch' = batch /\ current'[c] = NoClaim
      /\ \A d \in Consumer : d # c => current'[d] = current[d]
  BY <1>2 DEF EndTask, TypeOK
<1>5. Tasks(c)' = batch[c]
  BY <1>4 DEF Tasks
<1>6. \A d \in Consumer : d # c => Tasks(d)' = Tasks(d)
  BY <1>4 DEF Tasks
<1>7. \A d \in Consumer : \A m \in Tasks(d)' : m \in Tasks(d) /\ m.key # current[c].key
  BY <1>2, <1>5, <1>6, OnlyCurrent, TaskTypes DEF Exclusive
<1>8. \A d \in Consumer : \A m \in Tasks(d)' :
         row'[m.key].status = "running" /\ row'[m.key].retry = row[m.key].retry
  BY <1>3, <1>7, TaskTypes DEF Exclusive
<1>9. \A d \in Consumer : current'[d] \notin batch'[d]
  BY <1>4, NothingAssumption DEF Exclusive, TypeOK
<1> QED BY <1>7, <1>8, <1>9, LettingGo

\* No step lets two executions have the same row.
LEMMA ExclusiveStep ==
    ASSUME TypeOK, Places, Exclusive, Next
    PROVE  Exclusive'
<1>1. ASSUME UNCHANGED <<batch, current>>,
             \A c \in Consumer : \A m \in Tasks(c) :
                 row'[m.key].status = "running" /\ row'[m.key].retry = row[m.key].retry
      PROVE  Exclusive'
  <2>1. \A c \in Consumer : Tasks(c)' = Tasks(c)
    BY <1>1 DEF Tasks
  <2> QED BY <1>1, <2>1, LettingGo DEF Exclusive
<1>2. UNCHANGED <<row, batch, current>> => Exclusive'
  BY <1>1 DEF Exclusive
<1>3. CASE RequestStep
  BY <1>1, <1>3, RequestFrame, RequestSpares
<1>4. CASE LifeStep
  <2>1. ASSUME \A c \in Consumer : Tasks(c)' = {} /\ batch'[c] = {}
        PROVE  Exclusive'
    BY <2>1, LettingGo
  <2>2. ASSUME NEW n \in 1..WorkerMax, Run(n)
        PROVE  Exclusive'
    BY <2>1, <2>2 DEF Run, Tasks, Places
  <2>3. CASE Crash
    BY <2>1, <2>3 DEF Crash, Tasks
  <2>4. ASSUME NEW c \in Consumer, Quit(c)
        PROVE  Exclusive'
    <3>1. /\ row' = row /\ current' = current /\ batch'[c] = {}
          /\ \A d \in Consumer : d # c => batch'[d] = batch[d]
      BY <2>4 DEF Quit, TypeOK
    <3>2. \A d \in Consumer :
             Tasks(d)' \subseteq Tasks(d) /\ current'[d] \notin batch'[d]
      BY <3>1 DEF Tasks, Exclusive
    <3> QED BY <3>1, <3>2, LettingGo DEF Exclusive
  <2>5. ASSUME NEW c \in Consumer, Spawn(c)
        PROVE  Exclusive'
    BY <1>2, <2>5 DEF Spawn
  <2> QED BY <1>4, <2>2, <2>3, <2>4, <2>5 DEF LifeStep
<1>5. CASE TakeStep
  <2>1. ASSUME NEW c \in Consumer, ClaimError(c)
        PROVE  Exclusive'
    <3>1. PICK S \in SUBSET Due : Claim(S) \/ UNCHANGED row
      BY <2>1 DEF ClaimError
    <3>2. UNCHANGED <<batch, current>>
      BY <2>1 DEF ClaimError
    <3>3. \A k \in Key : row[k].status = "running" => row'[k] = row[k]
      BY <3>1 DEF Claim, Due, InStatus, Rewrite
    <3> QED BY <1>1, <3>2, <3>3, TaskTypes DEF Exclusive
  <2>2. ASSUME NEW c \in Consumer, Wake(c)
        PROVE  Exclusive'
    BY <1>2, <2>2 DEF Wake
  <2> QED BY <1>5, <2>1, <2>2, ClaimExclusive, StartExclusive DEF TakeStep
<1> QED BY <1>2, <1>3, <1>4, <1>5, Grouped, FlowFrame, WorkFrame, EndExclusive

-----------------------------------------------------------------------------
(* Changes accounted for.                                                  *)

\* A change that is on its way, lost, or stands in the table.
Counted(f) == shown[f] # disk[f] => Announced(f) \/ f \in lost \/ Standing(f)

\* What nothing happens to stays accounted for.
LEMMA CountedStays ==
    ASSUME NEW f \in File, Counted(f), f \in lost => f \in lost',
           UNCHANGED <<shown, disk>>,
           Announced(f) => Announced(f)' \/ f \in lost' \/ Standing(f)',
           Standing(f) => Standing(f)' \/ f \in lost'
    PROVE  Counted(f)'
BY DEF Counted

\* What Standing depends on.
LEMMA StandingSame ==
    ASSUME NEW f \in File, UNCHANGED <<row, disk, pc, batch, current, todo, seen>>
    PROVE  Standing(f)' = Standing(f)
BY DEF Standing, Held, Holds, Served, WillRead, Executing

\* A row that changes nothing but its option, to the one that reads the file.
LEMMA StandingRow ==
    ASSUME NEW f \in File, row[f] \in Row, UNCHANGED <<disk, pc, batch, current, todo, seen>>,
           row'[f].status = row[f].status, row'[f].option = row[f].option
    PROVE  Standing(f)' = Standing(f)
BY DEF Standing, Held, Holds, Served, WillRead, Executing

\* Events, timers and flushes that give up keep every change accounted for.
LEMMA FlowCounted ==
    ASSUME TypeOK, Arrivals, Behind, Accounted, FlowStep, NEW f \in File
    PROVE  Counted(f)'
<1>1. /\ MaxEdits \in Nat /\ disk \in [File -> 0..MaxEdits]
      /\ shown \in [File -> 0..MaxEdits] /\ Counted(f)
      /\ flight \in [File -> 0..MaxEdits] /\ entry \in [Dir -> SUBSET File]
      /\ \A g \in File : DirOf[g[1]] \in Dir
  BY SidecarAssumption DEF TypeOK, Accounted, Counted, Dir, File
<1>2. disk' = disk => Standing(f)' = Standing(f)
  BY FlowFrame, StandingSame
<1>3. ASSUME NEW g \in File, Edit(g)
      PROVE  Counted(f)'
  <2>1. CASE f = g
    BY <1>3, <2>1 DEF Edit, Counted, Announced
  <2>2. CASE f # g
    <3>1. /\ shown' = shown /\ disk'[f] = disk[f]
          /\ Announced(f) => Announced(f)'
          /\ f \in lost => f \in lost'
      BY <1>1, <1>3, <2>2 DEF Edit, Announced
    <3>2. Standing(f) => Standing(f)'
      BY <1>3, <3>1 DEF Edit, worker, Standing, Held, Holds, Served, WillRead, Executing
    <3> QED BY <1>1, <3>1, <3>2 DEF Counted
  <2> QED BY <2>1, <2>2
<1>4. ASSUME NEW g \in File, OnSidecarChange(g)
      PROVE  Counted(f)'
  <2>1. Announced(f) => Announced(f)'
    BY <1>1, <1>4 DEF OnSidecarChange, Announced
  <2>2. UNCHANGED <<shown, disk, lost>>
    BY <1>4 DEF OnSidecarChange
  <2> QED BY <1>1, <1>2, <2>1, <2>2, CountedStays
<1>5. ASSUME NEW g \in File, FlushDrop(g)
      PROVE  Counted(f)'
  <2>1. UNCHANGED <<shown, disk, events, entry>>
    BY <1>5 DEF FlushDrop
  <2>2. lost' = lost \cup {h \in {g} : shown[h] # disk[h]}
    BY <1>5 DEF FlushDrop, Lose
  <2>3. f # g => (Announced(f) => Announced(f)')
    BY <1>1, <1>5, <2>1 DEF FlushDrop, Announced
  <2> QED BY <1>1, <1>2, <2>1, <2>2, <2>3 DEF Counted
<1>6. ASSUME NEW d \in Dir, FlushTake(d)
      PROVE  Counted(f)'
  <2>1. UNCHANGED <<shown, disk, lost, events>>
    BY <1>6 DEF FlushTake
  <2>2. entry' = [entry EXCEPT ![d] = {}] /\ flight'[f] = flight[f] + One(f \in entry[d])
    BY <1>6 DEF FlushTake, One
  <2>3. Announced(f) => Announced(f)'
    BY <1>1, <2>1, <2>2 DEF Announced, One
  <2> QED BY <1>1, <1>2, <2>1, <2>3, CountedStays
<1> QED BY <1>3, <1>4, <1>5, <1>6 DEF FlowStep

\* A row that absorbs a request reads the file again, or the change is lost.
LEMMA EnqueueCounted ==
    ASSUME TypeOK, Behind, Accounted, NEW g \in File, FlushEnqueue(g), NEW f \in File
    PROVE  Counted(f)'
<1>1. /\ flight \in [File -> 0..MaxEdits] /\ MaxEdits \in Nat /\ Counted(f)
      /\ f \in Key /\ g \in Key /\ row[f] \in Row
  BY SidecarAssumption DEF TypeOK, Accounted, Counted, File
<1>2. UNCHANGED <<disk, shown, events, entry, pc, batch, current, todo, seen>>
  BY DEF FlushEnqueue, worker
<1>3. lost \subseteq lost'
  BY DEF FlushEnqueue, Lose
<1>4. CASE f # g
  <2>1. row'[f] = row[f]
    BY <1>1, <1>4 DEF FlushEnqueue, Enqueue, Rewrite
  <2>2. Announced(f) => Announced(f)'
    BY <1>1, <1>2, <1>4 DEF FlushEnqueue, Announced
  <2> QED BY <1>1, <1>2, <1>3, <2>1, <2>2, StandingRow, CountedStays
<1>5. CASE f = g
  <2>1. row'[f] = Upserted(row[f], "local")
    BY <1>1, <1>5 DEF FlushEnqueue, Enqueue, Rewrite
  <2>2. CASE row[f].status # "running"
    BY <1>1, <2>1, <2>2 DEF Upserted, Fresh, Row, Status, Standing, Counted
  <2>3. CASE row[f].status = "running"
    <3>1. row'[f].status = "running" /\ row'[f].option = "local"
      BY <1>1, <2>1, <2>3 DEF Upserted, Row
    <3>2. /\ Held(f)' = Held(f) /\ WillRead(f)' = WillRead(f)
      BY <1>2 DEF Held, Holds, WillRead, Executing
    <3>3. CASE Held(f) => WillRead(f)
      BY <3>1, <3>2, <3>3 DEF Standing, Served, Counted
    <3>4. CASE Held(f) /\ ~WillRead(f)
      BY <1>2, <1>5, <2>3, <3>4 DEF FlushEnqueue, Lose, Counted
    <3> QED BY <3>3, <3>4
  <2> QED BY <2>2, <2>3
<1> QED BY <1>4, <1>5

\* Options that replace those of an active row lose the change.
LEMMA RefreshCounted ==
    ASSUME TypeOK, Accounted, NEW k \in Asked, NEW o \in Option, RefreshItem(k, o),
           NEW f \in File
    PROVE  Counted(f)'
<1>1. f \in Key /\ row[f] \in Row /\ Counted(f)
  BY DEF TypeOK, Accounted, Counted, File
<1>2. UNCHANGED <<disk, shown, events, entry, flight, pc, batch, current, todo, seen>>
  BY DEF RefreshItem, worker, scheduler
<1>3. lost \subseteq lost' /\ Announced(f)' = Announced(f)
  BY <1>2 DEF RefreshItem, Lose, Announced
<1>4. CASE f # k
  <2>1. row'[f] = row[f]
    BY <1>1, <1>4 DEF RefreshItem, Enqueue, Rewrite
  <2> QED BY <1>1, <1>2, <1>3, <2>1, StandingRow, CountedStays
<1>5. CASE f = k
  <2>1. row'[f] = Upserted(row[f], o)
    BY <1>1, <1>5 DEF RefreshItem, Enqueue, Rewrite
  <2>2. CASE ~Standing(f)
    BY <1>1, <1>2, <1>3, <2>2 DEF Counted
  <2>3. CASE Standing(f) /\ o # "local"
    BY <1>2, <1>5, <2>3 DEF Standing, RefreshItem, Lose, Counted
  <2>4. CASE Standing(f) /\ o = "local"
    <3>1. CASE row[f].status = "failed"
      BY <2>1, <2>4, <3>1 DEF Upserted, Fresh, Standing, Counted
    <3>2. CASE row[f].status # "failed"
      <4>1. row'[f].status = row[f].status /\ row'[f].option = row[f].option
        BY <1>1, <2>1, <2>4, <3>2 DEF Standing, Upserted, Row
      <4> QED BY <1>1, <1>2, <2>4, <4>1, StandingRow DEF Counted
    <3> QED BY <3>1, <3>2
  <2> QED BY <2>2, <2>3, <2>4
<1> QED BY <1>4, <1>5

\* Requests and tickers keep every change accounted for.
LEMMA RequestCounted ==
    ASSUME TypeOK, Behind, Accounted, RequestStep, NEW f \in File
    PROVE  Counted(f)'
<1>1. f \in Key /\ row[f] \in Row /\ Counted(f)
  BY DEF TypeOK, Accounted, Counted, File
<1>2. UNCHANGED <<disk, shown, events, entry, pc, batch, current, todo, seen>>
  BY RequestFrame
<1>3. ASSUME Standing(f) => Standing(f)', UNCHANGED <<flight, lost>>
      PROVE  Counted(f)'
  <2>1. Announced(f)' = Announced(f)
    BY <1>2, <1>3 DEF Announced
  <2> QED BY <1>1, <1>2, <1>3, <2>1, CountedStays
<1>4. row'[f].status = row[f].status /\ row'[f].option = row[f].option =>
        Standing(f)' = Standing(f)
  BY <1>1, <1>2, StandingRow
<1>5. ASSUME NEW S, AdminRetry(S)
      PROVE  Counted(f)'
  <2>1. row'[f] = row[f] \/ (row[f].status = "failed" /\ row'[f] = Retried(row[f]))
    BY <1>1, <1>5 DEF AdminRetry, Retry, InStatus, Rewrite
  <2>2. Standing(f) => Standing(f)'
    BY <1>1, <1>4, <2>1, RetriedType DEF Standing
  <2> QED BY <1>3, <1>5, <2>2 DEF AdminRetry, scheduler
<1>6. ASSUME NEW k \in Key, PruneTicker(k)
      PROVE  Counted(f)'
  <2>1. row'[f] = row[f] \/ row[f].status = "done"
    BY <1>1, <1>6 DEF PruneTicker, PruneDone, InStatus, Rewrite
  <2>2. Standing(f) => Standing(f)'
    BY <1>4, <2>1 DEF Standing
  <2> QED BY <1>3, <1>6, <2>2 DEF PruneTicker, scheduler
<1>7. ASSUME NEW k \in Key, TimePasses(k)
      PROVE  Counted(f)'
  <2>1. row'[f].status = row[f].status /\ row'[f].option = row[f].option
    BY <1>1, <1>7 DEF TimePasses, BackoffEnds, Rewrite, Row
  <2> QED BY <1>3, <1>4, <1>7, <2>1 DEF TimePasses, scheduler
<1>8. ASSUME NEW k \in Key, StaleTicker(k)
      PROVE  Counted(f)'
  <2>1. row'[f] = row[f] \/ row'[f] = [row[f] EXCEPT !.status = "pending"]
    BY <1>1, <1>8 DEF StaleTicker, Reset, Rewrite
  <2>2. Standing(f) => Standing(f)'
    BY <1>1, <1>4, <2>1 DEF Standing, Row
  <2> QED BY <1>3, <1>8, <2>2 DEF StaleTicker, scheduler
<1> QED BY <1>5, <1>6, <1>7, <1>8, EnqueueCounted, RefreshCounted DEF RequestStep

\* What Standing asks of the goroutines: where an execution is, and what it holds.
LEMMA StandingKept ==
    ASSUME NEW f \in File, UNCHANGED <<row, disk, batch, current, todo, seen>>,
           \A c \in Executing(f) : pc'[c] = pc[c]
    PROVE  Standing(f)' = Standing(f)
<1>1. Executing(f)' = Executing(f)
  BY DEF Executing
<1>2. Held(f)' = Held(f)
  BY <1>1 DEF Held, Holds
<1>3. WillRead(f)' = WillRead(f)
  BY <1>1 DEF WillRead
<1>4. Served(f)' = Served(f)
  BY <1>1, <1>3 DEF Served
<1> QED BY <1>2, <1>4 DEF Standing

\* A row that was let go of stands for its change by itself.
LEMMA StandingFree ==
    ASSUME NEW f \in File, Standing(f), ~Held(f)',
           \/ row'[f] = row[f]
           \/ row[f].status = "running" /\ row'[f] = [row[f] EXCEPT !.status = "pending"],
           row[f] \in Row
    PROVE  Standing(f)'
BY DEF Standing, Row

\* Starting, stopping and resizing keep every change accounted for.
LEMMA LifeCounted ==
    ASSUME TypeOK, Places, Exclusive, Accounted, LifeStep, NEW f \in File
    PROVE  Counted(f)'
<1>1. f \in Key /\ row[f] \in Row /\ Counted(f)
  BY DEF TypeOK, Accounted, Counted, File
<1>2. UNCHANGED <<disk, shown>>
  BY DEF LifeStep, Run, Crash, Spawn, Quit
<1>3. ASSUME Standing(f) => Standing(f)', UNCHANGED <<events, entry, flight, lost>>
      PROVE  Counted(f)'
  <2>1. Announced(f)' = Announced(f)
    BY <1>3 DEF Announced
  <2> QED BY <1>1, <1>2, <1>3, <2>1, CountedStays
<1>4. ASSUME NEW n \in 1..WorkerMax, Run(n)
      PROVE  Counted(f)'
  <2>1. UNCHANGED <<batch, current, events, entry, flight, lost>>
    BY <1>4 DEF Run, scheduler
  <2>2. ~Held(f)'
    BY <1>1, <1>4, <2>1, DownHoldsNothing DEF Run, Held, Holds, Executing
  <2>3. \/ row'[f] = row[f]
        \/ row[f].status = "running" /\ row'[f] = [row[f] EXCEPT !.status = "pending"]
    BY <1>1, <1>4 DEF Run, ReconcileOnStartup, Reset, InStatus, Rewrite
  <2> QED BY <1>1, <1>3, <2>1, <2>2, <2>3, StandingFree
<1>5. CASE Crash
  <2>1. lost' = lost \cup {g \in events \cup {g \in File : flight[g] > 0}
                                  \cup UNION {entry[d] : d \in Dir} : shown[g] # disk[g]}
    BY <1>5 DEF Crash, Lose
  <2>2. Announced(f) /\ shown[f] # disk[f] => f \in lost'
    BY <2>1 DEF Announced
  <2>3. ~Held(f)' /\ row' = row
    BY <1>5 DEF Crash, Held, Holds, Executing
  <2>4. Standing(f) => Standing(f)'
    BY <1>1, <2>3, StandingFree
  <2> QED BY <1>1, <1>2, <2>1, <2>2, <2>4 DEF Counted
<1>6. ASSUME NEW c \in Consumer, Spawn(c)
      PROVE  Counted(f)'
  <2>1. UNCHANGED <<row, disk, batch, current, todo, seen, events, entry, flight, lost>>
    BY <1>6 DEF Spawn, scheduler
  <2>2. \A d \in Executing(f) : pc'[d] = pc[d]
    BY <1>6 DEF Spawn, Executing, Places, TypeOK
  <2> QED BY <1>3, <2>1, <2>2, StandingKept
<1>7. ASSUME NEW c \in Consumer, Quit(c)
      PROVE  Counted(f)'
  <2>1. /\ UNCHANGED <<row, disk, current, todo, seen, events, entry, flight, lost>>
        /\ batch' = [batch EXCEPT ![c] = {}] /\ pc' = [pc EXCEPT ![c] = "off"]
    BY <1>7 DEF Quit, scheduler
  <2>2. current[c] = NoClaim
    BY <1>7 DEF Quit, Places
  <2>3. CASE \E m \in batch[c] : m.key = f
    <3>1. PICK m \in batch[c] : m.key = f
      BY <2>3
    <3>2. \A d \in Consumer : ~Holds(d, f)'
      <4>1. ASSUME NEW d \in Consumer, Holds(d, f)'
            PROVE  FALSE
        <5>1. Holds(d, f)
          BY <2>1, <4>1 DEF Holds, Executing, TypeOK
        <5>2. PICK n \in Tasks(d) : n.key = f
          BY <1>1, <5>1, HoldsIsTasks
        <5>3. m \in Tasks(c)
          BY DEF Tasks
        <5>4. d = c
          BY <3>1, <5>2, <5>3 DEF Exclusive
        <5> QED BY <2>1, <2>2, <4>1, <5>4 DEF Holds, Executing, TypeOK
      <4> QED BY <4>1
    <3>3. ~Held(f)'
      BY <3>2 DEF Held
    <3> QED BY <1>1, <1>3, <2>1, <3>3, StandingFree
  <2>4. CASE \A m \in batch[c] : m.key # f
    <3>1. Executing(f)' = Executing(f) /\ c \notin Executing(f)
      BY <2>1, <2>2 DEF Executing
    <3>2. \A d \in Executing(f) : pc'[d] = pc[d]
      BY <2>1, <3>1 DEF TypeOK, Executing
    <3>3. \A d \in Consumer : d # c => batch'[d] = batch[d]
      BY <2>1 DEF TypeOK
    <3>4. batch'[c] = {}
      BY <2>1 DEF TypeOK
    <3>5. Held(f)' <=> Held(f)
      BY <2>4, <3>1, <3>3, <3>4 DEF Held, Holds
    <3>6. WillRead(f) => WillRead(f)'
      BY <2>1, <2>4, <3>1, <3>2, <3>3 DEF WillRead
    <3>7. Served(f) => Served(f)'
      BY <2>1, <3>1, <3>6 DEF Served
    <3>8. Standing(f) => Standing(f)'
      BY <2>1, <3>5, <3>7 DEF Standing
    <3> QED BY <1>3, <2>1, <3>8
  <2> QED BY <2>3, <2>4
<1> QED BY <1>4, <1>5, <1>6, <1>7 DEF LifeStep

\* A goroutine that takes a row also takes the option that stands in it.
LEMMA ClaimStands ==
    ASSUME TypeOK, Places, Exclusive, NEW c \in Consumer, ClaimTasks(c),
           NEW f \in File, Standing(f)
    PROVE  Standing(f)'
<1>1. PICK S \in SUBSET Due : Claim(S) /\ batch' = [batch EXCEPT ![c] = ClaimsOn(S)]
  BY DEF ClaimTasks
<1>2. UNCHANGED <<disk, current, todo, seen>> /\ pc[c] = "poll"
  BY DEF ClaimTasks
<1>3. /\ batch[c] = {} /\ batch'[c] = ClaimsOn(S) /\ current[c] = NoClaim
      /\ \A d \in Consumer : d # c => batch'[d] = batch[d] /\ pc'[d] = pc[d]
  BY <1>1, <1>2 DEF ClaimTasks, Places, TypeOK
<1>4. f \in Key /\ row[f] \in Row
  BY DEF TypeOK, File
<1>5. row'[f] = IF f \in S THEN [row[f] EXCEPT !.status = "running"] ELSE row[f]
  BY <1>1, <1>4 DEF Claim, Rewrite
<1>6. CASE f \in S
  <2>1. [key |-> f, option |-> row[f].option, retry |-> row[f].retry] \in batch'[c]
    BY <1>3, <1>6 DEF ClaimsOn
  <2>2. WillRead(f)'
    BY <2>1 DEF WillRead, Standing
  <2> QED BY <1>4, <1>5, <1>6, <2>2 DEF Standing, Served, Row
<1>7. CASE f \notin S
  <2>1. Executing(f)' = Executing(f) /\ c \notin Executing(f)
    BY <1>2, <1>3 DEF Executing
  <2>2. \A m \in batch'[c] : m.key # f
    BY <1>3, <1>7 DEF ClaimsOn
  <2>3. Held(f)' <=> Held(f)
    BY <1>3, <2>1, <2>2 DEF Held, Holds
  <2>4. WillRead(f) => WillRead(f)'
    BY <1>2, <1>3, <2>1 DEF WillRead, Executing
  <2>5. Served(f) => Served(f)'
    BY <1>2, <2>1, <2>4 DEF Served
  <2> QED BY <1>5, <1>7, <2>3, <2>5 DEF Standing
<1> QED BY <1>6, <1>7

\* The task that starts will read the file, if its claim is to.
LEMMA StartStands ==
    ASSUME TypeOK, Places, Reads, Exclusive, NEW c \in Consumer, StartTask(c),
           NEW f \in File, Standing(f)
    PROVE  Standing(f)'
<1>1. PICK m \in batch[c] :
         /\ batch' = [batch EXCEPT ![c] = batch[c] \ {m}]
         /\ current' = [current EXCEPT ![c] = m]
         /\ todo' = [todo EXCEPT ![c] = Steps(m)]
  BY DEF StartTask
<1>2. /\ batch'[c] = batch[c] \ {m} /\ current'[c] = m /\ todo'[c] = Steps(m)
      /\ \A d \in Consumer : d # c =>
            /\ batch'[d] = batch[d] /\ current'[d] = current[d]
            /\ todo'[d] = todo[d] /\ pc'[d] = pc[d]
      /\ row' = row /\ seen' = seen /\ disk' = disk
  BY <1>1 DEF StartTask, TypeOK
<1>3. m \in Claims /\ m # NoClaim /\ Steps(m) # <<>>
  BY PlanOf, NothingAssumption DEF TypeOK
<1>4. current[c] = NoClaim /\ seen[c] = NoVersion
  BY DEF StartTask, Places, Reads
<1>5. CASE m.key = f
  <2>1. c \in Executing(f)'
    BY <1>2, <1>3, <1>5 DEF Executing
  <2>2. Held(f) /\ row[f].status = "running"
    BY <1>5, TaskTypes DEF Held, Holds, Exclusive
  <2>3. Served(f)
    BY <2>2 DEF Standing
  <2>4. ASSUME NEW d \in Executing(f)
        PROVE  FALSE
    <3>1. current[d] # NoClaim /\ m.key = current[d].key
      BY <1>5, <2>4 DEF Executing
    <3> QED BY <3>1, OnlyCurrent DEF Executing
  <2>5. PICK d \in Consumer : \E n \in batch[d] : n.key = f /\ n.option = "local"
    BY <2>3, <2>4 DEF Served, WillRead
  <2>6. m.option = "local"
    BY <1>5, <2>5, TaskTypes DEF Exclusive
  <2>7. WillRead(f)'
    BY <1>2, <1>3, <1>4, <2>1, <2>6 DEF WillRead
  <2> QED BY <1>2, <2>2, <2>7 DEF Standing, Served
<1>6. CASE m.key # f
  <2>1. \A d \in Consumer : d \in Executing(f)' <=> d \in Executing(f)
    BY <1>2, <1>4, <1>6 DEF Executing
  <2>2. c \notin Executing(f)
    BY <1>4 DEF Executing
  <2>3. Held(f)' <=> Held(f)
    BY <1>2, <1>6, <2>1 DEF Held, Holds
  <2>4. ASSUME WillRead(f)
        PROVE  WillRead(f)'
    <3>1. CASE \E d \in Consumer : \E n \in batch[d] : n.key = f /\ n.option = "local"
      BY <1>2, <1>6, <3>1 DEF WillRead
    <3>2. ASSUME NEW d \in Executing(f),
                 \/ pc[d] = "failing"
                 \/ current[d].option = "local" /\ todo[d] # <<>> /\ seen[d] = NoVersion
          PROVE  WillRead(f)'
      BY <1>2, <2>1, <2>2, <3>2 DEF WillRead, Executing
    <3> QED BY <2>4, <3>1, <3>2 DEF WillRead
  <2>5. Served(f) => Served(f)'
    BY <1>2, <2>1, <2>2, <2>4 DEF Served, Executing
  <2> QED BY <1>2, <2>3, <2>5 DEF Standing
<1> QED BY <1>5, <1>6

\* Taking tasks keeps every change accounted for.
LEMMA TakeCounted ==
    ASSUME TypeOK, Places, Reads, Exclusive, Accounted, TakeStep, NEW f \in File
    PROVE  Counted(f)'
<1>1. f \in Key /\ row[f] \in Row /\ Counted(f)
  BY DEF TypeOK, Accounted, Counted, File
<1>2. UNCHANGED <<disk, shown, events, entry, flight, lost>>
  BY TakeFrame
<1>3. ASSUME Standing(f)
      PROVE  Standing(f)'
  <2>1. ASSUME NEW c \in Consumer, ClaimError(c)
        PROVE  Standing(f)'
    <3>1. /\ pc' = [pc EXCEPT ![c] = "sleep"] /\ current[c] = NoClaim
          /\ UNCHANGED <<batch, current, todo, seen>>
      BY <2>1 DEF ClaimError, Places
    <3>2. \/ row'[f] = row[f]
          \/ row[f].status = "pending" /\ row'[f] = [row[f] EXCEPT !.status = "running"]
      BY <1>1, <2>1 DEF ClaimError, Claim, Due, InStatus, Rewrite
    <3>3. CASE row'[f] = row[f]
      <4>1. row'[f].status = row[f].status /\ row'[f].option = row[f].option
        BY <3>3
      <4>2. \A d \in Executing(f) : pc'[d] = pc[d]
        BY <3>1 DEF Executing, TypeOK
      <4>3. Executing(f)' = Executing(f)
        BY <3>1 DEF Executing
      <4>4. Held(f)' = Held(f)
        BY <3>1, <4>3 DEF Held, Holds
      <4>5. Served(f)' = Served(f)
        BY <1>2, <3>1, <4>2, <4>3 DEF Served, WillRead
      <4> QED BY <1>3, <4>1, <4>4, <4>5 DEF Standing
    <3>4. CASE row[f].status = "pending" /\ row'[f] = [row[f] EXCEPT !.status = "running"]
      <4>1. ~Held(f)
        BY <1>1, <3>4, HeldRuns
      <4>2. ~Held(f)'
        BY <3>1, <4>1 DEF Held, Holds, Executing
      <4> QED BY <1>1, <1>3, <3>4, <4>2 DEF Standing, Row
    <3> QED BY <3>2, <3>3, <3>4
  <2>2. ASSUME NEW c \in Consumer, Wake(c)
        PROVE  Standing(f)'
    <3>1. \A d \in Executing(f) : pc'[d] = pc[d]
      BY <2>2 DEF Wake, Executing, Places, TypeOK
    <3>2. UNCHANGED <<row, disk, batch, current, todo, seen>>
      BY <2>2 DEF Wake
    <3> QED BY <1>3, <3>1, <3>2, StandingKept
  <2> QED BY <1>3, <2>1, <2>2, ClaimStands, StartStands DEF TakeStep
<1>4. Announced(f)' = Announced(f)
  BY <1>2 DEF Announced
<1> QED BY <1>1, <1>2, <1>3, <1>4, CountedStays

\* A step of an execution of another row changes nothing for f.
LEMMA OthersStand ==
    ASSUME TypeOK, NEW c \in Consumer, NEW f \in File,
           UNCHANGED <<row, disk, batch, current>>, c \notin Executing(f),
           \A d \in Consumer : d # c => UNCHANGED <<pc[d], todo[d], seen[d]>>
    PROVE  Standing(f)' = Standing(f)
<1>1. Executing(f)' = Executing(f)
  BY DEF Executing
<1>2. Held(f)' = Held(f)
  BY <1>1 DEF Held, Holds
<1>3. \A d \in Executing(f) : UNCHANGED <<pc[d], todo[d], seen[d]>>
  BY DEF Executing
<1>4. WillRead(f)' = WillRead(f)
  BY <1>1, <1>3 DEF WillRead
<1>5. Served(f)' = Served(f)
  BY <1>1, <1>3, <1>4 DEF Served
<1> QED BY <1>2, <1>5 DEF Standing

\* A row that is executed stands for a change only through who executes it.
LEMMA ServedByOne ==
    ASSUME TypeOK, Exclusive, NEW f \in File, NEW c \in Executing(f), Standing(f)
    PROVE  /\ row[f].status = "running" /\ row[f].option = "local"
           /\ \/ pc[c] = "failing"
              \/ current[c].option = "local" /\ todo[c] # <<>> /\ seen[c] = NoVersion
              \/ current[c].option = "local" /\ seen[c] = disk[f]
<1>1. c \in Consumer /\ current[c] # NoClaim /\ current[c].key = f
  BY DEF Executing
<1>2. Held(f) /\ row[f].status = "running"
  BY <1>1, TaskTypes DEF Held, Holds, Exclusive
<1>3. Served(f)
  BY <1>2 DEF Standing
<1>4. \A d \in Executing(f) : d = c
  BY <1>1, OneExecutes DEF Executing
<1>5. \A d \in Consumer : \A m \in batch[d] : m.key # f
  BY <1>1, OnlyCurrent
<1> QED BY <1>2, <1>3, <1>4, <1>5 DEF Standing, Served, WillRead

\* The steps of an execution keep every change accounted for.
LEMMA WorkCounted ==
    ASSUME TypeOK, Places, Plans, Reads, Behind, Exclusive, Accounted, WorkStep,
           NEW f \in File
    PROVE  Counted(f)'
<1>1. PICK c \in Consumer :
         /\ current[c] # NoClaim /\ pc[c] = "exec"
         /\ Reading(c) \/ Writing(c) \/ Skipping(c) \/ Failing(c)
  BY WorkKinds DEF WorkStep
<1>2. UNCHANGED <<row, disk, events, entry, flight, batch, current>>
  BY WorkFrame
<1>3. \A d \in Consumer : d # c => UNCHANGED <<pc[d], todo[d], seen[d]>>
  BY <1>1 DEF Reading, Writing, Skipping, Failing, StepDone, TypeOK
<1>4. Counted(f) /\ Announced(f)' = Announced(f)
  BY <1>2 DEF Accounted, Counted, Announced
<1>5. c \in Executing(f) /\ todo[c] # <<>> /\ Head(todo[c]) \in Facet => Subject(c) = f
  BY <1>1, SubjectFile DEF Executing
<1>6. CASE c \notin Executing(f) /\ ~Writing(c)
  <2>1. Standing(f)' = Standing(f)
    BY <1>2, <1>3, <1>6, OthersStand
  <2>2. shown' = shown /\ lost \subseteq lost'
    BY <1>1, <1>6 DEF Reading, Skipping, Failing, Lose
  <2> QED BY <1>2, <1>4, <2>1, <2>2, CountedStays
<1>7. CASE Writing(c)
  <2>1. CASE f # Subject(c)
    <3>1. shown'[f] = shown[f] /\ (f \in lost => f \in lost')
      BY <1>7, <2>1 DEF Writing, TypeOK
    <3>2. c \notin Executing(f)
      BY <1>5, <1>7, <2>1 DEF Writing
    <3>3. Standing(f)' = Standing(f)
      BY <1>2, <1>3, <3>2, OthersStand
    <3> QED BY <1>2, <1>4, <3>1, <3>3 DEF Counted
  <2>2. CASE f = Subject(c) /\ seen[c] = disk[f]
    BY <1>2, <1>7, <2>2 DEF Writing, TypeOK, Counted
  <2>3. CASE f = Subject(c) /\ seen[c] # disk[f]
    <3>1. lost' = IF seen[c] < shown[f] THEN lost \cup {f} ELSE lost
      BY <1>7, <2>3 DEF Writing
    <3>2. CASE shown[f] = disk[f]
      <4>1. seen[c] <= disk[f] /\ seen[c] \in Nat /\ disk[f] \in Nat
        BY <1>7, <2>3, SidecarAssumption DEF Writing, Reads, TypeOK
      <4> QED BY <2>3, <3>1, <3>2, <4>1 DEF Counted
    <3>3. CASE shown[f] # disk[f]
      <4>1. CASE c \in Executing(f)
        <5>1. ~Standing(f)
          BY <1>1, <1>7, <2>3, <4>1, ServedByOne DEF Writing
        <5> QED BY <1>4, <3>1, <3>3, <5>1 DEF Counted
      <4>2. CASE c \notin Executing(f)
        <5>1. Standing(f)' = Standing(f)
          BY <1>2, <1>3, <4>2, OthersStand
        <5> QED BY <1>4, <3>1, <3>3, <5>1 DEF Counted
      <4> QED BY <4>1, <4>2
    <3> QED BY <3>2, <3>3
  <2> QED BY <2>1, <2>2, <2>3
<1>8. CASE c \in Executing(f) /\ ~Writing(c)
  <2>1. shown' = shown /\ lost \subseteq lost'
    BY <1>1, <1>8 DEF Reading, Skipping, Failing, Lose
  <2>2. CASE ~Standing(f)
    BY <1>2, <1>4, <2>1, <2>2 DEF Counted
  <2>3. CASE Standing(f)
    <3>1. /\ row[f].status = "running" /\ row[f].option = "local"
          /\ \/ current[c].option = "local" /\ todo[c] # <<>> /\ seen[c] = NoVersion
             \/ current[c].option = "local" /\ seen[c] = disk[f]
      BY <1>1, <1>8, <2>3, ServedByOne
    <3>2. c \in Executing(f)' /\ current' = current
      BY <1>2, <1>8 DEF Executing
    <3>3. CASE Reading(c)
      <4>1. seen'[c] = disk[f]
        BY <1>5, <1>8, <3>3 DEF Reading, TypeOK
      <4>2. Served(f)'
        BY <1>2, <3>1, <3>2, <4>1 DEF Served
      <4> QED BY <1>2, <3>1, <4>2 DEF Standing, Counted
    <3>4. CASE Failing(c)
      <4>1. pc'[c] = "failing"
        BY <3>4 DEF Failing, TypeOK
      <4>2. WillRead(f)'
        BY <3>2, <4>1 DEF WillRead
      <4> QED BY <1>2, <3>1, <4>2 DEF Standing, Served, Counted
    <3>5. CASE Skipping(c)
      <4>1. todo[c] # <<>> /\ current[c].key = f /\ f[2] \in Facet
        BY <1>8, <3>5 DEF Skipping, Executing, File
      <4>2. todo[c] = <<f[2]>>
        BY <1>1, <3>1, <4>1 DEF Plans, Facet
      <4>3. Head(todo[c]) \in Facet
        BY <4>1, <4>2
      <4>4. Lose({f})
        BY <1>5, <1>8, <3>1, <3>5, <4>3 DEF Skipping
      <4> QED BY <1>2, <2>1, <4>4 DEF Lose, Counted
    <3> QED BY <1>1, <1>8, <3>3, <3>4, <3>5
  <2> QED BY <2>2, <2>3
<1> QED BY <1>6, <1>7, <1>8

\* The end of an execution keeps every change accounted for.
LEMMA EndCounted ==
    ASSUME TypeOK, Places, Reads, RetriesLeft, Exclusive, Accounted, EndStep,
           NEW f \in File
    PROVE  Counted(f)'
<1>1. PICK c \in Consumer : Succeed(c) \/ GiveBack(c) \/ EndUnrecorded(c)
  BY DEF EndStep
<1>2. /\ current[c] # NoClaim /\ EndTask(c)
      /\ pc[c] # "failing" => todo[c] = <<>>
  BY <1>1 DEF Succeed, GiveBack, EndUnrecorded, Places
<1>3. UNCHANGED <<disk, shown, events, entry, flight, batch, lost>>
  BY EndFrame
<1>4. f \in Key /\ row[f] \in Row /\ Counted(f) /\ Announced(f)' = Announced(f)
  BY <1>3 DEF TypeOK, File, Accounted, Counted, Announced
<1>5. /\ current'[c] = NoClaim
      /\ \A d \in Consumer : d # c =>
            UNCHANGED <<pc[d], current[d], todo[d], seen[d]>>
  BY <1>2 DEF EndTask, TypeOK
<1>6. CASE current[c].key # f
  <2>1. row'[f] = row[f]
    BY <1>1, <1>4, <1>6 DEF Succeed, GiveBack, EndUnrecorded, Done, Fail, Rewrite
  <2>2. Executing(f)' = Executing(f) /\ c \notin Executing(f)
    BY <1>5, <1>6 DEF Executing
  <2>3. \A d \in Executing(f) : UNCHANGED <<pc[d], current[d], todo[d], seen[d]>>
    BY <1>5, <2>2 DEF Executing
  <2>4. Held(f)' = Held(f)
    BY <1>3, <2>2 DEF Held, Holds
  <2>5. WillRead(f)' = WillRead(f)
    BY <1>3, <2>2, <2>3 DEF WillRead
  <2>6. Served(f)' = Served(f)
    BY <1>3, <2>2, <2>3, <2>5 DEF Served
  <2> QED BY <1>3, <1>4, <2>1, <2>4, <2>6 DEF Standing, Counted
<1>7. CASE current[c].key = f
  <2>1. c \in Executing(f)
    BY <1>2, <1>7 DEF Executing
  <2>2. CASE ~Standing(f)
    BY <1>3, <1>4, <2>2 DEF Counted
  <2>3. CASE Standing(f)
    <3>1. row[f].status = "running" /\ row[f].option = "local"
      BY <2>1, <2>3, ServedByOne
    <3>2. todo[c] = <<>> => seen[c] # disk[f]
      BY NothingAssumption, SidecarAssumption DEF Reads, TypeOK
    <3>3. pc[c] = "failing"
      BY <1>2, <2>1, <2>3, <3>2, ServedByOne
    <3>4. CASE GiveBack(c)
      <4>1. row'[f] = Failed(row[f], current[c].retry)
        BY <1>4, <1>7, <3>4 DEF GiveBack, Fail, Rewrite
      <4>2. current[c].retry \in Nat /\ row[f].retry < MaxRetry
        BY <1>2, <1>4, <3>1, TaskTypes, RetryAssumption DEF RetriesLeft
      <4> QED BY <1>4, <3>1, <4>1, <4>2, RetryTypes DEF Standing, Counted
    <3>5. CASE EndUnrecorded(c)
      <4>1. row' = row
        BY <3>5 DEF EndUnrecorded
      <4>2. ~Held(f)'
        <5>1. \A d \in Consumer : \A m \in batch[d] : m.key # f
          BY <1>2, <1>7, OnlyCurrent
        <5>2. \A d \in Executing(f)' : FALSE
          BY <1>2, <1>5, <1>7, OneExecutes DEF Executing
        <5> QED BY <1>3, <5>1, <5>2 DEF Held, Holds
      <4> QED BY <3>1, <4>1, <4>2 DEF Standing, Counted
    <3> QED BY <1>1, <3>3, <3>4, <3>5 DEF Succeed
  <2> QED BY <2>2, <2>3
<1> QED BY <1>6, <1>7

\* Every step keeps every change accounted for.
LEMMA AccountedStep ==
    ASSUME IInv, Next
    PROVE  Accounted'
<1>1. ASSUME NEW f \in File
      PROVE  Counted(f)'
  BY <1>1, Grouped, FlowCounted, RequestCounted, LifeCounted, TakeCounted, WorkCounted,
     EndCounted DEF IInv
<1> QED BY <1>1 DEF Accounted, Counted

-----------------------------------------------------------------------------
(* Type correctness and the invariant.                                     *)

WorkerTypes ==
    /\ up \in BOOLEAN
    /\ pc \in [Consumer -> {"off", "poll", "sleep", "batch", "exec", "failing"}]
    /\ batch \in [Consumer -> SUBSET Claims]
    /\ current \in [Consumer -> Claims \cup {NoClaim}]
    /\ todo \in [Consumer -> Seq(TodoStep)]
    /\ seen \in [Consumer -> 0..MaxEdits \cup {NoVersion}]

\* TypeOK in the parts that are proved one by one.
LEMMA TypeParts ==
    TypeOK <=> /\ row \in [Key -> Row]
               /\ disk \in [File -> 0..MaxEdits] /\ shown \in [File -> 0..MaxEdits]
               /\ events \subseteq File /\ entry \in [Dir -> SUBSET File]
               /\ flight \in [File -> 0..MaxEdits]
               /\ WorkerTypes /\ lost \subseteq File
BY DEF TypeOK, WorkerTypes, TodoStep

\* Goroutines stay well typed.
LEMMA WorkerTypesStep ==
    ASSUME TypeOK, Places, Plans, Next
    PROVE  WorkerTypes'
<1>0. WorkerTypes
  BY TypeParts
<1>1. CASE FlowStep \/ RequestStep
  BY <1>0, <1>1, FlowFrame, RequestFrame DEF WorkerTypes
<1>2. CASE LifeStep
  <2>1. ASSUME NEW n \in 1..WorkerMax, Run(n)
        PROVE  WorkerTypes'
    BY <1>0, <2>1 DEF Run, WorkerTypes
  <2>2. CASE Crash
    <3>1. <<>> \in Seq(TodoStep)
      OBVIOUS
    <3> QED BY <1>0, <2>2, <3>1 DEF Crash, WorkerTypes
  <2>3. ASSUME NEW c \in Consumer, Spawn(c) \/ Quit(c)
        PROVE  WorkerTypes'
    BY <1>0, <2>3 DEF Spawn, Quit, WorkerTypes
  <2> QED BY <1>2, <2>1, <2>2, <2>3 DEF LifeStep
<1>3. CASE TakeStep
  <2>1. ASSUME NEW c \in Consumer, ClaimTasks(c)
        PROVE  WorkerTypes'
    <3>1. PICK S \in SUBSET Due :
             /\ batch' = [batch EXCEPT ![c] = ClaimsOn(S)]
             /\ pc' = [pc EXCEPT ![c] = IF S = {} THEN "sleep" ELSE "batch"]
      BY <2>1 DEF ClaimTasks
    <3>2. ClaimsOn(S) \subseteq Claims
      <4>1. \A k \in S : k \in Key /\ row[k] \in Row
        BY DEF Due, InStatus, TypeOK
      <4> QED BY <4>1 DEF ClaimsOn, Claims, Row
    <3> QED BY <1>0, <2>1, <3>1, <3>2 DEF ClaimTasks, WorkerTypes
  <2>2. ASSUME NEW c \in Consumer, ClaimError(c) \/ Wake(c)
        PROVE  WorkerTypes'
    BY <1>0, <2>2 DEF ClaimError, Wake, WorkerTypes
  <2>3. ASSUME NEW c \in Consumer, StartTask(c)
        PROVE  WorkerTypes'
    <3>1. PICK m \in batch[c] :
             /\ batch' = [batch EXCEPT ![c] = batch[c] \ {m}]
             /\ current' = [current EXCEPT ![c] = m]
             /\ todo' = [todo EXCEPT ![c] = Steps(m)]
      BY <2>3 DEF StartTask
    <3>2. m \in Claims /\ Steps(m) \in Seq(TodoStep)
      BY <1>0, PlanOf DEF WorkerTypes
    <3> QED BY <1>0, <2>3, <3>1, <3>2 DEF StartTask, WorkerTypes
  <2> QED BY <1>3, <2>1, <2>2, <2>3 DEF TakeStep
<1>4. CASE WorkStep
  <2>1. PICK c \in Consumer :
           /\ current[c] # NoClaim /\ pc[c] = "exec"
           /\ Reading(c) \/ Writing(c) \/ Skipping(c) \/ Failing(c)
    BY <1>4, WorkKinds DEF WorkStep
  <2>2. UNCHANGED <<up, batch, current>>
    BY <1>4, WorkFrame
  <2>3. CASE Reading(c)
    <3>1. disk[Subject(c)] \in 0..MaxEdits
      BY <2>1, <2>3, SubjectFile DEF Reading, TypeOK
    <3> QED BY <1>0, <2>2, <2>3, <3>1 DEF Reading, WorkerTypes
  <2>4. CASE Writing(c) \/ Skipping(c)
    <3>1. Tail(todo[c]) \in Seq(TodoStep)
      BY <1>0, <2>4, TailOf DEF Writing, Skipping, WorkerTypes
    <3> QED BY <1>0, <2>2, <2>4, <3>1 DEF Writing, Skipping, StepDone, WorkerTypes
  <2>5. CASE Failing(c)
    BY <1>0, <2>2, <2>5 DEF Failing, WorkerTypes
  <2> QED BY <2>1, <2>3, <2>4, <2>5
<1>5. CASE EndStep
  <2>1. PICK c \in Consumer : EndTask(c)
    BY <1>5 DEF EndStep, Succeed, GiveBack, EndUnrecorded
  <2>2. <<>> \in Seq(TodoStep)
    OBVIOUS
  <2> QED BY <1>0, <2>1, <2>2 DEF EndTask, WorkerTypes
<1> QED BY <1>1, <1>2, <1>3, <1>4, <1>5, Grouped

\* What is lost are changes of sidecar files.
LEMMA LostStep ==
    ASSUME TypeOK, Places, Plans, Next
    PROVE  lost' \subseteq File
<1>1. lost \subseteq File /\ events \subseteq File /\ \A d \in Dir : entry[d] \subseteq File
  BY DEF TypeOK
<1>2. CASE FlowStep
  BY <1>1, <1>2 DEF FlowStep, Edit, OnSidecarChange, FlushDrop, FlushTake, Lose
<1>3. CASE RequestStep
  BY <1>1, <1>3 DEF RequestStep, FlushEnqueue, RefreshItem, AdminRetry, PruneTicker,
                    TimePasses, StaleTicker, Lose
<1>4. CASE LifeStep
  BY <1>1, <1>4 DEF LifeStep, Run, Crash, Spawn, Quit, Lose
<1>5. CASE WorkStep
  <2>1. PICK c \in Consumer :
           /\ current[c] # NoClaim
           /\ Reading(c) \/ Writing(c) \/ Skipping(c) \/ Failing(c)
    BY <1>5, WorkKinds DEF WorkStep
  <2>2. Writing(c) \/ Head(todo[c]) \in Facet => todo[c] = <<>> \/ Subject(c) \in File
    BY <2>1, SubjectFile DEF Writing
  <2> QED BY <1>1, <2>1, <2>2 DEF Reading, Writing, Skipping, Failing, Lose
<1> QED BY <1>1, <1>2, <1>3, <1>4, <1>5, Grouped, TakeFrame, EndFrame

\* The process starts with nothing in the table, in memory or to be shown.
LEMMA IInvInit == Init => IInv
<1> SUFFICES ASSUME Init PROVE IInv
  OBVIOUS
<1> USE DEF Init
<1>1. TypeOK
  <2>1. <<>> \in Seq(TodoStep)
    OBVIOUS
  <2>2. WorkerTypes
    BY <2>1 DEF WorkerTypes
  <2>3. 0 \in 0..MaxEdits
    BY SidecarAssumption
  <2> QED BY <2>2, <2>3, RowTypes, TypeParts
<1>2. Places /\ Plans /\ Reads /\ Ahead
  BY DEF Places, Plans, Reads, Ahead
<1>3. Arrivals
  <2>1. \A f \in File : DirOf[f[1]] \in Dir
    BY SidecarAssumption DEF Dir, File
  <2> QED BY <2>1 DEF Arrivals, One
<1>4. Behind /\ Accounted
  BY DEF Behind, Accounted
<1>5. Exclusive
  BY DEF Exclusive, Tasks
<1>6. RetriesLeft
  BY DEF RetriesLeft, Absent, Fresh
<1> QED BY <1>1, <1>2, <1>3, <1>4, <1>5, <1>6 DEF IInv

\* Every step keeps the invariant.
LEMMA IInvStep == IInv /\ [Next]_vars => IInv'
<1> SUFFICES ASSUME IInv, [Next]_vars PROVE IInv'
  OBVIOUS
<1> USE DEF IInv
<1>1. CASE Next
  <2>1. row' \in [Key -> Row] /\ RetriesLeft'
    BY <1>1, StepMoves, RowsStep
  <2>2. TypeOK'
    <3>1. /\ disk' \in [File -> 0..MaxEdits] /\ shown' \in [File -> 0..MaxEdits]
          /\ events' \subseteq File /\ entry' \in [Dir -> SUBSET File]
          /\ flight' \in [File -> 0..MaxEdits] /\ lost' \subseteq File
      BY <1>1, DiskGrows, BehindStep, ArrivalsStep, LostStep
    <3> QED BY <1>1, <2>1, <3>1, WorkerTypesStep, TypeParts DEF TypeOK, WorkerTypes, TodoStep
  <2>3. Places' /\ Plans' /\ Reads'
    BY <1>1, PlacesStep, PlansStep, ReadsStep
  <2>4. Arrivals' /\ Behind' /\ Ahead'
    BY <1>1, ArrivalsStep, BehindStep, AheadStep
  <2>5. Exclusive' /\ Accounted'
    BY <1>1, ExclusiveStep, AccountedStep
  <2> QED BY <2>1, <2>2, <2>3, <2>4, <2>5
<1>2. CASE UNCHANGED vars
  <2>1. UNCHANGED <<row, disk, shown, events, entry, flight, up, pc, batch, current, todo,
                    seen, lost>>
    BY <1>2 DEF vars, scheduler, worker
  <2>2. TypeOK' /\ Places' /\ Plans'
    BY <2>1 DEF TypeOK, Places, Plans
  <2>3. Reads' /\ Ahead'
    BY <2>1 DEF Reads, Subject, Ahead
  <2>4. Arrivals' /\ Behind' /\ RetriesLeft'
    BY <2>1 DEF Arrivals, Behind, RetriesLeft
  <2>5. Exclusive'
    BY <2>1 DEF Exclusive, Tasks
  <2>6. \A f \in File : Standing(f)' = Standing(f)
    BY <2>1, StandingSame
  <2>7. Accounted'
    BY <2>1, <2>6 DEF Accounted, Announced
  <2> QED BY <2>2, <2>3, <2>4, <2>5, <2>7
<1> QED BY <1>1, <1>2

\* The invariant holds whatever files, consumers, directories and limits there are.
THEOREM SidecarInvariant == Spec => []IInv
BY IInvInit, IInvStep, PTL DEF Spec

\* The table, the scheduler and the worker stay well typed: no row is retried
\* beyond the limit, and no file has more flushes on their way than changes.
THEOREM SidecarTypes == Spec => []TypeOK
<1>1. IInv => TypeOK
  BY DEF IInv
<1> QED BY <1>1, SidecarInvariant, PTL

\* No change of a sidecar file gets lost between the watcher, the debounce timer,
\* the table and the worker, other than in the ways the module names.
THEOREM ChangesAccounted == Spec => []ChangeAccounted
<1>1. IInv => ChangeAccounted
  BY DEF IInv, Accounted, ChangeAccounted, Standing, Served, Queued
<1> QED BY <1>1, SidecarInvariant, PTL

\* An item shows what a file has had, and no version the file never had; so that
\* ChangeAccounted speaks of files that are ahead of their item.
THEOREM ShownIsBehind == Spec => []Behind
<1>1. IInv => Behind
  BY DEF IInv
<1> QED BY <1>1, SidecarInvariant, PTL

\* No two goroutines execute the row of a file or of a subtree at once, through
\* stale resets, retries by hand, resizing and restarts, as long as no execution
\* takes until its row is stale.
THEOREM ExecutionsExclusive == Spec => []Exclusive
<1>1. IInv => Exclusive
  BY DEF IInv
<1> QED BY <1>1, SidecarInvariant, PTL

\* Items without subtree refreshes never go back to older sidecars.
THEOREM NeverGoesBack == Spec => ShownNeverGoesBack
<1>1. IInv /\ [Next]_vars =>
        [\A f \in File : shown'[f] < shown[f] => <<f[1], "subtree">> \in Key]_vars
  BY NeverBackStep DEF IInv
<1> QED BY <1>1, SidecarInvariant, PTL DEF Spec, ShownNeverGoesBack
=============================================================================
