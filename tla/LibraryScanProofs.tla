------------------------- MODULE LibraryScanProofs -------------------------
(***************************************************************************)
(* From files to items, for any libraries, paths, consumers and scans:     *)
(* what is marked as waited for, what a barrier counts, why a file that    *)
(* stays keeps its item, and what a scan with nothing beside it leaves.    *)
(***************************************************************************)
EXTENDS LibraryScan, FiniteSetTheorems, SequenceTheorems, TLAPS

\* The conjuncts of TypeOK about what Ingest keeps.
IngestTyped ==
    /\ items \in [Path -> Library \cup {NoLibrary}]
    /\ pending \in [Base -> Event \cup {NoEvent}]
    /\ \A b \in Base : pending[b] # NoEvent =>
          pending[b].kind = "delete" /\ BaseOf[pending[b].path] = b
    /\ channel \in Seq(Event)
    /\ Len(channel) <= Capacity
    /\ inflight \in [Library -> Int]
    /\ pc \in [Consumer -> {"idle", "busy", "waiting", "stable"}]
    /\ hand \in [Consumer -> Event \cup {NoEvent}]
    /\ \A c \in Consumer : pc[c] = "idle" <=> hand[c] = NoEvent
    /\ touched \in [Consumer -> BOOLEAN]
    /\ stabilizing \subseteq Path
    /\ dropped \subseteq Path

\* And about the disk, the watcher and the scans.
AroundTyped ==
    /\ files \subseteq Path
    /\ away \subseteq Remote
    /\ watch \in Seq(Op)
    /\ scan \in [Scanner -> Scan]
    /\ \A s \in Scanner : scan[s].pc = "idle" <=> scan[s].lib = NoLibrary
    /\ scanning \subseteq Library
    /\ outside \in 0..MaxOutside
    /\ clean \in Library \cup {NoLibrary}
    /\ gone \subseteq Path

LEMMA TypeParts ==
    /\ TypeOK <=> IngestTyped /\ AroundTyped
    /\ TypeOK' <=> IngestTyped' /\ AroundTyped'
BY DEF TypeOK, IngestTyped, AroundTyped

Marks(c) == pc[c] \in {"waiting", "stable"}

\* The inductive invariant behind StabilizingExact: two consumers never wait
\* for one file, so the end of one wait unmarks no other.
MarksInv ==
    /\ TypeOK
    /\ \A p \in Path : p \in stabilizing <=> \E c \in Consumer : Marks(c) /\ hand[c].path = p
    /\ \A c, d \in Consumer : Marks(c) /\ Marks(d) /\ hand[c].path = hand[d].path => c = d

\* An event that takes an item away is of a path of G: one that had no file once.
Doomed(e, G) ==
    /\ e.kind = "delete" => e.path \in G
    /\ e.kind = "rename" => e.old \in G

\* What a scan knows of the files that are always there: they are to be walked
\* or were seen, and none is on its list of deletions.
Knows(s) ==
    LET residents == PathsOf(scan[s].lib) \ gone
    IN  /\ scan[s].pc = "walking" => residents \subseteq scan[s].left \cup scan[s].seen
        /\ scan[s].pc \in {"submitting", "listing"} => residents \subseteq scan[s].seen
        /\ scan[s].pc = "listing" => scan[s].left = {}
        /\ scan[s].pc = "pruning" => scan[s].left \subseteq gone

\* No event on its way takes the item of a file that is always there.
EventsDoomed ==
    /\ \A b \in Base : pending[b] # NoEvent => pending[b].path \in gone
    /\ \A i \in 1..Len(channel) : Doomed(channel[i], gone)
    /\ \A c \in Consumer : hand[c] # NoEvent => Doomed(hand[c], gone)

\* What the watcher hears of a file that is gone is of one that was gone.
WatchDoomed ==
    \A i \in 1..Len(watch) : watch[i].op \in {"remove", "moved"} => watch[i].path \in gone

\* The inductive invariant behind ResidentsKept.
ResidentsInv ==
    /\ TypeOK
    /\ \A p \in Path \ gone : OnDisk(p)
    /\ EventsDoomed
    /\ WatchDoomed
    /\ \A s \in Scanner : Knows(s)

\* The inductive invariant behind InflightExact: the consumers at work, of any
\* number, are finitely many at any moment.
CountInv ==
    /\ TypeOK
    /\ InflightExact
    /\ \A l \in Library : IsFiniteSet(InHand(l))

\* The events on their way.
Coming ==
    {e \in Event : \/ \E b \in Base : pending[b] = e
                   \/ \E i \in 1..Len(channel) : channel[i] = e
                   \/ \E c \in Consumer : hand[c] = e}

Works(s) == scan[s].pc \notin {"idle", "asked"}

Present(l) == PathsOf(l) \cap files

Entered(l) == \A p \in Present(l) : items[p] # NoLibrary

\* An item without a file is to be deleted, or a deletion of the same file name
\* is on its way, or one has been carried out.
Leaving(l, left) ==
    \A p \in PathsOf(l) \ files : items[p] = l =>
        \/ p \in left
        \/ \E e \in Coming : BaseOf[e.path] = BaseOf[p]
        \/ \E q \in PathsOf(l) \ {p} : BaseOf[q] = BaseOf[p] /\ items[q] = NoLibrary

\* What a scan of l has come to, nothing being beside it.
Walked(s, l) ==
    /\ Coming = {}
    /\ scan[s].left \subseteq PathsOf(l) /\ scan[s].seen \subseteq Present(l)
    /\ Present(l) \subseteq scan[s].left \cup scan[s].seen
Entering(s, l) ==
    /\ \A e \in Coming : e.kind = "create"
    /\ scan[s].seen = Present(l) /\ scan[s].left \subseteq Present(l)
    /\ \A p \in Present(l) : \/ p \in scan[s].left \/ items[p] # NoLibrary
                             \/ \E e \in Coming : e.path = p
Listing(s, l) ==
    Coming = {} /\ scan[s].left = {} /\ scan[s].seen = Present(l) /\ Entered(l)
Pruned(l, left) ==
    /\ \A e \in Coming : e.kind = "delete"
    /\ left \subseteq PathsOf(l) \ files
    /\ Entered(l) /\ Leaving(l, left)

Stage(s, l) ==
    /\ scan[s].lib = l
    /\ scan[s].pc = "walking"    => Walked(s, l)
    /\ scan[s].pc = "submitting" => Entering(s, l)
    /\ scan[s].pc = "listing"    => Listing(s, l)
    /\ scan[s].pc = "pruning"    => Pruned(l, scan[s].left)

\* What is on its way while only a scan of l has been at work since it began.
Own(e, l) ==
    /\ e.tag = l /\ e.path \in PathsOf(l)
    /\ e.kind \in {"create", "delete"}
    /\ e.kind = "create" <=> e.path \in files

Orderly(l) ==
    /\ watch = <<>> /\ l \notin away
    /\ \A c \in Consumer : pc[c] \in {"idle", "busy"}
    /\ \A e \in Coming : Own(e, l)
    /\ \A s, t \in Scanner : Works(s) /\ Works(t) => s = t
    /\ \A s \in Scanner : Works(s) => Stage(s, l)
    /\ (\A s \in Scanner : ~Works(s)) => Pruned(l, {})

\* The inductive invariant behind ScanAgrees.
AgreeInv ==
    /\ CountInv
    /\ \A s \in Scanner : scan[s].pc = "asked" => scan[s].seen = {}
    /\ \A l \in Library : clean = l /\ dropped = {} => Orderly(l)

-----------------------------------------------------------------------------
(* Types.                                                                  *)

\* An event that is made is one.
LEMMA EventMade ==
    ASSUME NEW kind \in {"create", "modify", "delete", "rename"}, NEW p \in Path,
           NEW tag \in Library \cup {NoLibrary}
    PROVE  /\ EventOf(kind, p, tag) \in Event
           /\ EventOf(kind, p, tag).kind = kind
           /\ EventOf(kind, p, tag).path = p
           /\ EventOf(kind, p, tag).tag = tag
           /\ EventOf(kind, p, tag).old = p
BY DEF EventOf, Event

LEMMA RenameMade ==
    ASSUME NEW d \in Event, NEW e \in Event
    PROVE  /\ Renamed(d, e) \in Event
           /\ Renamed(d, e).kind = "rename"
           /\ Renamed(d, e).old = d.path
           /\ Renamed(d, e).path = e.path
           /\ Renamed(d, e).tag = e.tag
BY DEF Renamed, Event

\* A queued event keeps the types.
LEMMA EnqueueTyped ==
    ASSUME IngestTyped, NEW e \in Event, Enqueue(e)
    PROVE  /\ channel' \in Seq(Event) /\ Len(channel') <= Capacity
           /\ inflight' \in [Library -> Int]
           /\ dropped' \subseteq Path
<1>1. e.tag \in Library \cup {NoLibrary} /\ e.path \in Path /\ e.old \in Path
  BY DEF Event
<1>2. Counted(e, 1) \in [Library -> Int]
  BY <1>1 DEF Counted, IngestTyped
<1>3. CASE /\ Len(channel) < Capacity
           /\ channel' = Append(channel, e)
           /\ inflight' = Counted(e, 1)
           /\ UNCHANGED dropped
  <2>1. Append(channel, e) \in Seq(Event) /\ Len(Append(channel, e)) = Len(channel) + 1
    BY DEF IngestTyped
  <2> QED
    BY <1>2, <1>3, <2>1, IngestAssumption DEF IngestTyped
<1>4. CASE dropped' = dropped \cup {e.path, e.old} /\ UNCHANGED <<channel, inflight>>
  BY <1>1, <1>4 DEF IngestTyped
<1> QED
  BY <1>3, <1>4 DEF Enqueue

\* A submitted event does, be it buffered, paired or queued.
LEMMA SubmitTyped ==
    ASSUME IngestTyped, NEW e \in Event, Submit(e)
    PROVE  IngestTyped'
<1>1. UNCHANGED <<items, pc, hand, touched, stabilizing>>
  BY DEF Submit, consumers
<1>2. BaseOf[e.path] \in Base /\ e # NoEvent
  BY IngestAssumption, NoEventAssumption DEF Event
<1>3. CASE e.kind = "delete" /\ OnDelete(e)
  BY <1>1, <1>2, <1>3 DEF OnDelete, IngestTyped
<1>4. CASE OnCreate(e)
  <2> DEFINE d == pending[BaseOf[e.path]]
  <2>1. CASE Pairs(d, e)
    <3>1. d \in Event
      BY <1>2, <2>1 DEF Pairs, IngestTyped
    <3>2. /\ pending' = [pending EXCEPT ![BaseOf[e.path]] = NoEvent]
          /\ Enqueue(Renamed(d, e))
      BY <1>4, <2>1 DEF OnCreate
    <3>3. Renamed(d, e) \in Event
      BY <3>1, RenameMade
    <3> QED
      BY <1>1, <3>2, <3>3, EnqueueTyped DEF IngestTyped
  <2>2. CASE ~Pairs(d, e)
    <3>1. Enqueue(e) /\ UNCHANGED pending
      BY <1>4, <2>2 DEF OnCreate
    <3> QED
      BY <1>1, <3>1, EnqueueTyped DEF IngestTyped
  <2> QED
    BY <2>1, <2>2
<1>5. CASE Enqueue(e) /\ UNCHANGED pending
  BY <1>1, <1>5, EnqueueTyped DEF IngestTyped
<1> QED
  BY <1>3, <1>4, <1>5 DEF Submit

\* So does the deletion whose moment is over.
LEMMA FlushTyped ==
    ASSUME IngestTyped, NEW b \in Base, FlushDelete(b)
    PROVE  IngestTyped'
<1>1. pending[b] \in Event
  BY DEF FlushDelete, IngestTyped
<1>2. /\ channel' \in Seq(Event) /\ Len(channel') <= Capacity
      /\ inflight' \in [Library -> Int]
      /\ dropped' \subseteq Path
  BY <1>1, EnqueueTyped DEF FlushDelete
<1> QED
  BY <1>2 DEF FlushDelete, IngestTyped, consumers

\* And every step of a consumer.
LEMMA ConsumerTyped ==
    ASSUME IngestTyped, NEW c \in Consumer, Take(c) \/ Process(c) \/ ProcessFails(c)
    PROVE  IngestTyped'
<1>1. CASE Take(c)
  <2>1. Head(channel) \in Event /\ Tail(channel) \in Seq(Event) /\ Len(Tail(channel)) <= Capacity
    BY <1>1, IngestAssumption DEF Take, IngestTyped
  <2> QED
    BY <1>1, <2>1, NoEventAssumption DEF Take, IngestTyped
<1>2. CASE BeginWait(c)
  <2>1. hand[c] \in Event
    BY <1>2 DEF BeginWait, Creates, IngestTyped
  <2>2. hand[c].path \in Path
    BY <2>1 DEF Event
  <2> QED
    BY <1>2, <2>2 DEF BeginWait, Creates, IngestTyped
<1>3. CASE WaitStable(c)
  BY <1>3 DEF WaitStable, IngestTyped
<1>4. CASE processRename(c) /\ ~Finish(c)
  <2>1. hand[c] \in Event
    BY <1>4 DEF processRename, IngestTyped
  <2>2. EventOf("create", hand[c].path, hand[c].tag) \in Event
    BY <2>1, EventMade DEF Event
  <2> QED
    BY <1>4, <2>2, NoEventAssumption DEF processRename, IngestTyped
<1>5. CASE \/ SkipCreate(c) \/ WaitFails(c) \/ processCreate(c) \/ processDelete(c)
           \/ (processRename(c) /\ Finish(c)) \/ ProcessFails(c)
  <2>1. hand[c] \in Event /\ Finish(c)
    <3>1. pc[c] \in {"busy", "waiting", "stable"}
      BY <1>5 DEF SkipCreate, WaitFails, processCreate, processDelete, processRename, ProcessFails, Creates
    <3> QED
      BY <1>5, <3>1 DEF SkipCreate, WaitFails, processCreate, processDelete, ProcessFails, IngestTyped
  <2>2. /\ hand[c].tag \in Library \cup {NoLibrary}
        /\ hand[c].path \in Path /\ hand[c].old \in Path
        /\ LibraryOf[hand[c].path] \in Library
    BY <2>1, IngestAssumption DEF Event
  <2>3. Counted(hand[c], -1) \in [Library -> Int]
    BY <2>2 DEF Counted, IngestTyped
  <2>4. items' \in [Path -> Library \cup {NoLibrary}]
    <3>1. CASE SkipCreate(c) \/ WaitFails(c) \/ ProcessFails(c)
      BY <3>1 DEF SkipCreate, WaitFails, ProcessFails, IngestTyped
    <3>2. CASE processCreate(c)
      BY <2>2, <3>2 DEF processCreate, scanOneMovie, IngestTyped
    <3>3. CASE processDelete(c)
      BY <2>2, <3>3 DEF processDelete, IngestTyped
    <3>4. CASE processRename(c)
      BY <2>2, <3>4 DEF processRename, IngestTyped
    <3> QED
      BY <1>5, <3>1, <3>2, <3>3, <3>4
  <2>5. dropped' \subseteq Path
    BY <1>5, <2>2 DEF SkipCreate, WaitFails, processCreate, processDelete, processRename, ProcessFails,
                      IngestTyped
  <2>6. /\ pc' \in [Consumer -> {"idle", "busy", "waiting", "stable"}]
        /\ hand' \in [Consumer -> Event \cup {NoEvent}]
        /\ \A d \in Consumer : pc'[d] = "idle" <=> hand'[d] = NoEvent
        /\ touched' \in [Consumer -> BOOLEAN]
        /\ stabilizing' \subseteq Path
    BY <2>1 DEF Finish, IngestTyped
  <2> QED
    BY <2>1, <2>3, <2>4, <2>5, <2>6 DEF Finish, IngestTyped
<1> QED
  BY <1>1, <1>2, <1>3, <1>4, <1>5 DEF Process

\* What a file change leaves of Ingest, and brings to the watcher.
LEMMA ChangeTyped ==
    ASSUME TypeOK, FileChange
    PROVE  TypeOK'
<1>0. IngestTyped /\ AroundTyped
  BY TypeParts
<1>1. ASSUME NEW S, Change(S), files' \subseteq Path PROVE IngestTyped'
  <2>1. touched' \in [Consumer -> BOOLEAN]
    BY <1>0, <1>1 DEF Change, IngestTyped
  <2> QED
    BY <1>0, <1>1, <2>1 DEF Change, IngestTyped, scans
<1>2. ASSUME NEW S, Change(S), files' \subseteq Path, watch' \in Seq(Op) PROVE AroundTyped'
  BY <1>0, <1>2, ScanAssumption DEF Change, Outside, AroundTyped, scans
<1>3. ASSUME NEW op \in {"create", "write", "remove", "moved"}, NEW p \in Path
      PROVE  Notified(op, p) \in Seq(Op)
  <2>1. [op |-> op, path |-> p] \in Op
    BY DEF Op
  <2> QED
    BY <2>1 DEF Notified
<1>4. ASSUME NEW w1 \in Seq(Op), NEW w2 \in Seq(Op) PROVE w1 \o w2 \in Seq(Op)
  OBVIOUS
<1>5. watch \in Seq(Op) /\ files \subseteq Path
  BY <1>0 DEF AroundTyped
<1>6. ASSUME NEW p \in Path, Add(p) \/ Write(p) \/ Remove(p) PROVE TypeOK'
  <2>1. files' \subseteq Path /\ Change({p})
    BY <1>5, <1>6 DEF Add, Write, Remove
  <2>2. watch' \in Seq(Op)
    BY <1>3, <1>4, <1>5, <1>6 DEF Add, Write, Remove, Notify
  <2> QED
    BY <1>1, <1>2, <2>1, <2>2, TypeParts
<1>7. ASSUME NEW p \in Path, NEW q \in Path, Move(p, q) PROVE TypeOK'
  <2>1. files' \subseteq Path /\ Change({p, q})
    BY <1>5, <1>7 DEF Move
  <2>2. watch' \in Seq(Op)
    BY <1>3, <1>4, <1>5, <1>7 DEF Move
  <2> QED
    BY <1>1, <1>2, <2>1, <2>2, TypeParts
<1> QED
  BY <1>6, <1>7 DEF FileChange

\* The watcher.
LEMMA HandleTyped ==
    ASSUME TypeOK, Handle
    PROVE  TypeOK'
<1>0. IngestTyped /\ AroundTyped
  BY TypeParts
<1>1. Head(watch) \in Op /\ Tail(watch) \in Seq(Op)
  BY <1>0 DEF Handle, AroundTyped
<1>2. Handled(Head(watch)) \in Event
  BY <1>1, EventMade DEF Handled, Op
<1>3. IngestTyped'
  BY <1>0, <1>2, SubmitTyped DEF Handle
<1>4. AroundTyped'
  BY <1>0, <1>1 DEF Handle, AroundTyped, environment, disk, scans, history
<1> QED
  BY <1>3, <1>4, TypeParts

\* A scan that is set to a scan keeps the types.
LEMMA SetTyped ==
    ASSUME AroundTyped, NEW s \in Scanner, NEW r \in Scan, Set(s, r),
           r.pc = "idle" <=> r.lib = NoLibrary
    PROVE  /\ scan' \in [Scanner -> Scan]
           /\ \A t \in Scanner : scan'[t].pc = "idle" <=> scan'[t].lib = NoLibrary
BY DEF Set, AroundTyped

LEMMA ScanTyped ==
    ASSUME TypeOK, NEW s \in Scanner, ScanStep(s) \/ ListFails(s) \/ \E l \in Library : Ask(s, l)
    PROVE  TypeOK'
<1>0. IngestTyped /\ AroundTyped /\ scan[s] \in Scan
  BY TypeParts DEF AroundTyped
<1>1. NoScan \in Scan /\ NoScan.pc = "idle" /\ NoScan.lib = NoLibrary
  BY DEF NoScan, Scan
<1>2. ASSUME NEW r \in Scan, Set(s, r), r.pc = "idle" <=> r.lib = NoLibrary,
             UNCHANGED <<environment, watch>>, scanning' \subseteq Library,
             clean' \in Library \cup {NoLibrary}, UNCHANGED gone
      PROVE  AroundTyped'
  BY <1>0, <1>2, SetTyped DEF AroundTyped, environment, disk
<1>3. ASSUME UNCHANGED ingest PROVE IngestTyped'
  BY <1>0, <1>3 DEF ingest, consumers, IngestTyped
<1>4. scanning \subseteq Library /\ clean \in Library \cup {NoLibrary}
  BY <1>0 DEF AroundTyped
<1>5. ASSUME NEW p \in Path, SubmitSeen(s, p) \/ SubmitMissing(s, p) PROVE TypeOK'
  <2>1. scan[s].lib \in Library \cup {NoLibrary}
    BY <1>0 DEF Scan
  <2>2. IngestTyped'
    BY <1>0, <1>5, <2>1, EventMade, SubmitTyped DEF SubmitSeen, SubmitMissing
  <2>3. [scan[s] EXCEPT !.left = @ \ {p}] \in Scan
    BY <1>0 DEF Scan
  <2>4. /\ [scan[s] EXCEPT !.left = @ \ {p}].pc = scan[s].pc
        /\ [scan[s] EXCEPT !.left = @ \ {p}].lib = scan[s].lib
    BY <1>0 DEF Scan
  <2>5. AroundTyped'
    BY <1>0, <1>2, <1>4, <1>5, <2>3, <2>4 DEF SubmitSeen, SubmitMissing, history, AroundTyped
  <2> QED
    BY <2>2, <2>5, TypeParts
<1>6. ASSUME NEW p \in Path, Walk(s, p) PROVE TypeOK'
  <2> DEFINE r == [scan[s] EXCEPT !.left = @ \ {p}, !.seen = IF OnDisk(p) THEN @ \cup {p} ELSE @]
  <2>1. r \in Scan /\ r.pc = scan[s].pc /\ r.lib = scan[s].lib
    BY <1>0 DEF Scan
  <2>2. Set(s, r) /\ UNCHANGED <<environment, ingest, watch, scanning, history>>
    BY <1>6 DEF Walk
  <2> HIDE DEF r
  <2>3. AroundTyped'
    BY <1>0, <1>2, <1>4, <2>1, <2>2 DEF history, AroundTyped
  <2> QED
    BY <1>3, <2>2, <2>3, TypeParts
<1>7. ASSUME NEW now \in {"submitting", "listing", "pruning"}, NEW left \in SUBSET Path,
             scan[s].pc # "idle",
             Set(s, [scan[s] EXCEPT !.pc = now, !.left = left]),
             UNCHANGED <<environment, ingest, watch, scanning, gone>>,
             clean' \in {clean, NoLibrary}
      PROVE  TypeOK'
  <2> DEFINE r == [scan[s] EXCEPT !.pc = now, !.left = left]
  <2>1. r \in Scan /\ r.pc = now /\ r.lib = scan[s].lib /\ scan[s].lib # NoLibrary
    BY <1>0, <1>7 DEF Scan, AroundTyped
  <2> HIDE DEF r
  <2>2. AroundTyped'
    BY <1>2, <1>4, <1>7, <2>1 DEF r
  <2> QED
    BY <1>3, <1>7, <2>2, TypeParts
<1>8. scan[s].left \subseteq Path /\ scan[s].seen \subseteq Path
  BY <1>0 DEF Scan
<1>9. CASE Collected(s)
  BY <1>7, <1>8, <1>9 DEF Collected, history
<1>10. CASE Barrier(s) \/ ListFails(s)
  <2>1. ASSUME NEW now \in {"listing", "pruning"}
        PROVE  [scan[s] EXCEPT !.pc = now] = [scan[s] EXCEPT !.pc = now, !.left = scan[s].left]
    BY <1>0 DEF Scan
  <2> QED
    BY <1>7, <1>8, <1>10, <2>1 DEF Barrier, ListFails, history
<1>11. CASE pruneMissingPaths(s)
  <2> DEFINE left == {p \in PathsOf(scan[s].lib) : items[p] = scan[s].lib} \ scan[s].seen
  <2>1. left \in SUBSET Path
    BY DEF PathsOf
  <2>2. Set(s, [scan[s] EXCEPT !.pc = "pruning", !.left = left]) /\ scan[s].pc = "listing"
    BY <1>11 DEF pruneMissingPaths
  <2> HIDE DEF left
  <2> QED
    BY <1>7, <1>11, <2>1, <2>2 DEF pruneMissingPaths, history
<1>12. CASE CompleteScan(s)
  <2>1. AroundTyped'
    BY <1>1, <1>2, <1>4, <1>12 DEF CompleteScan, history
  <2> QED
    BY <1>3, <1>12, <2>1, TypeParts DEF CompleteScan
<1>13. CASE StartScan(s)
  <2>1. scan[s].lib \in Library
    BY <1>0, <1>13 DEF StartScan, Scan, AroundTyped
  <2> DEFINE r == [scan[s] EXCEPT !.pc = "walking", !.left = PathsOf(scan[s].lib)]
  <2>2. r \in Scan /\ r.pc = "walking" /\ r.lib = scan[s].lib
    BY <1>0 DEF Scan, PathsOf
  <2>3. /\ \/ Set(s, r) /\ scanning' = scanning \cup {scan[s].lib}
           \/ Set(s, NoScan) /\ scanning' = scanning \ {scan[s].lib}
        /\ clean' \in {scan[s].lib, NoLibrary}
        /\ UNCHANGED <<environment, watch, gone>>
    BY <1>13 DEF StartScan
  <2> HIDE DEF r
  <2>4. AroundTyped'
    BY <1>1, <1>2, <1>4, <2>1, <2>2, <2>3, IngestAssumption
  <2>5. IngestTyped'
    BY <1>0, <1>13 DEF StartScan, IngestTyped, consumers
  <2> QED
    BY <2>4, <2>5, TypeParts
<1>14. ASSUME NEW l \in Library, Ask(s, l) PROVE TypeOK'
  <2> DEFINE r == [NoScan EXCEPT !.pc = "asked", !.lib = l]
  <2>1. r \in Scan /\ r.pc = "asked" /\ r.lib = l
    BY DEF NoScan, Scan
  <2>2. Set(s, r) /\ Outside /\ UNCHANGED <<disk, ingest, watch, scanning, history>>
    BY <1>14 DEF Ask
  <2> HIDE DEF r
  <2>3. outside' \in 0..MaxOutside
    BY <1>0, <2>2, ScanAssumption DEF Outside, AroundTyped
  <2>4. AroundTyped'
    BY <1>0, <2>1, <2>2, <2>3, SetTyped, IngestAssumption DEF AroundTyped, disk, history
  <2> QED
    BY <1>3, <2>2, <2>4, TypeParts
<1> QED
  BY <1>5, <1>6, <1>9, <1>10, <1>11, <1>12, <1>13, <1>14 DEF ScanStep

\* Every step keeps the types.
LEMMA NextTyped == TypeOK /\ [Next]_vars => TypeOK'
<1> SUFFICES ASSUME TypeOK, [Next]_vars PROVE TypeOK'
  OBVIOUS
<1>0. IngestTyped /\ AroundTyped
  BY TypeParts
<1>1. CASE UNCHANGED vars
  BY <1>1 DEF vars, disk, ingest, consumers, scans, history, TypeOK
<1>2. ASSUME UNCHANGED <<environment, watch, scans, history>> PROVE AroundTyped'
  BY <1>0, <1>2 DEF environment, disk, scans, history, AroundTyped
<1>3. ASSUME NEW b \in Base, Flush(b) PROVE TypeOK'
  <2>1. UNCHANGED <<environment, watch, scans, history>>
    BY <1>3 DEF Flush, FlushDelete, environment, disk
  <2> QED
    BY <1>0, <1>2, <1>3, <2>1, FlushTyped, TypeParts DEF Flush
<1>4. ASSUME NEW c \in Consumer, Consume(c) \/ Fault(c) PROVE TypeOK'
  <2>1. UNCHANGED <<environment, watch, scans, history>>
    BY <1>4 DEF Consume, Fault, Take, Process, ProcessFails, BeginWait, SkipCreate, WaitStable,
       WaitFails, processCreate, processDelete, processRename, Finish, environment, disk
  <2> QED
    BY <1>0, <1>2, <1>4, <2>1, ConsumerTyped, TypeParts DEF Consume, Fault
<1>5. ASSUME NEW l \in Remote, Remount(l) PROVE TypeOK'
  <2>1. IngestTyped'
    BY <1>0, <1>5 DEF Remount, ingest, consumers, IngestTyped
  <2>2. AroundTyped'
    BY <1>0, <1>5, ScanAssumption DEF Remount, Outside, scans, AroundTyped
  <2> QED
    BY <2>1, <2>2, TypeParts
<1>6. CASE Crash
  <2>1. IngestTyped'
    BY <1>0, <1>6, IngestAssumption DEF Crash, IngestTyped
  <2>2. AroundTyped'
    <3>1. NoScan \in Scan /\ NoScan.pc = "idle" /\ NoScan.lib = NoLibrary
      BY DEF NoScan, Scan
    <3> QED
      BY <1>0, <1>6, <3>1, ScanAssumption DEF Crash, Outside, disk, AroundTyped
  <2> QED
    BY <2>1, <2>2, TypeParts
<1> QED
  BY <1>1, <1>3, <1>4, <1>5, <1>6, ChangeTyped, HandleTyped, ScanTyped DEF Next, Work

LEMMA InitTyped == Init => TypeOK
<1> SUFFICES ASSUME Init PROVE TypeOK
  OBVIOUS
<1>1. IngestTyped
  BY IngestAssumption DEF Init, IngestInit, IngestTyped
<1>2. NoScan \in Scan /\ NoScan.pc = "idle" /\ NoScan.lib = NoLibrary
  BY DEF NoScan, Scan
<1>3. AroundTyped
  BY <1>2, ScanAssumption DEF Init, AroundTyped
<1> QED
  BY <1>1, <1>3, TypeParts

\* The disk, the table, the rename buffer, the channel, the consumers and the
\* scans stay well typed, and the channel within its bound.
THEOREM TypeCorrect == Spec => []TypeOK
BY InitTyped, NextTyped, PTL DEF Spec

-----------------------------------------------------------------------------
(* The marks of the files that consumers wait for.                         *)

\* A mark is made and unmade by the consumer that waits.
LEMMA NextMarks == MarksInv /\ [Next]_vars => MarksInv'
<1> SUFFICES ASSUME MarksInv, [Next]_vars PROVE MarksInv'
  OBVIOUS
<1>0. TypeOK' /\ IngestTyped
  BY NextTyped, TypeParts DEF MarksInv
<1>1. ASSUME UNCHANGED <<pc, stabilizing>>,
             \A c \in Consumer : Marks(c) => hand'[c] = hand[c]
      PROVE  MarksInv'
  BY <1>0, <1>1 DEF MarksInv, Marks
<1>2. ASSUME NEW c \in Consumer, Finish(c), hand[c] \in Event PROVE MarksInv'
  <2>1. /\ \A d \in Consumer : d # c => pc'[d] = pc[d] /\ hand'[d] = hand[d]
        /\ pc'[c] = "idle"
        /\ stabilizing' = IF pc[c] = "busy" THEN stabilizing ELSE stabilizing \ {hand[c].path}
    BY <1>0, <1>2 DEF Finish, IngestTyped
  <2>2. pc[c] # "idle"
    BY <1>0, <1>2, NoEventAssumption DEF IngestTyped
  <2>3. pc[c] # "busy" <=> Marks(c)
    BY <1>0, <2>2 DEF Marks, IngestTyped
  <2>4. \A d \in Consumer : Marks(d)' <=> d # c /\ Marks(d)
    BY <2>1 DEF Marks
  <2> QED
    BY <1>0, <2>1, <2>3, <2>4 DEF MarksInv
<1>3. ASSUME NEW c \in Consumer, Consume(c) \/ Fault(c) PROVE MarksInv'
  <2>1. CASE Take(c)
    <3>1. /\ \A d \in Consumer : d # c => pc'[d] = pc[d] /\ hand'[d] = hand[d]
          /\ pc[c] = "idle" /\ pc'[c] = "busy" /\ UNCHANGED stabilizing
      BY <1>0, <2>1 DEF Take, IngestTyped
    <3> QED
      BY <1>0, <3>1 DEF MarksInv, Marks
  <2>2. CASE BeginWait(c)
    <3>1. /\ \A d \in Consumer : d # c => pc'[d] = pc[d]
          /\ pc[c] = "busy" /\ pc'[c] = "waiting" /\ UNCHANGED hand
          /\ hand[c].path \notin stabilizing /\ stabilizing' = stabilizing \cup {hand[c].path}
      BY <1>0, <2>2 DEF BeginWait, Creates, IngestTyped
    <3>2. hand[c].path \in Path
      BY <1>0, <3>1 DEF IngestTyped, Event
    <3> QED
      BY <1>0, <3>1, <3>2 DEF MarksInv, Marks
  <2>3. CASE WaitStable(c)
    <3>1. /\ \A d \in Consumer : d # c => pc'[d] = pc[d]
          /\ pc[c] = "waiting" /\ pc'[c] = "stable" /\ UNCHANGED <<hand, stabilizing>>
      BY <1>0, <2>3 DEF WaitStable, IngestTyped
    <3> QED
      BY <1>0, <3>1 DEF MarksInv, Marks
  <2>4. CASE processRename(c) /\ ~Finish(c)
    BY <1>0, <1>1, <2>4 DEF processRename, Marks, IngestTyped
  <2>5. CASE SkipCreate(c) \/ WaitFails(c) \/ processCreate(c) \/ processDelete(c)
             \/ (processRename(c) /\ Finish(c)) \/ ProcessFails(c)
    <3>1. pc[c] \in {"busy", "waiting", "stable"}
      BY <2>5 DEF SkipCreate, WaitFails, processCreate, processDelete, processRename, ProcessFails, Creates
    <3>2. hand[c] \in Event
      BY <1>0, <3>1 DEF IngestTyped
    <3> QED
      BY <1>2, <2>5, <3>2 DEF SkipCreate, WaitFails, processCreate, processDelete, ProcessFails
  <2> QED
    BY <1>3, <2>1, <2>2, <2>3, <2>4, <2>5 DEF Consume, Fault, Process
<1>4. CASE Crash
  BY <1>0, <1>4 DEF Crash, MarksInv, Marks
<1>5. ASSUME UNCHANGED <<pc, hand, stabilizing>> PROVE MarksInv'
  BY <1>1, <1>5
<1>6. CASE UNCHANGED vars
  BY <1>5, <1>6 DEF vars, ingest, consumers
<1>7. CASE FileChange \/ (\E l \in Remote : Remount(l))
  BY <1>5, <1>7 DEF FileChange, Add, Write, Remove, Move, Change, Remount, ingest, consumers
<1>8. CASE Handle \/ (\E b \in Base : Flush(b))
  BY <1>5, <1>8 DEF Handle, Submit, Flush, FlushDelete, consumers
<1>9. ASSUME NEW s \in Scanner, ScanStep(s) \/ ListFails(s) \/ \E l \in Library : Ask(s, l)
      PROVE  MarksInv'
  BY <1>5, <1>9 DEF ScanStep, StartScan, Walk, SubmitSeen, SubmitMissing, Collected, Barrier,
     pruneMissingPaths, CompleteScan, ListFails, Ask, Submit, ingest, consumers
<1> QED
  BY <1>3, <1>4, <1>6, <1>7, <1>8, <1>9 DEF Next, Work

\* A file is marked exactly as long as a consumer waits for it
\* (ingest_worker.go:321).
THEOREM MarksExact == Spec => []StabilizingExact
<1>1. Init => MarksInv
  <2>1. Init => TypeOK
    BY InitTyped
  <2> QED
    BY <2>1 DEF Init, IngestInit, MarksInv, Marks
<1>2. MarksInv => StabilizingExact
  <2> SUFFICES ASSUME MarksInv PROVE StabilizingExact
    OBVIOUS
  <2>1. \A c \in Consumer : Marks(c) => hand[c].path \in Path
    BY DEF MarksInv, Marks, TypeOK, Event
  <2>2. stabilizing \subseteq Path
    BY DEF MarksInv, TypeOK
  <2> QED
    BY <2>1, <2>2 DEF MarksInv, Marks, StabilizingExact
<1> QED
  BY <1>1, <1>2, NextMarks, PTL DEF Spec

-----------------------------------------------------------------------------
(* The items of the files that are always there.                           *)

\* A queued event, one that was submitted.
LEMMA EnqueueDoomed ==
    ASSUME IngestTyped, NEW e \in Event, Enqueue(e), NEW G, Doomed(e, G),
           \A i \in 1..Len(channel) : Doomed(channel[i], G)
    PROVE  \A i \in 1..Len(channel') : Doomed(channel'[i], G)
<1>1. CASE channel' = Append(channel, e)
  <2>1. /\ Len(channel') = Len(channel) + 1
        /\ \A i \in 1..Len(channel) : channel'[i] = channel[i]
        /\ channel'[Len(channel) + 1] = e
    BY <1>1 DEF IngestTyped
  <2>2. Len(channel) \in Nat
    BY DEF IngestTyped
  <2> QED
    BY <2>1, <2>2
<1>2. CASE UNCHANGED channel
  BY <1>2
<1> QED
  BY <1>1, <1>2 DEF Enqueue

LEMMA SubmitDoomed ==
    ASSUME IngestTyped, EventsDoomed, NEW e \in Event, Submit(e), Doomed(e, gone), UNCHANGED gone
    PROVE  EventsDoomed'
<1>1. UNCHANGED hand
  BY DEF Submit, consumers
<1>2. BaseOf[e.path] \in Base
  BY IngestAssumption DEF Event
<1>3. CASE e.kind = "delete" /\ OnDelete(e)
  BY <1>1, <1>2, <1>3 DEF OnDelete, EventsDoomed, IngestTyped, Doomed
<1>4. CASE OnCreate(e)
  <2> DEFINE d == pending[BaseOf[e.path]]
  <2>1. CASE Pairs(d, e)
    <3>1. d \in Event /\ d.path \in gone
      BY <1>2, <2>1 DEF Pairs, IngestTyped, EventsDoomed
    <3>2. /\ pending' = [pending EXCEPT ![BaseOf[e.path]] = NoEvent]
          /\ Enqueue(Renamed(d, e))
      BY <1>4, <2>1 DEF OnCreate
    <3>3. Renamed(d, e) \in Event /\ Doomed(Renamed(d, e), gone)
      BY <3>1, RenameMade DEF Doomed
    <3> QED
      BY <1>1, <3>2, <3>3, EnqueueDoomed DEF EventsDoomed, IngestTyped
  <2>2. CASE ~Pairs(d, e)
    <3>1. Enqueue(e) /\ UNCHANGED pending
      BY <1>4, <2>2 DEF OnCreate
    <3> QED
      BY <1>1, <3>1, EnqueueDoomed DEF EventsDoomed
  <2> QED
    BY <2>1, <2>2
<1>5. CASE Enqueue(e) /\ UNCHANGED pending
  BY <1>1, <1>5, EnqueueDoomed DEF EventsDoomed
<1> QED
  BY <1>3, <1>4, <1>5 DEF Submit

\* What a consumer takes.
LEMMA ConsumerDoomed ==
    ASSUME IngestTyped, EventsDoomed, NEW c \in Consumer, Consume(c) \/ Fault(c)
    PROVE  EventsDoomed'
<1>1. UNCHANGED gone
  BY DEF Consume, Fault, history
<1>2. CASE Take(c)
  <2>1. /\ channel # <<>> /\ channel' = Tail(channel)
        /\ hand' = [hand EXCEPT ![c] = Head(channel)] /\ UNCHANGED pending
    BY <1>2 DEF Take
  <2>2. /\ Len(channel') = Len(channel) - 1
        /\ \A i \in 1..Len(channel') : i + 1 \in 1..Len(channel) /\ channel'[i] = channel[i + 1]
        /\ 1 \in 1..Len(channel) /\ Head(channel) = channel[1]
    BY <2>1 DEF IngestTyped
  <2>3. \A i \in 1..Len(channel') : Doomed(channel'[i], gone)
    BY <2>2 DEF EventsDoomed
  <2>4. Doomed(Head(channel), gone)
    BY <2>2 DEF EventsDoomed
  <2> QED
    BY <1>1, <2>1, <2>3, <2>4 DEF EventsDoomed, IngestTyped
<1>3. CASE processRename(c) /\ ~Finish(c)
  <2>1. hand[c] \in Event
    BY <1>3 DEF processRename, IngestTyped
  <2>2. Doomed(EventOf("create", hand[c].path, hand[c].tag), gone)
    BY DEF EventOf, Doomed
  <2> QED
    BY <1>1, <1>3, <2>2 DEF processRename, EventsDoomed, IngestTyped
<1>4. CASE ~Take(c) /\ ~(processRename(c) /\ ~Finish(c))
  <2>1. UNCHANGED <<pending, channel>> /\ (UNCHANGED hand \/ Finish(c))
    BY <1>4 DEF Consume, Fault, Process, ProcessFails, BeginWait, SkipCreate, WaitStable, WaitFails,
       processCreate, processDelete, processRename, Finish
  <2> QED
    BY <1>1, <2>1 DEF Finish, EventsDoomed, IngestTyped
<1> QED
  BY <1>2, <1>3, <1>4

\* An item of a file that is always there is never taken away.
LEMMA ResidentItems ==
    ASSUME ResidentsInv, [Next]_vars, NEW p \in Path \ gone, items[p] # NoLibrary
    PROVE  items'[p] = items[p]
<1>0. IngestTyped /\ EventsDoomed
  BY TypeParts DEF ResidentsInv
<1>1. ASSUME NEW c \in Consumer, Consume(c) \/ Fault(c) PROVE items'[p] = items[p]
  <2>1. hand[c] # NoEvent => Doomed(hand[c], gone)
    BY <1>0 DEF EventsDoomed
  <2>2. CASE processCreate(c)
    BY <1>0, <2>2 DEF processCreate, scanOneMovie, IngestTyped
  <2>3. CASE processDelete(c)
    <3>1. hand[c].path # p
      BY <1>0, <2>1, <2>3 DEF processDelete, IngestTyped, Doomed
    <3> QED
      BY <1>0, <2>3, <3>1 DEF processDelete, IngestTyped
  <2>4. CASE processRename(c)
    <3>1. hand[c].old # p
      BY <1>0, <2>1, <2>4 DEF processRename, IngestTyped, Doomed
    <3> QED
      BY <1>0, <2>4, <3>1 DEF processRename, IngestTyped
  <2>5. CASE ~processCreate(c) /\ ~processDelete(c) /\ ~processRename(c)
    BY <1>1, <2>5 DEF Consume, Fault, Take, Process, ProcessFails, BeginWait, SkipCreate, WaitStable,
       WaitFails
  <2> QED
    BY <2>2, <2>3, <2>4, <2>5
<1>2. ASSUME UNCHANGED items PROVE items'[p] = items[p]
  BY <1>2
<1>3. CASE UNCHANGED vars
  BY <1>2, <1>3 DEF vars, ingest
<1>4. CASE FileChange \/ (\E l \in Remote : Remount(l)) \/ Crash
  BY <1>2, <1>4 DEF FileChange, Add, Write, Remove, Move, Change, Remount, ingest, Crash
<1>5. CASE Handle \/ (\E b \in Base : Flush(b))
  BY <1>2, <1>5 DEF Handle, Submit, Flush, FlushDelete
<1>6. ASSUME NEW s \in Scanner, ScanStep(s) \/ ListFails(s) \/ \E l \in Library : Ask(s, l)
      PROVE  items'[p] = items[p]
  BY <1>2, <1>6 DEF ScanStep, StartScan, Walk, SubmitSeen, SubmitMissing, Collected, Barrier,
     pruneMissingPaths, CompleteScan, ListFails, Ask, Submit, ingest
<1> QED
  BY <1>1, <1>3, <1>4, <1>5, <1>6 DEF Next, Work

\* What was known stays known as files come and go.
LEMMA KnownLater ==
    ASSUME NEW s \in Scanner, Knows(s), UNCHANGED scan[s], gone \subseteq gone'
    PROVE  Knows(s)'
BY DEF Knows

LEMMA DoomedLater ==
    ASSUME EventsDoomed, UNCHANGED <<pending, channel, hand>>, gone \subseteq gone'
    PROVE  EventsDoomed'
BY DEF EventsDoomed, Doomed

\* A file change dooms the paths it leaves without a file.
LEMMA ChangeResidents ==
    ASSUME ResidentsInv, FileChange
    PROVE  ResidentsInv'
<1>0. TypeOK' /\ AroundTyped /\ EventsDoomed
  BY ChangeTyped, TypeParts DEF ResidentsInv
<1>1. PICK S : Change(S)
  BY DEF FileChange, Add, Write, Remove, Move
<1>2. gone' = gone \cup (Path \ files') /\ UNCHANGED <<away, pending, channel, hand, scan>>
  BY <1>1 DEF Change, scans
<1>3. EventsDoomed' /\ \A s \in Scanner : Knows(s)'
  BY <1>0, <1>2, KnownLater, DoomedLater DEF ResidentsInv
<1>4. \A p \in Path \ gone' : OnDisk(p)'
  BY <1>2 DEF ResidentsInv, OnDisk
<1>5. WatchDoomed'
  <2>1. ASSUME NEW W \in Seq(Op), NEW o \in {"create", "write", "remove", "moved"}, NEW q \in Path,
               \A i \in 1..Len(W) : W[i].op \in {"remove", "moved"} => W[i].path \in gone',
               o \in {"remove", "moved"} => q \in gone'
        PROVE  /\ W \o Notified(o, q) \in Seq(Op)
               /\ \A i \in 1..Len(W \o Notified(o, q)) :
                     (W \o Notified(o, q))[i].op \in {"remove", "moved"}
                        => (W \o Notified(o, q))[i].path \in gone'
    <3>1. [op |-> o, path |-> q] \in Op
      BY DEF Op
    <3>2. CASE Notified(o, q) = <<>>
      BY <2>1, <3>2
    <3>3. CASE Notified(o, q) = <<[op |-> o, path |-> q]>>
      <4> DEFINE V == W \o <<[op |-> o, path |-> q]>>
      <4>1. /\ V \in Seq(Op) /\ Len(V) = Len(W) + 1 /\ Len(W) \in Nat
            /\ \A i \in 1..Len(W) : V[i] = W[i]
            /\ V[Len(W) + 1] = [op |-> o, path |-> q]
        BY <3>1
      <4> HIDE DEF V
      <4>2. \A i \in 1..Len(V) : V[i].op \in {"remove", "moved"} => V[i].path \in gone'
        BY <2>1, <4>1
      <4> QED
        BY <3>3, <4>1, <4>2 DEF V
    <3> QED
      BY <3>2, <3>3 DEF Notified
  <2>2. /\ watch \in Seq(Op)
        /\ \A i \in 1..Len(watch) : watch[i].op \in {"remove", "moved"} => watch[i].path \in gone'
    BY <1>0, <1>2 DEF AroundTyped, ResidentsInv, WatchDoomed
  <2>3. ASSUME NEW p \in Path, Add(p) \/ Write(p) PROVE  WatchDoomed'
    BY <2>1, <2>2, <2>3 DEF Add, Write, Notify, WatchDoomed
  <2>4. ASSUME NEW p \in Path, Remove(p) PROVE  WatchDoomed'
    <3>1. p \in gone'
      BY <1>2, <2>4 DEF Remove
    <3> QED
      BY <2>1, <2>2, <2>4, <3>1 DEF Remove, Notify, WatchDoomed
  <2>5. ASSUME NEW p \in Path, NEW q \in Path, Move(p, q) PROVE WatchDoomed'
    <3>1. p \in gone'
      BY <1>2, <2>5 DEF Move
    <3>2. /\ watch \o Notified("moved", p) \in Seq(Op)
          /\ \A i \in 1..Len(watch \o Notified("moved", p)) :
                (watch \o Notified("moved", p))[i].op \in {"remove", "moved"}
                   => (watch \o Notified("moved", p))[i].path \in gone'
      BY <2>1, <2>2, <3>1
    <3> QED
      BY <2>1, <2>5, <3>2 DEF Move, WatchDoomed
  <2> QED
    BY <2>3, <2>4, <2>5 DEF FileChange
<1> QED
  BY <1>0, <1>3, <1>4, <1>5 DEF ResidentsInv

\* The watcher tells of what it heard.
LEMMA HandleResidents ==
    ASSUME ResidentsInv, Handle
    PROVE  ResidentsInv'
<1>0. TypeOK' /\ IngestTyped /\ AroundTyped /\ EventsDoomed
  BY HandleTyped, TypeParts DEF ResidentsInv
<1>1. UNCHANGED <<files, away, gone, scan>> /\ Submit(Handled(Head(watch))) /\ watch' = Tail(watch)
  BY DEF Handle, environment, disk, scans, history
<1>2. /\ Head(watch) \in Op /\ 1 \in 1..Len(watch) /\ Head(watch) = watch[1]
      /\ \A i \in 1..Len(watch') : i + 1 \in 1..Len(watch) /\ watch'[i] = watch[i + 1]
  BY <1>0, <1>1 DEF Handle, AroundTyped
<1>3. WatchDoomed'
  BY <1>1, <1>2 DEF WatchDoomed, ResidentsInv
<1>4. Handled(Head(watch)) \in Event
  BY <1>2, EventMade DEF Handled, Op
<1>5. Doomed(Handled(Head(watch)), gone)
  <2>1. Head(watch).op \in {"remove", "moved"} => Head(watch).path \in gone
    BY <1>2 DEF ResidentsInv, WatchDoomed
  <2>2. Head(watch).op \in {"create", "write", "remove", "moved"}
    BY <1>2 DEF Op
  <2> QED
    BY <2>1, <2>2 DEF Handled, EventOf, Doomed
<1>6. EventsDoomed'
  BY <1>0, <1>1, <1>4, <1>5, SubmitDoomed
<1>7. \A s \in Scanner : Knows(s)'
  BY <1>1, KnownLater DEF ResidentsInv
<1> QED
  BY <1>0, <1>1, <1>3, <1>6, <1>7 DEF ResidentsInv, OnDisk

\* A scan that walks sees the files that are always there, and what it deletes
\* had no file when it looked.
LEMMA ScanResidents ==
    ASSUME ResidentsInv, NEW s \in Scanner,
           ScanStep(s) \/ ListFails(s) \/ \E l \in Library : Ask(s, l)
    PROVE  ResidentsInv'
<1>0. TypeOK' /\ IngestTyped /\ AroundTyped /\ EventsDoomed /\ Knows(s) /\ scan[s] \in Scan
  BY ScanTyped, TypeParts DEF ResidentsInv, AroundTyped
<1>1. /\ UNCHANGED <<files, away, gone, watch>>
      /\ \A t \in Scanner : t # s => scan'[t] = scan[t]
  BY <1>0 DEF ScanStep, StartScan, Walk, SubmitSeen, SubmitMissing, Collected, Barrier, pruneMissingPaths,
     CompleteScan, ListFails, Ask, Set, environment, disk, history, AroundTyped
<1>2. ASSUME EventsDoomed', Knows(s)' PROVE ResidentsInv'
  <2>1. \A t \in Scanner : Knows(t)'
    BY <1>1, <1>2, KnownLater DEF ResidentsInv
  <2> QED
    BY <1>0, <1>1, <1>2, <2>1 DEF ResidentsInv, WatchDoomed, OnDisk
<1>3. ASSUME UNCHANGED ingest PROVE EventsDoomed'
  BY <1>0, <1>1, <1>3, DoomedLater DEF ingest, consumers
<1>4. ASSUME NEW r \in Scan, Set(s, r) PROVE scan'[s] = r
  BY <1>0, <1>4 DEF Set, AroundTyped
<1>5. ASSUME NEW p \in Path, SubmitSeen(s, p) PROVE ResidentsInv'
  <2>1. EventOf("create", p, scan[s].lib) \in Event /\ Doomed(EventOf("create", p, scan[s].lib), gone)
    BY <1>0, EventMade DEF Scan, Doomed
  <2>2. EventsDoomed'
    BY <1>0, <1>1, <1>5, <2>1, SubmitDoomed DEF SubmitSeen
  <2> DEFINE r == [scan[s] EXCEPT !.left = @ \ {p}]
  <2>3. r \in Scan /\ r.pc = "submitting" /\ r.lib = scan[s].lib /\ r.seen = scan[s].seen /\ Set(s, r)
    BY <1>0, <1>5 DEF Scan, SubmitSeen
  <2> HIDE DEF r
  <2>4. Knows(s)'
    BY <1>0, <1>1, <1>4, <1>5, <2>3 DEF Knows, SubmitSeen
  <2> QED
    BY <1>2, <2>2, <2>4
<1>6. ASSUME NEW p \in Path, SubmitMissing(s, p) PROVE ResidentsInv'
  <2>0. p \in gone
    BY <1>0, <1>6 DEF SubmitMissing, Knows
  <2>1. EventOf("delete", p, scan[s].lib) \in Event /\ Doomed(EventOf("delete", p, scan[s].lib), gone)
    BY <1>0, <2>0, EventMade DEF Scan, Doomed
  <2>2. EventsDoomed'
    BY <1>0, <1>1, <1>6, <2>1, SubmitDoomed DEF SubmitMissing
  <2> DEFINE r == [scan[s] EXCEPT !.left = @ \ {p}]
  <2>3. r \in Scan /\ r.pc = "pruning" /\ r.left \subseteq scan[s].left /\ Set(s, r)
    BY <1>0, <1>6 DEF Scan, SubmitMissing
  <2> HIDE DEF r
  <2>4. Knows(s)'
    BY <1>0, <1>1, <1>4, <1>6, <2>3 DEF Knows, SubmitMissing
  <2> QED
    BY <1>2, <2>2, <2>4
<1>7. ASSUME NEW p \in Path, Walk(s, p) PROVE ResidentsInv'
  <2> DEFINE r == [scan[s] EXCEPT !.left = @ \ {p}, !.seen = IF OnDisk(p) THEN @ \cup {p} ELSE @]
  <2>1. /\ r \in Scan /\ r.pc = "walking" /\ r.lib = scan[s].lib /\ r.left = scan[s].left \ {p}
        /\ r.seen = IF OnDisk(p) THEN scan[s].seen \cup {p} ELSE scan[s].seen
        /\ Set(s, r) /\ UNCHANGED ingest
    BY <1>0, <1>7 DEF Scan, Walk
  <2> HIDE DEF r
  <2>2. p \in gone \/ OnDisk(p)
    BY DEF ResidentsInv
  <2>3. Knows(s)'
    BY <1>0, <1>1, <1>4, <1>7, <2>1, <2>2 DEF Knows, Walk
  <2> QED
    BY <1>2, <1>3, <2>1, <2>3
<1>8. ASSUME NEW now \in {"submitting", "listing"}, NEW left \in SUBSET Path,
             Set(s, [scan[s] EXCEPT !.pc = now, !.left = left]), UNCHANGED ingest,
             PathsOf(scan[s].lib) \ gone \subseteq scan[s].seen, now = "listing" => left = {}
      PROVE  ResidentsInv'
  <2> DEFINE r == [scan[s] EXCEPT !.pc = now, !.left = left]
  <2>1. /\ r \in Scan /\ r.pc = now /\ r.lib = scan[s].lib /\ r.left = left /\ r.seen = scan[s].seen
        /\ Set(s, r)
    BY <1>0, <1>8 DEF Scan
  <2> HIDE DEF r
  <2>2. Knows(s)'
    BY <1>1, <1>4, <1>8, <2>1 DEF Knows
  <2> QED
    BY <1>2, <1>3, <1>8, <2>2
<1>9. CASE Collected(s)
  <2>1. scan[s].seen \in SUBSET Path /\ PathsOf(scan[s].lib) \ gone \subseteq scan[s].seen
    BY <1>0, <1>9 DEF Collected, Knows, Scan
  <2> QED
    BY <1>8, <1>9, <2>1 DEF Collected
<1>10. CASE Barrier(s)
  <2>1. scan[s].left = {} /\ PathsOf(scan[s].lib) \ gone \subseteq scan[s].seen
    BY <1>0, <1>10 DEF Barrier, Drained, Knows
  <2>2. [scan[s] EXCEPT !.pc = "listing"] = [scan[s] EXCEPT !.pc = "listing", !.left = {}]
    BY <1>0, <2>1 DEF Scan
  <2> QED
    BY <1>8, <1>10, <2>1, <2>2 DEF Barrier
<1>11. CASE pruneMissingPaths(s)
  <2> DEFINE left == {p \in PathsOf(scan[s].lib) : items[p] = scan[s].lib} \ scan[s].seen
             r    == [scan[s] EXCEPT !.pc = "pruning", !.left = left]
  <2>1. left \subseteq gone
    BY <1>0, <1>11 DEF Knows, pruneMissingPaths
  <2>2. r \in Scan /\ r.pc = "pruning" /\ r.left = left /\ Set(s, r) /\ UNCHANGED ingest
    BY <1>0, <1>11 DEF Scan, PathsOf, pruneMissingPaths
  <2> HIDE DEF r, left
  <2>3. Knows(s)'
    BY <1>1, <1>4, <2>1, <2>2 DEF Knows
  <2> QED
    BY <1>2, <1>3, <2>2, <2>3
<1>12. CASE ListFails(s)
  <2> DEFINE r == [scan[s] EXCEPT !.pc = "pruning"]
  <2>1. r \in Scan /\ r.pc = "pruning" /\ r.left = {} /\ Set(s, r) /\ UNCHANGED ingest
    BY <1>0, <1>12 DEF Scan, ListFails, Knows
  <2> HIDE DEF r
  <2>2. Knows(s)'
    BY <1>1, <1>4, <2>1 DEF Knows
  <2> QED
    BY <1>2, <1>3, <2>1, <2>2
<1>13. ASSUME NEW r \in Scan, Set(s, r), r.pc \in {"idle", "asked"} PROVE Knows(s)'
  BY <1>4, <1>13 DEF Knows
<1>14. NoScan \in Scan /\ NoScan.pc = "idle"
  BY DEF NoScan, Scan
<1>15. CASE CompleteScan(s)
  <2>1. Knows(s)'
    BY <1>13, <1>14, <1>15 DEF CompleteScan
  <2> QED
    BY <1>2, <1>3, <1>15, <2>1 DEF CompleteScan
<1>16. ASSUME NEW l \in Library, Ask(s, l) PROVE ResidentsInv'
  <2>1. [NoScan EXCEPT !.pc = "asked", !.lib = l] \in Scan
        /\ [NoScan EXCEPT !.pc = "asked", !.lib = l].pc = "asked"
    BY DEF NoScan, Scan
  <2>2. Knows(s)'
    BY <1>13, <1>16, <2>1 DEF Ask
  <2> QED
    BY <1>2, <1>3, <1>16, <2>2 DEF Ask
<1>17. CASE StartScan(s)
  <2> DEFINE r == [scan[s] EXCEPT !.pc = "walking", !.left = PathsOf(scan[s].lib)]
  <2>1. r \in Scan /\ r.pc = "walking" /\ r.lib = scan[s].lib /\ r.left = PathsOf(scan[s].lib)
    BY <1>0 DEF Scan, PathsOf
  <2>2. Set(s, r) \/ Set(s, NoScan)
    BY <1>17 DEF StartScan
  <2> HIDE DEF r
  <2>3. Knows(s)'
    BY <1>1, <1>4, <1>13, <1>14, <2>1, <2>2 DEF Knows
  <2>4. EventsDoomed'
    BY <1>0, <1>1, <1>17, DoomedLater DEF StartScan, consumers
  <2> QED
    BY <1>2, <2>3, <2>4
<1> QED
  BY <1>5, <1>6, <1>7, <1>9, <1>10, <1>11, <1>12, <1>15, <1>16, <1>17 DEF ScanStep

\* ResidentsInv is inductive.
LEMMA NextResidents == ResidentsInv /\ [Next]_vars => ResidentsInv'
<1> SUFFICES ASSUME ResidentsInv, [Next]_vars PROVE ResidentsInv'
  OBVIOUS
<1>0. TypeOK' /\ IngestTyped /\ AroundTyped /\ EventsDoomed
  BY NextTyped, TypeParts DEF ResidentsInv
<1>1. ASSUME UNCHANGED <<environment, watch, scans, history>>, EventsDoomed' PROVE ResidentsInv'
  <2>1. UNCHANGED <<files, away, gone, watch, scan>>
    BY <1>1 DEF environment, disk, scans, history
  <2>2. \A s \in Scanner : Knows(s)'
    BY <2>1, KnownLater DEF ResidentsInv
  <2> QED
    BY <1>0, <1>1, <2>1, <2>2 DEF ResidentsInv, WatchDoomed, OnDisk
<1>2. ASSUME NEW c \in Consumer, Consume(c) \/ Fault(c) PROVE ResidentsInv'
  <2>1. UNCHANGED <<environment, watch, scans, history>>
    BY <1>2 DEF Consume, Fault, Take, Process, ProcessFails, BeginWait, SkipCreate, WaitStable,
       WaitFails, processCreate, processDelete, processRename, Finish, environment, disk
  <2> QED
    BY <1>0, <1>1, <1>2, <2>1, ConsumerDoomed
<1>3. ASSUME NEW b \in Base, Flush(b) PROVE ResidentsInv'
  <2>1. UNCHANGED <<environment, watch, scans, history>>
    BY <1>3 DEF Flush, FlushDelete, environment, disk
  <2>2. pending[b] \in Event /\ Doomed(pending[b], gone) /\ Enqueue(pending[b])
    BY <1>0, <1>3 DEF Flush, FlushDelete, IngestTyped, EventsDoomed, Doomed
  <2>3. pending' = [pending EXCEPT ![b] = NoEvent] /\ UNCHANGED <<hand, gone>>
    BY <1>3, <2>1 DEF Flush, FlushDelete, consumers, history
  <2>4. EventsDoomed'
    BY <1>0, <2>2, <2>3, EnqueueDoomed DEF EventsDoomed, IngestTyped
  <2> QED
    BY <1>1, <2>1, <2>4
<1>4. ASSUME NEW l \in Remote, Remount(l) PROVE ResidentsInv'
  <2>1. /\ UNCHANGED <<files, pending, channel, hand, watch, scan>>
        /\ gone' = gone \cup {p \in Path : LibraryOf[p] \in away'}
    BY <1>4 DEF Remount, ingest, consumers, scans
  <2>2. EventsDoomed' /\ \A s \in Scanner : Knows(s)'
    BY <1>0, <2>1, KnownLater, DoomedLater DEF ResidentsInv
  <2>3. \A p \in Path \ gone' : OnDisk(p)'
    BY <2>1 DEF ResidentsInv, OnDisk
  <2> QED
    BY <1>0, <2>1, <2>2, <2>3 DEF ResidentsInv, WatchDoomed
<1>5. CASE Crash
  <2>1. UNCHANGED <<files, away, gone>> /\ watch' = <<>> /\ channel' = <<>>
    BY <1>5 DEF Crash, disk
  <2>2. EventsDoomed'
    BY <1>5, <2>1 DEF Crash, EventsDoomed
  <2>3. \A s \in Scanner : Knows(s)'
    BY <1>5 DEF Crash, Knows, NoScan
  <2> QED
    BY <1>0, <2>1, <2>2, <2>3 DEF ResidentsInv, WatchDoomed, OnDisk
<1>6. CASE UNCHANGED vars
  <2>1. UNCHANGED <<environment, watch, scans, history, pending, channel, hand, gone>>
    BY <1>6 DEF vars, environment, disk, ingest, consumers, scans, history
  <2>2. EventsDoomed'
    BY <1>0, <2>1, DoomedLater
  <2> QED
    BY <1>1, <2>1, <2>2
<1> QED
  BY <1>2, <1>3, <1>4, <1>5, <1>6, ChangeResidents, HandleResidents, ScanResidents DEF Next, Work

LEMMA InitResidents == Init => ResidentsInv
<1> SUFFICES ASSUME Init PROVE ResidentsInv
  OBVIOUS
<1>1. TypeOK
  BY InitTyped
<1>2. EventsDoomed /\ WatchDoomed
  BY DEF Init, IngestInit, EventsDoomed, WatchDoomed
<1>3. \A s \in Scanner : Knows(s)
  BY DEF Init, Knows, NoScan
<1> QED
  BY <1>1, <1>2, <1>3 DEF Init, ResidentsInv, OnDisk

\* A file that is there all the time keeps its item: no deletion, rename or
\* pruning that is on its way is of it (ingest_rename.go:76,
\* scanner_cleanup.go:24).
THEOREM FilesKeepItems == Spec => ResidentsKept
<1>1. ResidentsInv /\ [Next]_vars
        => [\A p \in Path \ gone : items[p] # NoLibrary => items'[p] = items[p]]_vars
  BY ResidentItems
<1> QED
  BY <1>1, InitResidents, NextResidents, PTL DEF Spec, ResidentsKept

-----------------------------------------------------------------------------
(* The count of a scan's events.                                           *)

\* The places of a library's events in a channel.
Tags(ch, l) == {i \in 1..Len(ch) : ch[i].tag = l}

LEMMA TagsFinite ==
    ASSUME NEW ch \in Seq(Event), NEW l
    PROVE  IsFiniteSet(Tags(ch, l)) /\ Cardinality(Tags(ch, l)) \in Nat
<1>1. IsFiniteSet(1..Len(ch))
  BY FS_Interval
<1>2. Tags(ch, l) \in SUBSET (1..Len(ch))
  BY DEF Tags
<1>3. IsFiniteSet(Tags(ch, l))
  BY <1>1, <1>2, FS_Subset
<1> QED BY <1>3, FS_CardinalityType

LEMMA TagsAppended ==
    ASSUME NEW ch \in Seq(Event), NEW e \in Event, NEW l
    PROVE  Cardinality(Tags(Append(ch, e), l)) =
               Cardinality(Tags(ch, l)) + IF e.tag = l THEN 1 ELSE 0
<1>1. /\ Len(ch) \in Nat /\ Len(Append(ch, e)) = Len(ch) + 1
      /\ Append(ch, e)[Len(ch) + 1] = e
      /\ \A i \in 1..Len(ch) : Append(ch, e)[i] = ch[i]
  OBVIOUS
<1>2. Len(ch) + 1 \notin Tags(ch, l)
  BY <1>1 DEF Tags
<1>3. Tags(Append(ch, e), l) = IF e.tag = l THEN Tags(ch, l) \cup {Len(ch) + 1} ELSE Tags(ch, l)
  BY <1>1 DEF Tags
<1>4. Cardinality(Tags(ch, l) \cup {Len(ch) + 1}) = Cardinality(Tags(ch, l)) + 1
  BY <1>2, TagsFinite, FS_AddElement
<1> QED BY <1>3, <1>4, TagsFinite

LEMMA TagsTaken ==
    ASSUME NEW ch \in Seq(Event), ch # <<>>, NEW l
    PROVE  Cardinality(Tags(ch, l)) =
               Cardinality(Tags(Tail(ch), l)) + IF Head(ch).tag = l THEN 1 ELSE 0
<1> DEFINE T == Tags(Tail(ch), l)
           S == Tags(ch, l) \ {1}
           f == [i \in T |-> i + 1]
<1>1. /\ Head(ch) = ch[1] /\ Tail(ch) \in Seq(Event)
      /\ Len(ch) \in Nat \ {0} /\ Len(Tail(ch)) = Len(ch) - 1
      /\ \A i \in 1..(Len(ch) - 1) : Tail(ch)[i] = ch[i + 1]
  OBVIOUS
<1>2. \A i \in T : i \in Int /\ i + 1 \in S
  BY <1>1 DEF Tags
<1>3. \A j \in S : j \in Int /\ j - 1 \in T
  <2>1. SUFFICES ASSUME NEW j \in S PROVE j \in Int /\ j - 1 \in T
    OBVIOUS
  <2>2. j \in 2..Len(ch) /\ ch[j].tag = l
    BY <1>1 DEF Tags
  <2>3. j - 1 \in 1..Len(Tail(ch)) /\ Tail(ch)[j - 1] = ch[j]
    BY <1>1, <2>2
  <2> QED BY <2>2, <2>3 DEF Tags
<1> HIDE DEF T, S
<1>4. f \in Bijection(T, S)
  <2>1. f \in [T -> S]
    BY <1>2
  <2>2. \A a, b \in T : f[a] = f[b] => a = b
    BY <1>2
  <2>3. \A j \in S : \E a \in T : f[a] = j
    <3>1. SUFFICES ASSUME NEW j \in S PROVE f[j - 1] = j /\ j - 1 \in T
      OBVIOUS
    <3> QED BY <1>3
  <2> QED BY <2>1, <2>2, <2>3 DEF Bijection, Injection, Surjection, IsInjective
<1>5. ExistsBijection(T, S)
  BY <1>4 DEF ExistsBijection
<1>6. IsFiniteSet(T) /\ Cardinality(T) \in Nat
  BY <1>1, TagsFinite DEF T
<1>7. Cardinality(S) = Cardinality(T)
  BY <1>5, <1>6, FS_Bijection
<1>8. IsFiniteSet(Tags(ch, l)) /\ Cardinality(Tags(ch, l)) \in Nat
  BY TagsFinite
<1>9. Cardinality(S) = IF 1 \in Tags(ch, l) THEN Cardinality(Tags(ch, l)) - 1
                                            ELSE Cardinality(Tags(ch, l))
  BY <1>8, FS_RemoveElement DEF S
<1>10. 1 \in Tags(ch, l) <=> Head(ch).tag = l
  BY <1>1 DEF Tags
<1> QED BY <1>6, <1>7, <1>8, <1>9, <1>10 DEF T

\* The count of a library moves with the events of its tag.
LEMMA CountedIs ==
    ASSUME TypeOK, NEW e \in Event, NEW n \in Int, NEW l \in Library
    PROVE  Counted(e, n)[l] = inflight[l] + IF e.tag = l THEN n ELSE 0
BY IngestAssumption DEF Counted, TypeOK, Event

\* InflightExact, as it is used.
LEMMA CountParts ==
    ASSUME CountInv, NEW l \in Library
    PROVE  /\ inflight[l] = Cardinality(Tags(channel, l)) + Cardinality(InHand(l))
           /\ IsFiniteSet(InHand(l)) /\ Cardinality(InHand(l)) \in Nat
           /\ Cardinality(Tags(channel, l)) \in Nat
<1>1. Tagged(l) = Tags(channel, l)
  BY DEF Tagged, Tags
<1>2. channel \in Seq(Event) /\ IsFiniteSet(InHand(l))
  BY DEF CountInv, TypeOK
<1> QED BY <1>1, <1>2, TagsFinite, FS_CardinalityType DEF CountInv, InflightExact

LEMMA CountFrom ==
    ASSUME TypeOK',
           \A l \in Library :
               /\ IsFiniteSet(InHand(l)')
               /\ inflight'[l] = Cardinality(Tags(channel', l)) + Cardinality(InHand(l)')
    PROVE  CountInv'
<1>1. \A l \in Library : Tagged(l)' = Tags(channel', l)
  BY DEF Tagged, Tags
<1> QED BY <1>1 DEF CountInv, InflightExact

\* An event that is queued is counted, one that is dropped is not.
LEMMA EnqueueCounts ==
    ASSUME CountInv, TypeOK', NEW e \in Event, Enqueue(e), UNCHANGED hand
    PROVE  CountInv'
<1>0. TypeOK /\ channel \in Seq(Event)
  BY DEF CountInv, TypeOK
<1>1. ASSUME NEW l \in Library
      PROVE  /\ IsFiniteSet(InHand(l)')
             /\ inflight'[l] = Cardinality(Tags(channel', l)) + Cardinality(InHand(l)')
  <2>1. InHand(l)' = InHand(l)
    BY DEF InHand, Busy
  <2>2. CASE channel' = Append(channel, e) /\ inflight' = Counted(e, 1)
    <3>1. inflight'[l] = inflight[l] + IF e.tag = l THEN 1 ELSE 0
      BY <1>0, <2>2, CountedIs
    <3>2. Cardinality(Tags(channel', l)) =
              Cardinality(Tags(channel, l)) + IF e.tag = l THEN 1 ELSE 0
      BY <1>0, <2>2, TagsAppended
    <3> QED BY <2>1, <3>1, <3>2, CountParts
  <2>3. CASE UNCHANGED <<channel, inflight>>
    BY <2>1, <2>3, CountParts
  <2> QED BY <2>2, <2>3 DEF Enqueue
<1> QED BY <1>1, CountFrom

LEMMA SubmitCounts ==
    ASSUME CountInv, TypeOK', NEW e \in Event, Submit(e)
    PROVE  CountInv'
<1>0. UNCHANGED hand /\ TypeOK
  BY DEF Submit, consumers, CountInv
<1>1. CASE OnDelete(e)
  <2>1. \A l \in Library : InHand(l)' = InHand(l)
    BY <1>0 DEF InHand, Busy
  <2>2. UNCHANGED <<channel, inflight>>
    BY <1>1 DEF OnDelete
  <2> QED BY <2>1, <2>2, CountParts, CountFrom
<1>2. CASE OnCreate(e)
  <2> DEFINE d == pending[BaseOf[e.path]]
  <2>1. d \in Event \cup {NoEvent}
    BY <1>0, IngestAssumption DEF TypeOK, Event
  <2>2. Pairs(d, e) => Renamed(d, e) \in Event
    BY <2>1, RenameMade DEF Pairs
  <2>3. Enqueue(e) \/ (Pairs(d, e) /\ Enqueue(Renamed(d, e)))
    BY <1>2 DEF OnCreate
  <2> QED BY <1>0, <2>2, <2>3, EnqueueCounts
<1>3. CASE Enqueue(e)
  BY <1>0, <1>3, EnqueueCounts
<1> QED BY <1>1, <1>2, <1>3 DEF Submit

\* An event that is taken goes from the channel into a hand.
LEMMA TakeCounts ==
    ASSUME CountInv, TypeOK', NEW c \in Consumer, Take(c)
    PROVE  CountInv'
<1>0. /\ TypeOK /\ channel \in Seq(Event) /\ channel # <<>>
      /\ channel' = Tail(channel) /\ inflight' = inflight
      /\ hand' = [hand EXCEPT ![c] = Head(channel)]
      /\ hand[c] = NoEvent
  BY DEF CountInv, TypeOK, Take
<1>1. Head(channel) \in Event /\ Head(channel) # NoEvent
  BY <1>0, NoEventAssumption
<1>2. \A d \in Consumer : hand'[d] = IF d = c THEN Head(channel) ELSE hand[d]
  BY <1>0 DEF TypeOK
<1>3. ASSUME NEW l \in Library
      PROVE  /\ IsFiniteSet(InHand(l)')
             /\ inflight'[l] = Cardinality(Tags(channel', l)) + Cardinality(InHand(l)')
  <2>1. c \notin InHand(l)
    BY <1>0 DEF InHand, Busy
  <2>2. InHand(l)' = IF Head(channel).tag = l THEN InHand(l) \cup {c} ELSE InHand(l)
    BY <1>0, <1>1, <1>2 DEF InHand, Busy
  <2>3. /\ IsFiniteSet(InHand(l) \cup {c})
        /\ Cardinality(InHand(l) \cup {c}) = Cardinality(InHand(l)) + 1
    BY <2>1, CountParts, FS_AddElement
  <2>4. Cardinality(Tags(channel, l)) =
            Cardinality(Tags(channel', l)) + IF Head(channel).tag = l THEN 1 ELSE 0
    BY <1>0, TagsTaken
  <2>5. Cardinality(Tags(channel', l)) \in Nat
    BY TagsFinite DEF TypeOK
  <2> QED BY <1>0, <2>2, <2>3, <2>4, <2>5, CountParts
<1> QED BY <1>3, CountFrom

\* An event that is finished is counted no more.
LEMMA FinishCounts ==
    ASSUME CountInv, TypeOK', NEW c \in Consumer, Finish(c), hand[c] \in Event
    PROVE  CountInv'
<1>0. /\ TypeOK
      /\ channel' = channel /\ inflight' = Counted(hand[c], -1)
      /\ hand' = [hand EXCEPT ![c] = NoEvent]
      /\ hand[c] # NoEvent
  BY NoEventAssumption DEF CountInv, Finish
<1>1. \A d \in Consumer : hand'[d] = IF d = c THEN NoEvent ELSE hand[d]
  BY <1>0 DEF TypeOK
<1>2. ASSUME NEW l \in Library
      PROVE  /\ IsFiniteSet(InHand(l)')
             /\ inflight'[l] = Cardinality(Tags(channel', l)) + Cardinality(InHand(l)')
  <2>1. c \in InHand(l) <=> hand[c].tag = l
    BY <1>0 DEF InHand, Busy
  <2>2. InHand(l)' = InHand(l) \ {c}
    BY <1>0, <1>1 DEF InHand, Busy
  <2>3. /\ IsFiniteSet(InHand(l) \ {c})
        /\ Cardinality(InHand(l) \ {c}) =
              IF c \in InHand(l) THEN Cardinality(InHand(l)) - 1 ELSE Cardinality(InHand(l))
    BY CountParts, FS_RemoveElement
  <2>4. inflight'[l] = inflight[l] + IF hand[c].tag = l THEN -1 ELSE 0
    BY <1>0, CountedIs
  <2> QED BY <1>0, <2>1, <2>2, <2>3, <2>4, CountParts
<1> QED BY <1>2, CountFrom

LEMMA NextCounts == CountInv /\ [Next]_vars => CountInv'
<1> SUFFICES ASSUME CountInv, [Next]_vars PROVE CountInv'
  OBVIOUS
<1>0. TypeOK /\ TypeOK'
  BY NextTyped DEF CountInv
<1>1. ASSUME UNCHANGED <<channel, inflight>>,
             \A c \in Consumer : /\ hand[c] = NoEvent <=> hand'[c] = NoEvent
                                 /\ hand[c] # NoEvent => hand[c].tag = hand'[c].tag
      PROVE  CountInv'
  <2>1. \A l \in Library : InHand(l)' = InHand(l)
    BY <1>1 DEF InHand, Busy
  <2> QED BY <1>0, <1>1, <2>1, CountParts, CountFrom
<1>2. ASSUME NEW c \in Consumer, Consume(c) \/ Fault(c) PROVE CountInv'
  <2>1. CASE Take(c)
    BY <1>0, <2>1, TakeCounts
  <2>2. CASE BeginWait(c) \/ WaitStable(c)
    <3>1. UNCHANGED <<channel, inflight, hand>>
      BY <2>2 DEF BeginWait, WaitStable
    <3> QED BY <1>1, <3>1
  <2>3. CASE processRename(c) /\ ~Finish(c)
    <3>1. hand[c] \in Event
      BY <1>0, <2>3 DEF processRename, TypeOK
    <3>2. /\ hand' = [hand EXCEPT ![c] = EventOf("create", hand[c].path, hand[c].tag)]
          /\ UNCHANGED <<channel, inflight>>
      BY <2>3 DEF processRename
    <3>3. /\ EventOf("create", hand[c].path, hand[c].tag) \in Event
          /\ EventOf("create", hand[c].path, hand[c].tag).tag = hand[c].tag
      BY <3>1, EventMade DEF Event
    <3>4. \A d \in Consumer : hand'[d] = IF d = c THEN EventOf("create", hand[c].path, hand[c].tag)
                                         ELSE hand[d]
      BY <1>0, <3>2 DEF TypeOK
    <3> QED BY <1>1, <3>1, <3>2, <3>3, <3>4, NoEventAssumption
  <2>4. CASE SkipCreate(c) \/ WaitFails(c) \/ processCreate(c) \/ processDelete(c)
             \/ (processRename(c) /\ Finish(c)) \/ ProcessFails(c)
    <3>1. pc[c] \in {"busy", "waiting", "stable"}
      BY <2>4 DEF SkipCreate, WaitFails, processCreate, processDelete, processRename, ProcessFails, Creates
    <3>2. hand[c] \in Event
      BY <1>0, <3>1 DEF TypeOK
    <3>3. Finish(c)
      BY <2>4 DEF SkipCreate, WaitFails, processCreate, processDelete, ProcessFails
    <3> QED BY <1>0, <3>2, <3>3, FinishCounts
  <2> QED BY <1>2, <2>1, <2>2, <2>3, <2>4 DEF Consume, Fault, Process
<1>3. CASE Crash
  <2>1. ASSUME NEW l \in Library
        PROVE  /\ IsFiniteSet(InHand(l)')
               /\ inflight'[l] = Cardinality(Tags(channel', l)) + Cardinality(InHand(l)')
    <3>1. /\ channel' = <<>> /\ inflight'[l] = 0
          /\ \A c \in Consumer : hand'[c] = NoEvent
      BY <1>3 DEF Crash
    <3>2. InHand(l)' = {}
      BY <3>1 DEF InHand, Busy
    <3>3. Tags(<<>>, l) = {}
      BY EmptySeq DEF Tags
    <3>4. IsFiniteSet({}) /\ Cardinality({}) = 0
      BY FS_EmptySet
    <3>5. Cardinality(Tags(channel', l)) = 0
      BY <3>1, <3>3, <3>4
    <3> QED BY <3>1, <3>2, <3>4, <3>5
  <2> QED BY <1>0, <2>1, CountFrom
<1>4. ASSUME UNCHANGED <<channel, inflight, hand>> PROVE CountInv'
  BY <1>1, <1>4
<1>5. CASE UNCHANGED vars
  BY <1>4, <1>5 DEF vars, ingest, consumers
<1>6. CASE FileChange \/ (\E l \in Remote : Remount(l))
  BY <1>4, <1>6 DEF FileChange, Add, Write, Remove, Move, Change, Remount, ingest, consumers
<1>7. CASE Handle
  <2>1. Head(watch) \in Op
    BY <1>0, <1>7 DEF Handle, TypeOK
  <2>2. Handled(Head(watch)) \in Event
    BY <2>1, EventMade, IngestAssumption DEF Handled, Op
  <2> QED BY <1>0, <1>7, <2>2, SubmitCounts DEF Handle
<1>8. ASSUME NEW b \in Base, Flush(b) PROVE CountInv'
  <2>1. pending[b] \in Event /\ Enqueue(pending[b]) /\ UNCHANGED hand
    BY <1>0, <1>8 DEF Flush, FlushDelete, consumers, TypeOK
  <2> QED BY <1>0, <2>1, EnqueueCounts
<1>9. ASSUME NEW s \in Scanner, ScanStep(s) \/ ListFails(s) \/ \E l \in Library : Ask(s, l)
      PROVE  CountInv'
  <2>1. ASSUME NEW p \in Path, SubmitSeen(s, p) \/ SubmitMissing(s, p) PROVE CountInv'
    <3>1. scan[s].lib \in Library \cup {NoLibrary}
      BY <1>0 DEF TypeOK, Scan
    <3> QED BY <1>0, <2>1, <3>1, EventMade, SubmitCounts DEF SubmitSeen, SubmitMissing
  <2> QED BY <1>4, <1>9, <2>1 DEF ScanStep, StartScan, Walk, Collected, Barrier,
             pruneMissingPaths, CompleteScan, ListFails, Ask, ingest, consumers
<1> QED BY <1>2, <1>3, <1>5, <1>6, <1>7, <1>8, <1>9 DEF Next, Work

LEMMA InitCounts == Init => CountInv
<1> SUFFICES ASSUME Init PROVE CountInv
  OBVIOUS
<1>1. \A l \in Library : InHand(l) = {} /\ Tagged(l) = {} /\ inflight[l] = 0
  BY EmptySeq DEF Init, IngestInit, InHand, Busy, Tagged
<1> QED BY <1>1, InitTyped, FS_EmptySet DEF CountInv, InflightExact

\* What the barrier of a scan waits for is the number of its events that are
\* queued or being processed, whatever is dropped, paired or fails
\* (ingest_worker.go:242).
THEOREM InflightTrue == Spec => []InflightExact
<1>1. CountInv => InflightExact
  BY DEF CountInv
<1> QED BY <1>1, InitCounts, NextCounts, PTL DEF Spec

-----------------------------------------------------------------------------
(* What a scan with nothing beside it leaves.                              *)

\* The events on their way, as one is queued, flushed, taken, finished or buffered.
LEMMA ComingQueued ==
    ASSUME TypeOK, NEW e \in Event, channel' = Append(channel, e), UNCHANGED <<pending, hand>>
    PROVE  Coming' = Coming \cup {e}
<1>1. /\ Len(channel) \in Nat /\ Len(channel') = Len(channel) + 1
      /\ channel'[Len(channel) + 1] = e
      /\ \A i \in 1..Len(channel) : channel'[i] = channel[i]
  BY DEF TypeOK
<1>2. \A x \in Event : (\E i \in 1..Len(channel') : channel'[i] = x)
                      <=> (\E i \in 1..Len(channel) : channel[i] = x) \/ x = e
  <2>1. SUFFICES ASSUME NEW x \in Event
                 PROVE  (\E i \in 1..Len(channel') : channel'[i] = x)
                        <=> (\E i \in 1..Len(channel) : channel[i] = x) \/ x = e
    OBVIOUS
  <2>2. Len(channel) + 1 \in 1..Len(channel') /\ \A i \in 1..Len(channel) : i \in 1..Len(channel')
    BY <1>1
  <2>3. \A i \in 1..Len(channel') : i \in 1..Len(channel) \/ i = Len(channel) + 1
    BY <1>1
  <2> QED BY <1>1, <2>2, <2>3
<1> QED BY <1>2 DEF Coming

LEMMA ComingFlushed ==
    ASSUME TypeOK, NEW b \in Base, pending[b] \in Event,
           pending' = [pending EXCEPT ![b] = NoEvent],
           channel' = Append(channel, pending[b]), UNCHANGED hand
    PROVE  Coming' = Coming
<1>1. /\ Len(channel) \in Nat /\ Len(channel') = Len(channel) + 1
      /\ channel'[Len(channel) + 1] = pending[b]
      /\ \A i \in 1..Len(channel) : channel'[i] = channel[i]
  BY DEF TypeOK
<1>2. \A d \in Base : pending'[d] = IF d = b THEN NoEvent ELSE pending[d]
  BY DEF TypeOK
<1>3. Len(channel) + 1 \in 1..Len(channel') /\ \A i \in 1..Len(channel) : i \in 1..Len(channel')
  BY <1>1
<1>4. \A i \in 1..Len(channel') : i \in 1..Len(channel) \/ i = Len(channel) + 1
  BY <1>1
<1>5. ASSUME NEW x \in Event
      PROVE  x \in Coming' <=> x \in Coming
  BY <1>1, <1>2, <1>3, <1>4, NoEventAssumption DEF Coming
<1> QED BY <1>5 DEF Coming

LEMMA ComingTaken ==
    ASSUME TypeOK, NEW c \in Consumer, Take(c)
    PROVE  Coming' = Coming
<1>1. /\ channel # <<>> /\ channel' = Tail(channel) /\ pending' = pending
      /\ hand[c] = NoEvent
      /\ \A d \in Consumer : hand'[d] = IF d = c THEN Head(channel) ELSE hand[d]
  BY DEF Take, TypeOK
<1>2. /\ Head(channel) = channel[1]
      /\ Len(channel) \in Nat \ {0} /\ Len(channel') = Len(channel) - 1
      /\ \A i \in 1..(Len(channel) - 1) : channel'[i] = channel[i + 1]
  BY <1>1 DEF TypeOK
<1>3. \A i \in 1..Len(channel') : i + 1 \in 1..Len(channel) /\ channel'[i] = channel[i + 1]
  BY <1>2
<1>4. \A i \in 1..Len(channel) : i = 1 \/ (i - 1 \in 1..Len(channel') /\ channel'[i - 1] = channel[i])
  BY <1>2
<1>5. 1 \in 1..Len(channel)
  BY <1>2
<1>6. ASSUME NEW x \in Event, x \in Coming' PROVE x \in Coming
  BY <1>1, <1>2, <1>3, <1>5, <1>6 DEF Coming
<1>7. ASSUME NEW x \in Event, x \in Coming PROVE x \in Coming'
  <2>1. CASE \E i \in 1..Len(channel) : channel[i] = x
    BY <1>1, <1>2, <1>4, <2>1 DEF Coming
  <2>2. CASE \E d \in Consumer : hand[d] = x
    BY <1>1, <2>2, NoEventAssumption DEF Coming
  <2>3. CASE \E b \in Base : pending[b] = x
    BY <1>1, <2>3 DEF Coming
  <2> QED BY <1>7, <2>1, <2>2, <2>3 DEF Coming
<1> QED BY <1>6, <1>7 DEF Coming

LEMMA ComingFinished ==
    ASSUME TypeOK, NEW c \in Consumer, Finish(c), hand[c] \in Event
    PROVE  /\ hand[c] \in Coming
           /\ Coming' \subseteq Coming
           /\ Coming \subseteq Coming' \cup {hand[c]}
<1>1. /\ UNCHANGED <<pending, channel>>
      /\ \A d \in Consumer : hand'[d] = IF d = c THEN NoEvent ELSE hand[d]
  BY DEF Finish, TypeOK
<1> QED BY <1>1, NoEventAssumption DEF Coming

LEMMA ComingBuffered ==
    ASSUME TypeOK, NEW e \in Event, OnDelete(e), UNCHANGED hand
    PROVE  /\ e \in Coming'
           /\ Coming' \subseteq Coming \cup {e}
           /\ \A d \in Coming : d \in Coming' \/ BaseOf[d.path] = BaseOf[e.path]
<1>1. BaseOf[e.path] \in Base
  BY IngestAssumption DEF Event
<1>2. /\ channel' = channel
      /\ \A b \in Base : pending'[b] = IF b = BaseOf[e.path] THEN e ELSE pending[b]
  BY <1>1 DEF OnDelete, TypeOK
<1>3. \A b \in Base : pending[b] \in Event => BaseOf[pending[b].path] = b
  BY NoEventAssumption DEF TypeOK
<1> QED BY <1>1, <1>2, <1>3 DEF Coming

\* A scan that is set.
LEMMA SetScan ==
    ASSUME TypeOK, NEW s \in Scanner, NEW r, Set(s, r)
    PROVE  /\ scan'[s] = r
           /\ \A t \in Scanner : t # s => scan'[t] = scan[t]
BY DEF Set, TypeOK

\* A step of the buffer, the channel or a consumer keeps what a scan has come
\* to, if the items and the events on their way are kept.
LEMMA OrderlyKept ==
    ASSUME NEW l \in Library, Orderly(l), UNCHANGED <<files, away, watch, scan, items>>,
           Coming' = Coming, \A c \in Consumer : pc'[c] \in {"idle", "busy"}
    PROVE  Orderly(l)'
BY DEF Orderly, Own, Works, Stage, Walked, Entering, Listing, Pruned, Entered, Leaving, Present

\* One that carries out an event does, if the items are as the event says.
LEMMA OrderlyDone ==
    ASSUME TypeOK, NEW l \in Library, Orderly(l), UNCHANGED <<files, away, watch, scan>>,
           NEW e \in Coming, Coming' \subseteq Coming, Coming \subseteq Coming' \cup {e},
           \A c \in Consumer : pc'[c] \in {"idle", "busy"},
           \A p \in Path : p # e.path => items'[p] = items[p],
           e.kind = "create" => items'[e.path] # NoLibrary,
           e.kind = "delete" => items'[e.path] = NoLibrary
    PROVE  Orderly(l)'
<1>1. Own(e, l) /\ e.path \in Path
  BY DEF Orderly, Coming, Event
<1>2. /\ Coming # {}
      /\ \A s \in Scanner : Works(s)' <=> Works(s)
      /\ Present(l)' = Present(l) /\ Present(l) \subseteq Path
      /\ PathsOf(l) \subseteq Path
  BY DEF Works, Present, PathsOf
<1>3. ASSUME NEW left, Pruned(l, left) PROVE Pruned(l, left)'
  <2>1. e.kind = "delete" /\ e.path \notin files /\ e.path \in PathsOf(l) /\ items'[e.path] = NoLibrary
    BY <1>1, <1>3 DEF Pruned, Own
  <2>2. Entered(l)'
    BY <1>2, <1>3, <2>1 DEF Pruned, Entered, Present
  <2>3. Leaving(l, left)'
    <3>1. SUFFICES ASSUME NEW p \in PathsOf(l), p \notin files, items'[p] = l
                   PROVE  \/ p \in left
                          \/ \E d \in Coming' : BaseOf[d.path] = BaseOf[p]
                          \/ \E q \in PathsOf(l) \ {p} : BaseOf[q] = BaseOf[p] /\ items'[q] = NoLibrary
      BY DEF Leaving
    <3>2. p # e.path /\ items[p] = l
      BY <1>2, <2>1, <3>1, IngestAssumption
    <3>3. \/ p \in left
          \/ \E d \in Coming : BaseOf[d.path] = BaseOf[p]
          \/ \E q \in PathsOf(l) \ {p} : BaseOf[q] = BaseOf[p] /\ items[q] = NoLibrary
      BY <1>3, <3>1, <3>2 DEF Pruned, Leaving
    <3>4. CASE \E d \in Coming : BaseOf[d.path] = BaseOf[p]
      BY <2>1, <3>2, <3>4
    <3>5. CASE \E q \in PathsOf(l) \ {p} : BaseOf[q] = BaseOf[p] /\ items[q] = NoLibrary
      BY <1>2, <2>1, <3>5
    <3> QED BY <3>3, <3>4, <3>5
  <2> QED BY <1>3, <2>2, <2>3 DEF Pruned
<1>4. ASSUME NEW s \in Scanner, Entering(s, l) PROVE Entering(s, l)'
  <2>1. e.kind = "create" /\ items'[e.path] # NoLibrary
    BY <1>4 DEF Entering
  <2>2. ASSUME NEW p \in Present(l)
        PROVE  \/ p \in scan[s].left \/ items'[p] # NoLibrary
               \/ \E d \in Coming' : d.path = p
    <3>1. CASE p = e.path
      BY <2>1, <3>1
    <3>2. CASE p # e.path
      BY <1>2, <1>4, <2>2, <3>2 DEF Entering
    <3> QED BY <3>1, <3>2
  <2> QED BY <1>2, <1>4, <2>2 DEF Entering
<1>5. \A s \in Scanner : Works(s) => Stage(s, l)'
  <2>1. SUFFICES ASSUME NEW s \in Scanner, Works(s) PROVE Stage(s, l)'
    OBVIOUS
  <2>2. Stage(s, l) /\ scan'[s] = scan[s]
    BY <2>1 DEF Orderly
  <2>3. ~Walked(s, l) /\ ~Listing(s, l)
    BY DEF Walked, Listing
  <2>4. scan[s].pc = "pruning" => Pruned(l, scan[s].left)'
    BY <1>3, <2>2 DEF Stage
  <2>5. scan[s].pc = "submitting" => Entering(s, l)'
    BY <1>4, <2>2 DEF Stage
  <2> QED BY <2>2, <2>3, <2>4, <2>5 DEF Stage
<1>6. (\A s \in Scanner : ~Works(s)) => Pruned(l, {})'
  BY <1>3 DEF Orderly
<1>7. \A d \in Coming' : Own(d, l)'
  BY DEF Orderly, Own
<1> QED BY <1>2, <1>5, <1>6, <1>7 DEF Orderly

\* The step of a scan, if it is the only one at work.
LEMMA OrderlyScans ==
    ASSUME TypeOK, NEW l \in Library, UNCHANGED <<files, away, pc>>,
           watch' = <<>>, l \notin away, \A c \in Consumer : pc[c] \in {"idle", "busy"},
           NEW s \in Scanner, Works(s)', Stage(s, l)',
           \A e \in Coming' : Own(e, l),
           \A t \in Scanner : t # s => ~Works(t) /\ scan'[t] = scan[t]
    PROVE  Orderly(l)'
<1>1. \A t \in Scanner : t # s => ~Works(t)'
  BY DEF Works
<1>2. \A e \in Coming' : Own(e, l)'
  BY DEF Own
<1> QED BY <1>1, <1>2 DEF Orderly

\* Events are carried out only by consumers at work, and an event that is
\* dropped or fails is noted.
LEMMA ConsumerOrderly ==
    ASSUME TypeOK, NEW l \in Library, Orderly(l), NEW c \in Consumer,
           Consume(c) \/ Fault(c), dropped' = {}
    PROVE  Orderly(l)'
<1>0. UNCHANGED <<files, away, watch, scan>>
  BY DEF Consume, Fault, Take, Process, ProcessFails, BeginWait, SkipCreate, WaitStable,
     WaitFails, processCreate, processDelete, processRename, Finish, disk, scans
<1>1. CASE Take(c)
  <2>1. UNCHANGED items /\ Coming' = Coming
    BY <1>1, ComingTaken DEF Take
  <2>2. \A d \in Consumer : pc'[d] \in {"idle", "busy"}
    BY <1>1 DEF Take, Orderly, TypeOK
  <2> QED BY <1>0, <2>1, <2>2, OrderlyKept
<1>2. CASE Process(c)
  <2>1. pc[c] \notin {"waiting", "stable"}
    BY DEF Orderly
  <2>2. pc[c] = "busy"
    BY <1>2, <2>1 DEF Process, BeginWait, SkipCreate, WaitStable, WaitFails, processCreate,
       processDelete, processRename, Creates
  <2>3. hand[c] \in Event /\ hand[c] \in Coming
    BY <2>2 DEF TypeOK, Coming
  <2>4. Own(hand[c], l) /\ hand[c].path \in Path
    BY <2>3 DEF Orderly, Event
  <2>5. /\ hand[c].tag = l /\ l # NoLibrary /\ ~Waits(c)
        /\ hand[c].kind # "rename" /\ hand[c].kind # "modify"
    BY <2>4, IngestAssumption DEF Own, Waits
  <2>6. processCreate(c) \/ processDelete(c)
    BY <1>2, <2>1, <2>5 DEF Process, BeginWait, SkipCreate, WaitStable, WaitFails, processRename
  <2>7. Finish(c)
    BY <2>6 DEF processCreate, processDelete
  <2>8. \A d \in Consumer : pc'[d] \in {"idle", "busy"}
    BY <2>7 DEF Finish, Orderly, TypeOK
  <2>9. /\ \A p \in Path : p # hand[c].path => items'[p] = items[p]
        /\ hand[c].kind = "create" => items'[hand[c].path] # NoLibrary
        /\ hand[c].kind = "delete" => items'[hand[c].path] = NoLibrary
    <3>1. CASE processCreate(c)
      <4>1. hand[c].kind = "create"
        BY <2>1, <2>5, <3>1 DEF processCreate, Creates
      <4>2. OnDisk(hand[c].path)
        BY <2>4, <4>1 DEF Own, OnDisk, Orderly, PathsOf
      <4>3. items' = scanOneMovie(hand[c].path, l)
        BY <2>5, <3>1 DEF processCreate
      <4>4. items' = IF items[hand[c].path] = NoLibrary THEN [items EXCEPT ![hand[c].path] = l]
                                                        ELSE items
        BY <4>2, <4>3 DEF scanOneMovie
      <4> QED BY <2>4, <2>5, <4>1, <4>4 DEF TypeOK
    <3>2. CASE processDelete(c)
      BY <2>4, <3>2 DEF processDelete, TypeOK
    <3> QED BY <2>6, <3>1, <3>2
  <2> QED BY <1>0, <2>3, <2>7, <2>8, <2>9, ComingFinished, OrderlyDone
<1>3. CASE ProcessFails(c)
  BY <1>3 DEF ProcessFails
<1> QED BY <1>1, <1>2, <1>3 DEF Consume, Fault

LEMMA FlushOrderly ==
    ASSUME TypeOK, NEW l \in Library, Orderly(l), NEW b \in Base, Flush(b), dropped' = {}
    PROVE  Orderly(l)'
<1>1. /\ UNCHANGED <<files, away, watch, scan, items, pc, hand>>
      /\ pending[b] \in Event /\ pending' = [pending EXCEPT ![b] = NoEvent]
      /\ Enqueue(pending[b])
  BY DEF Flush, FlushDelete, disk, scans, consumers, TypeOK
<1>2. channel' = Append(channel, pending[b])
  BY <1>1 DEF Enqueue
<1> QED BY <1>1, <1>2, ComingFlushed, OrderlyKept DEF Orderly

\* A scan that begins with nothing beside it.
LEMMA StartOrderly ==
    ASSUME TypeOK, NEW s \in Scanner, StartScan(s), NEW l \in Library, clean' = l,
           scan[s].pc = "asked" => scan[s].seen = {}
    PROVE  Orderly(l)'
<1>1. l = scan[s].lib
  BY IngestAssumption DEF StartScan
<1>2. /\ scan[s].pc = "asked" /\ scan[s] \in Scan
      /\ Alone(s) /\ l \notin away
      /\ UNCHANGED <<files, away, items, pending, channel, pc, hand, watch>>
      /\ Set(s, [scan[s] EXCEPT !.pc = "walking", !.left = PathsOf(l)])
  BY <1>1, IngestAssumption DEF StartScan, TypeOK, Scan, environment, disk, consumers
<1>3. /\ watch = <<>> /\ channel = <<>>
      /\ \A c \in Consumer : hand[c] = NoEvent
      /\ \A b \in Base : pending[b] = NoEvent
      /\ \A t \in Scanner : t # s => ~Works(t)
  BY <1>2 DEF Alone, Through, Busy, Works
<1>4. Coming' = {}
  <2>1. Len(channel) = 0
    BY <1>3, EmptySeq
  <2> QED BY <1>2, <1>3, <2>1, NoEventAssumption DEF Coming
<1>5. \A c \in Consumer : pc[c] \in {"idle", "busy"}
  BY <1>3 DEF TypeOK
<1>6. /\ scan'[s] = [scan[s] EXCEPT !.pc = "walking", !.left = PathsOf(l)]
      /\ \A t \in Scanner : t # s => scan'[t] = scan[t]
  BY <1>2, SetScan
<1>7. /\ scan'[s].pc = "walking" /\ scan'[s].left = PathsOf(l) /\ scan'[s].seen = {}
      /\ scan'[s].lib = l
  BY <1>1, <1>2, <1>6 DEF Scan
<1>8. Works(s)' /\ Stage(s, l)'
  <2>1. Walked(s, l)'
    BY <1>4, <1>7 DEF Walked, Present
  <2> QED BY <1>7, <2>1 DEF Works, Stage
<1> QED
  <2>1. \A e \in Coming' : Own(e, l)
    BY <1>4
  <2>2. UNCHANGED <<files, away, pc>> /\ watch' = <<>> /\ l \notin away
    BY <1>2, <1>3
  <2> QED BY <1>3, <1>5, <1>6, <1>8, <2>1, <2>2, OrderlyScans

\* The other steps of a scan.
LEMMA ScanOrderly ==
    ASSUME CountInv, NEW l \in Library, Orderly(l), NEW s \in Scanner,
           ScanStep(s), ~StartScan(s), dropped' = {}
    PROVE  Orderly(l)'
<1>0. /\ TypeOK /\ scan[s] \in Scan /\ scan[s].pc \notin {"idle", "asked"}
      /\ UNCHANGED <<files, away, pc, hand, items, watch>>
  BY DEF CountInv, TypeOK, ScanStep, Walk, SubmitSeen, SubmitMissing, Collected, Barrier,
     pruneMissingPaths, CompleteScan, environment, disk, ingest, consumers, Submit
<1>1. /\ Works(s) /\ Stage(s, l) /\ scan[s].lib = l
      /\ \A t \in Scanner : t # s => ~Works(t)
      /\ watch' = <<>> /\ l \notin away /\ \A c \in Consumer : pc[c] \in {"idle", "busy"}
      /\ \A e \in Coming : Own(e, l)
  BY <1>0 DEF Works, Orderly, Stage
<1>2. Present(l)' = Present(l) /\ PathsOf(l) \subseteq Path
  BY <1>0 DEF Present, PathsOf
<1>3. ASSUME UNCHANGED ingest PROVE Coming' = Coming
  BY <1>3 DEF ingest, consumers, Coming
<1>4. ASSUME NEW r, Set(s, r), \A e \in Coming' : Own(e, l), Works(s)', Stage(s, l)'
      PROVE  Orderly(l)'
  BY <1>0, <1>1, <1>4, SetScan, OrderlyScans
<1>5. ASSUME Drained(s) PROVE scan[s].left = {} /\ \A e \in Coming : e.kind = "delete"
  <2>1. scan[s].left = {} /\ inflight[l] <= 0
    BY <1>1, <1>5 DEF Drained
  <2>2. Cardinality(Tags(channel, l)) = 0 /\ Cardinality(InHand(l)) = 0
    BY <2>1, CountParts
  <2>3. Tags(channel, l) = {} /\ InHand(l) = {}
    BY <1>0, <2>2, TagsFinite, CountParts, FS_EmptySet DEF TypeOK
  <2>4. ASSUME NEW e \in Coming, e.kind # "delete" PROVE FALSE
    <3>1. e \in Event /\ e.tag = l
      BY <1>1, <2>4 DEF Own, Coming
    <3>2. ~\E i \in 1..Len(channel) : channel[i] = e
      BY <2>3, <3>1 DEF Tags
    <3>3. ~\E c \in Consumer : hand[c] = e
      BY <2>3, <3>1, NoEventAssumption DEF InHand, Busy
    <3>4. ~\E b \in Base : pending[b] = e
      BY <1>0, <2>4, <3>1, NoEventAssumption DEF TypeOK
    <3> QED BY <2>4, <3>2, <3>3, <3>4 DEF Coming
  <2> QED BY <2>1, <2>4
<1>6. ASSUME NEW p \in Path, Walk(s, p) PROVE Orderly(l)'
  <2>1. PICK r : r = [scan[s] EXCEPT !.left = @ \ {p},
                                     !.seen = IF OnDisk(p) THEN @ \cup {p} ELSE @]
    OBVIOUS
  <2>2. /\ r.pc = "walking" /\ r.lib = l /\ r.left = scan[s].left \ {p}
        /\ r.seen = IF OnDisk(p) THEN scan[s].seen \cup {p} ELSE scan[s].seen
        /\ Set(s, r) /\ scan[s].pc = "walking" /\ p \in scan[s].left
    BY <1>0, <1>1, <1>6, <2>1 DEF Walk, Scan
  <2>3. Walked(s, l)
    BY <1>1, <2>2 DEF Stage
  <2>4. OnDisk(p) <=> p \in Present(l)
    BY <1>1, <2>2, <2>3 DEF OnDisk, Present, Walked, PathsOf
  <2>5. Coming' = Coming /\ scan'[s] = r
    BY <1>0, <1>3, <1>6, <2>2, SetScan DEF Walk
  <2>6. Walked(s, l)'
    BY <1>2, <2>2, <2>3, <2>4, <2>5 DEF Walked
  <2>7. Works(s)' /\ Stage(s, l)'
    BY <2>2, <2>5, <2>6 DEF Works, Stage
  <2> QED BY <1>1, <1>4, <2>2, <2>5, <2>7
<1>7. CASE Collected(s)
  <2>1. PICK r : r = [scan[s] EXCEPT !.pc = "submitting", !.left = scan[s].seen]
    OBVIOUS
  <2>2. /\ r.pc = "submitting" /\ r.lib = l /\ r.left = scan[s].seen /\ r.seen = scan[s].seen
        /\ Set(s, r) /\ scan[s].pc = "walking" /\ scan[s].left = {}
    BY <1>0, <1>1, <1>7, <2>1 DEF Collected, Scan
  <2>3. Walked(s, l)
    BY <1>1, <2>2 DEF Stage
  <2>4. Coming' = Coming /\ scan'[s] = r
    BY <1>0, <1>3, <1>7, <2>2, SetScan DEF Collected
  <2>5. Entering(s, l)'
    BY <1>2, <2>2, <2>3, <2>4 DEF Walked, Entering
  <2>6. Works(s)' /\ Stage(s, l)'
    BY <2>2, <2>4, <2>5 DEF Works, Stage
  <2> QED BY <1>1, <1>4, <2>2, <2>4, <2>6
<1>8. ASSUME NEW p \in Path, SubmitSeen(s, p) PROVE Orderly(l)'
  <2>1. PICK r : r = [scan[s] EXCEPT !.left = @ \ {p}]
    OBVIOUS
  <2>2. /\ r.pc = "submitting" /\ r.lib = l /\ r.left = scan[s].left \ {p}
        /\ r.seen = scan[s].seen
        /\ Set(s, r) /\ scan[s].pc = "submitting" /\ p \in scan[s].left
    BY <1>0, <1>1, <1>8, <2>1 DEF SubmitSeen, Scan
  <2>3. Entering(s, l) /\ p \in Present(l)
    BY <1>1, <2>2 DEF Stage, Entering
  <2>4. PICK e : e = EventOf("create", p, l)
    OBVIOUS
  <2>5. e \in Event /\ e.kind = "create" /\ e.path = p /\ e.tag = l /\ Submit(e)
    BY <1>1, <1>8, <2>4, EventMade DEF SubmitSeen
  <2>6. pending[BaseOf[p]] = NoEvent
    <3>1. BaseOf[p] \in Base
      BY IngestAssumption
    <3>2. pending[BaseOf[p]] # NoEvent =>
            pending[BaseOf[p]] \in Event /\ pending[BaseOf[p]].kind = "delete"
      BY <1>0, <3>1 DEF TypeOK
    <3>3. pending[BaseOf[p]] \in Event => pending[BaseOf[p]] \in Coming
      BY <3>1 DEF Coming
    <3> QED BY <2>3, <3>2, <3>3 DEF Entering
  <2>7. Enqueue(e) /\ UNCHANGED <<pending, hand>>
    BY <1>0, <2>5, <2>6 DEF Submit, OnCreate, Pairs
  <2>8. channel' = Append(channel, e)
    BY <2>7 DEF Enqueue
  <2>9. Coming' = Coming \cup {e} /\ scan'[s] = r
    BY <1>0, <2>2, <2>5, <2>7, <2>8, ComingQueued, SetScan
  <2>10. Entering(s, l)'
    BY <1>0, <1>2, <2>2, <2>3, <2>5, <2>9 DEF Entering
  <2>11. Works(s)' /\ Stage(s, l)'
    BY <2>2, <2>9, <2>10 DEF Works, Stage
  <2>12. Own(e, l)
    BY <2>3, <2>5 DEF Own, Present
  <2> QED BY <1>1, <1>4, <2>2, <2>9, <2>11, <2>12
<1>9. CASE Barrier(s)
  <2>1. PICK r : r = [scan[s] EXCEPT !.pc = "listing"]
    OBVIOUS
  <2>2. /\ r.pc = "listing" /\ r.lib = l /\ r.left = scan[s].left /\ r.seen = scan[s].seen
        /\ Set(s, r) /\ scan[s].pc = "submitting" /\ Drained(s)
    BY <1>0, <1>1, <1>9, <2>1 DEF Barrier, Scan
  <2>3. Entering(s, l)
    BY <1>1, <2>2 DEF Stage
  <2>4. Coming = {} /\ scan[s].left = {}
    BY <1>5, <2>2, <2>3 DEF Entering
  <2>5. Coming' = Coming /\ scan'[s] = r
    BY <1>0, <1>3, <1>9, <2>2, SetScan DEF Barrier
  <2>6. Listing(s, l)'
    BY <1>0, <1>2, <2>2, <2>3, <2>4, <2>5 DEF Entering, Listing, Entered
  <2>7. Works(s)' /\ Stage(s, l)'
    BY <2>2, <2>5, <2>6 DEF Works, Stage
  <2> QED BY <1>1, <1>4, <2>2, <2>5, <2>7
<1>10. CASE pruneMissingPaths(s)
  <2>1. PICK r : r = [scan[s] EXCEPT !.pc = "pruning",
                        !.left = {p \in PathsOf(l) : items[p] = l} \ scan[s].seen]
    OBVIOUS
  <2>2. /\ r.pc = "pruning" /\ r.lib = l
        /\ r.left = {p \in PathsOf(l) : items[p] = l} \ scan[s].seen
        /\ scan[s].pc = "listing"
    BY <1>0, <1>1, <1>10, <2>1 DEF pruneMissingPaths, Scan
  <2>7. Set(s, r)
    BY <1>1, <1>10, <2>1 DEF pruneMissingPaths
  <2>3. Listing(s, l)
    BY <1>1, <2>2 DEF Stage
  <2>4. Coming' = Coming /\ scan'[s] = r
    BY <1>0, <1>3, <1>10, <2>7, SetScan DEF pruneMissingPaths
  <2>5. Pruned(l, r.left)'
    <3>1. r.left \subseteq PathsOf(l) \ files
      BY <2>2, <2>3 DEF Listing, Present
    <3>2. Entered(l)'
      BY <1>0, <1>2, <2>3 DEF Listing, Entered
    <3>3. \A p \in PathsOf(l) \ files : items[p] = l => p \in r.left
      BY <2>2, <2>3 DEF Listing, Present
    <3>4. Leaving(l, r.left)'
      BY <1>0, <3>3 DEF Leaving
    <3> QED BY <1>0, <2>3, <2>4, <3>1, <3>2, <3>4 DEF Pruned, Listing
  <2>6. Works(s)' /\ Stage(s, l)'
    BY <2>2, <2>4, <2>5 DEF Works, Stage
  <2> QED BY <1>1, <1>4, <2>7, <2>4, <2>6
<1>11. ASSUME NEW p \in Path, SubmitMissing(s, p) PROVE Orderly(l)'
  <2>1. PICK r : r = [scan[s] EXCEPT !.left = @ \ {p}]
    OBVIOUS
  <2>2. /\ r.pc = "pruning" /\ r.lib = l /\ r.left = scan[s].left \ {p}
        /\ Set(s, r) /\ scan[s].pc = "pruning" /\ p \in scan[s].left
    BY <1>0, <1>1, <1>11, <2>1 DEF SubmitMissing, Scan
  <2>3. Pruned(l, scan[s].left) /\ p \in PathsOf(l) /\ p \notin files
    BY <1>1, <2>2 DEF Stage, Pruned
  <2>4. PICK e : e = EventOf("delete", p, l)
    OBVIOUS
  <2>5. e \in Event /\ e.kind = "delete" /\ e.path = p /\ e.tag = l /\ OnDelete(e)
    BY <1>1, <1>11, <2>4, EventMade DEF SubmitMissing, Submit
  <2>6. /\ e \in Coming' /\ Coming' \subseteq Coming \cup {e}
        /\ \A d \in Coming : d \in Coming' \/ BaseOf[d.path] = BaseOf[p]
        /\ scan'[s] = r
    BY <1>0, <2>2, <2>5, ComingBuffered, SetScan
  <2>7. Pruned(l, r.left)'
    <3>1. Leaving(l, r.left)'
      <4>1. SUFFICES ASSUME NEW q \in PathsOf(l) \ files, items[q] = l
                     PROVE  \/ q \in r.left
                            \/ \E d \in Coming' : BaseOf[d.path] = BaseOf[q]
                            \/ \E o \in PathsOf(l) \ {q} : BaseOf[o] = BaseOf[q] /\ items[o] = NoLibrary
        BY <1>0 DEF Leaving
      <4>2. \/ q \in scan[s].left
            \/ \E d \in Coming : BaseOf[d.path] = BaseOf[q]
            \/ \E o \in PathsOf(l) \ {q} : BaseOf[o] = BaseOf[q] /\ items[o] = NoLibrary
        BY <2>3, <4>1 DEF Pruned, Leaving
      <4>3. CASE \E d \in Coming : BaseOf[d.path] = BaseOf[q]
        BY <2>5, <2>6, <4>3
      <4>4. CASE q \in scan[s].left
        BY <2>2, <2>5, <2>6, <4>4
      <4> QED BY <4>2, <4>3, <4>4
    <3>2. r.left \subseteq PathsOf(l) \ files
      BY <2>2, <2>3 DEF Pruned
    <3>3. Entered(l)'
      BY <1>0, <1>2, <2>3 DEF Pruned, Entered
    <3>4. \A d \in Coming' : d.kind = "delete"
      BY <2>3, <2>5, <2>6 DEF Pruned
    <3> QED BY <1>0, <3>1, <3>2, <3>3, <3>4 DEF Pruned
  <2>8. Works(s)' /\ Stage(s, l)'
    BY <2>2, <2>6, <2>7 DEF Works, Stage
  <2>9. Own(e, l)
    BY <2>3, <2>5 DEF Own
  <2> QED BY <1>1, <1>4, <2>2, <2>6, <2>8, <2>9
<1>12. CASE CompleteScan(s)
  <2>1. Set(s, NoScan) /\ scan[s].pc = "pruning" /\ Drained(s) /\ UNCHANGED ingest
    BY <1>12 DEF CompleteScan
  <2>2. Pruned(l, {}) /\ Coming' = Coming
    BY <1>1, <1>3, <1>5, <2>1 DEF Stage
  <2>3. scan'[s].pc = "idle" /\ \A t \in Scanner : t # s => scan'[t] = scan[t]
    BY <1>0, <2>1, SetScan DEF NoScan
  <2>4. \A t \in Scanner : ~Works(t)'
    BY <1>1, <2>3 DEF Works
  <2>5. Pruned(l, {})'
    BY <1>0, <1>2, <2>2 DEF Pruned, Entered, Leaving
  <2>6. \A e \in Coming' : Own(e, l)'
    BY <1>0, <1>1, <2>2 DEF Own
  <2> QED BY <1>0, <1>1, <2>4, <2>5, <2>6 DEF Orderly
<1> QED BY <1>6, <1>7, <1>8, <1>9, <1>10, <1>11, <1>12 DEF ScanStep

\* A scan that is asked for stands beside the one at work.
LEMMA AskOrderly ==
    ASSUME TypeOK, NEW l \in Library, Orderly(l), NEW s \in Scanner, NEW m \in Library, Ask(s, m)
    PROVE  Orderly(l)'
<1>1. /\ UNCHANGED <<files, away, watch, pc, items>>
      /\ scan'[s].pc = "asked" /\ ~Works(s)
      /\ \A t \in Scanner : t # s => scan'[t] = scan[t]
  BY SetScan DEF Ask, disk, ingest, consumers, NoScan, Works
<1>2. Coming' = Coming
  BY DEF Ask, ingest, consumers, Coming
<1>3. \A t \in Scanner : (Works(t)' <=> Works(t)) /\ (Works(t) => scan'[t] = scan[t])
  BY <1>1 DEF Works
<1>4. \A t \in Scanner : Works(t) /\ Stage(t, l) => Stage(t, l)'
  BY <1>1, <1>2, <1>3 DEF Stage, Walked, Entering, Listing, Pruned, Entered, Leaving, Present
<1>5. Pruned(l, {}) => Pruned(l, {})'
  BY <1>1, <1>2 DEF Pruned, Entered, Leaving, Present
<1>6. \A e \in Coming' : Own(e, l)'
  BY <1>1, <1>2 DEF Orderly, Own
<1> QED BY <1>1, <1>3, <1>4, <1>5, <1>6 DEF Orderly

LEMMA NextAgree == AgreeInv /\ [Next]_vars => AgreeInv'
<1> SUFFICES ASSUME AgreeInv, [Next]_vars PROVE AgreeInv'
  OBVIOUS
<1>0. /\ CountInv /\ CountInv' /\ TypeOK /\ TypeOK'
      /\ \A s \in Scanner : scan[s].pc = "asked" => scan[s].seen = {}
  BY NextCounts, NextTyped DEF AgreeInv, CountInv
<1>1. \A s \in Scanner : scan'[s].pc = "asked" => scan'[s].seen = {}
  <2>1. CASE UNCHANGED scan
    BY <1>0, <2>1
  <2>2. CASE Crash
    BY <2>2 DEF Crash, NoScan
  <2>3. ASSUME NEW s \in Scanner, ScanStep(s) \/ ListFails(s) \/ \E l \in Library : Ask(s, l)
        PROVE  \A t \in Scanner : scan'[t].pc = "asked" => scan'[t].seen = {}
    <3>0. scan[s] \in Scan
      BY <1>0 DEF TypeOK
    <3>1. ASSUME NEW r, Set(s, r), r.pc = "asked" => r.seen = {}
          PROVE  \A t \in Scanner : scan'[t].pc = "asked" => scan'[t].seen = {}
      BY <1>0, <3>1, SetScan
    <3>2. \A left : /\ [scan[s] EXCEPT !.pc = "walking", !.left = left].pc = "walking"
                    /\ [scan[s] EXCEPT !.pc = "submitting", !.left = left].pc = "submitting"
                    /\ [scan[s] EXCEPT !.pc = "pruning", !.left = left].pc = "pruning"
      BY <3>0 DEF Scan
    <3>3. /\ [scan[s] EXCEPT !.pc = "listing"].pc = "listing"
          /\ [scan[s] EXCEPT !.pc = "pruning"].pc = "pruning"
      BY <3>0 DEF Scan
    <3>4. \A left : [scan[s] EXCEPT !.left = left].pc = scan[s].pc
      BY <3>0 DEF Scan
    <3>5. \A left, seen : [scan[s] EXCEPT !.left = left, !.seen = seen].pc = scan[s].pc
      BY <3>0 DEF Scan
    <3>6. NoScan.pc = "idle" /\ \A l : [NoScan EXCEPT !.pc = "asked", !.lib = l].seen = {}
      BY DEF NoScan
    <3>7. CASE StartScan(s) \/ CompleteScan(s)
      BY <3>1, <3>2, <3>6, <3>7 DEF StartScan, CompleteScan
    <3>8. CASE \E p \in Path : Walk(s, p) \/ SubmitSeen(s, p) \/ SubmitMissing(s, p)
      BY <3>1, <3>4, <3>5, <3>8 DEF Walk, SubmitSeen, SubmitMissing
    <3>9. CASE Collected(s) \/ Barrier(s) \/ ListFails(s)
      BY <3>1, <3>2, <3>3, <3>9 DEF Collected, Barrier, ListFails
    <3>10. CASE pruneMissingPaths(s)
      BY <3>1, <3>2, <3>10 DEF pruneMissingPaths
    <3>11. CASE \E l \in Library : Ask(s, l)
      BY <3>1, <3>6, <3>11 DEF Ask
    <3> QED BY <2>3, <3>7, <3>8, <3>9, <3>10, <3>11 DEF ScanStep
  <2>4. CASE FileChange \/ (\E l \in Remote : Remount(l)) \/ Handle \/ (\E b \in Base : Flush(b))
             \/ (\E c \in Consumer : Consume(c) \/ Fault(c)) \/ UNCHANGED vars
    <3>1. UNCHANGED scan
      BY <2>4 DEF FileChange, Add, Write, Remove, Move, Change, Remount, Handle, Flush, Consume,
         Fault, vars, scans
    <3> QED BY <2>1, <3>1
  <2> QED BY <2>2, <2>3, <2>4 DEF Next, Work
<1>2. ASSUME NEW l \in Library, clean' = l, dropped' = {} PROVE Orderly(l)'
  <2>1. ASSUME NEW s \in Scanner, StartScan(s) PROVE Orderly(l)'
    BY <1>0, <1>2, <2>1, StartOrderly
  <2>2. CASE FileChange \/ (\E m \in Remote : Remount(m)) \/ Crash \/ (\E s \in Scanner : ListFails(s))
    BY <1>2, <2>2, IngestAssumption DEF FileChange, Add, Write, Remove, Move, Change, Remount, Crash, ListFails
  <2>3. ASSUME clean' = clean, dropped = {}
        PROVE  Orderly(l)
    BY <1>2, <2>3 DEF AgreeInv
  <2>4. CASE Handle
    <3>1. clean' = clean /\ watch # <<>> /\ Submit(Handled(Head(watch)))
      BY <2>4 DEF Handle, history
    <3>2. dropped \subseteq dropped'
      BY <3>1 DEF Submit, OnDelete, OnCreate, Enqueue
    <3>3. Orderly(l)
      BY <1>2, <2>3, <3>1, <3>2
    <3> QED BY <3>1, <3>3 DEF Orderly
  <2>5. ASSUME NEW b \in Base, Flush(b) PROVE Orderly(l)'
    <3>1. clean' = clean /\ dropped \subseteq dropped'
      BY <2>5 DEF Flush, FlushDelete, Enqueue, history
    <3>2. Orderly(l)
      BY <1>2, <2>3, <3>1
    <3> QED BY <1>0, <1>2, <2>5, <3>2, FlushOrderly
  <2>6. ASSUME NEW c \in Consumer, Consume(c) \/ Fault(c) PROVE Orderly(l)'
    <3>1. clean' = clean /\ dropped \subseteq dropped'
      BY <2>6 DEF Consume, Fault, Take, Process, ProcessFails, BeginWait, SkipCreate, WaitStable,
         WaitFails, processCreate, processDelete, processRename, history
    <3>2. Orderly(l)
      BY <1>2, <2>3, <3>1
    <3> QED BY <1>0, <1>2, <2>6, <3>2, ConsumerOrderly
  <2>7. ASSUME NEW s \in Scanner, ScanStep(s), ~StartScan(s) PROVE Orderly(l)'
    <3>1. clean' = clean /\ dropped \subseteq dropped'
      BY <2>7 DEF ScanStep, Walk, SubmitSeen, SubmitMissing, Collected, Barrier,
         pruneMissingPaths, CompleteScan, Submit, OnDelete, OnCreate, Enqueue, history, ingest
    <3>2. Orderly(l)
      BY <1>2, <2>3, <3>1
    <3> QED BY <1>0, <1>2, <2>7, <3>2, ScanOrderly
  <2>8. ASSUME NEW s \in Scanner, NEW m \in Library, Ask(s, m) PROVE Orderly(l)'
    <3>1. clean' = clean /\ dropped \subseteq dropped'
      BY <2>8 DEF Ask, history, ingest
    <3>2. Orderly(l)
      BY <1>2, <2>3, <3>1
    <3> QED BY <1>0, <2>8, <3>2, AskOrderly
  <2>9. CASE UNCHANGED vars
    <3>1. clean' = clean /\ dropped' = dropped
      BY <2>9 DEF vars, history, ingest
    <3>2. Orderly(l)
      BY <1>2, <2>3, <3>1
    <3>3. Coming' = Coming /\ UNCHANGED <<files, away, watch, scan, items, pc>>
      BY <2>9 DEF vars, ingest, consumers, disk, scans, Coming
    <3>4. \A c \in Consumer : pc'[c] \in {"idle", "busy"}
      BY <3>2, <3>3 DEF Orderly
    <3> QED BY <3>2, <3>3, <3>4, OrderlyKept
  <2> QED BY <2>1, <2>2, <2>4, <2>5, <2>6, <2>7, <2>8, <2>9 DEF Next, Work
<1> QED BY <1>0, <1>1, <1>2 DEF AgreeInv

LEMMA InitAgree == Init => AgreeInv
BY InitCounts, IngestAssumption DEF Init, AgreeInv, NoScan

\* After a scan with nothing beside it and no event dropped, every file of the
\* library has its item, and an item without a file is one whose deletion
\* another of the same file name took the place of
\* (ingest_worker.go:242, scanner_cleanup.go:24, ingest_rename.go:44).
THEOREM ScansAgree == Spec => []ScanAgrees
<1>1. AgreeInv => ScanAgrees
  <2>1. SUFFICES ASSUME AgreeInv, Quiet, clean # NoLibrary, dropped = {}, NEW p \in PathsOf(clean)
                 PROVE  /\ p \in files => items[p] # NoLibrary
                        /\ p \notin files /\ items[p] = clean =>
                              \E q \in PathsOf(clean) \ {p} :
                                  BaseOf[q] = BaseOf[p] /\ items[q] = NoLibrary
    BY DEF ScanAgrees
  <2>2. \A s \in Scanner : ~Works(s)
    BY <2>1 DEF Quiet, Works
  <2>3. Pruned(clean, {})
    BY <2>1, <2>2 DEF AgreeInv, CountInv, TypeOK, Orderly
  <2>4. Coming = {}
    <3>1. Len(channel) = 0
      BY <2>1, EmptySeq DEF Quiet, Through
    <3> QED BY <2>1, <3>1, NoEventAssumption DEF Quiet, Through, Busy, Coming
  <2> QED BY <2>1, <2>3, <2>4 DEF Pruned, Entered, Leaving, Present
<1> QED BY <1>1, InitAgree, NextAgree, PTL DEF Spec
=============================================================================
