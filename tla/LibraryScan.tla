---------------------------- MODULE LibraryScan ----------------------------
(***************************************************************************)
(* From the files of a library to its items: the watcher, which reports    *)
(* each change of a local file, and scans, which walk a library, submit    *)
(* what they see, wait for the consumers, and submit the deletion of what  *)
(* has an item and was not seen.  Both go through Ingest.                  *)
(***************************************************************************)
EXTENDS Ingest, FiniteSets

CONSTANTS
    Remote,     \* libraries on a network mount: not watched, may be away
    Scanner,    \* slots of ScanLibrary's goroutine
    MaxOutside  \* bound: file changes, requests, mounts and crashes

ASSUME ScanAssumption ==
    /\ Remote \subseteq Library
    /\ MaxOutside \in Nat

PathsOf(l) == {p \in Path : LibraryOf[p] = l}

VARIABLES
    watch,     \* fsnotify events not yet handled
    scan,      \* the scans in progress
    scanning,  \* ScanProgressTracker: libraries with status "scanning"
    outside,   \* what has happened outside so far
    clean,     \* history: the library last scanned with nothing beside it
    gone       \* history: paths where there was no file at some moment

environment == <<disk, outside>>
scans == <<scan, scanning>>
history == <<clean, gone>>
vars == <<disk, ingest, watch, scans, outside, history>>

NoScan == [pc |-> "idle", lib |-> NoLibrary, left |-> {}, seen |-> {}]

Scan == [pc : {"idle", "asked", "walking", "submitting", "listing", "pruning"},
         lib : Library \cup {NoLibrary},
         left : SUBSET Path, seen : SUBSET Path]

Op == [op : {"create", "write", "remove", "moved"}, path : Path]

Busy == {c \in Consumer : hand[c] # NoEvent}

Through ==
    /\ watch = <<>>
    /\ channel = <<>>
    /\ Busy = {}
    /\ \A b \in Base : pending[b] = NoEvent

Quiet == Through /\ \A s \in Scanner : scan[s].pc = "idle"

\* The process starts on whatever the disk and the database have come to.
Init ==
    /\ files \in SUBSET Path
    /\ away = {}
    /\ items \in {f \in [Path -> Library \cup {NoLibrary}] :
                    \A p \in Path : f[p] \in {NoLibrary, LibraryOf[p]}}
    /\ IngestInit
    /\ watch = <<>>
    /\ scan = [s \in Scanner |-> NoScan]
    /\ scanning = {}
    /\ outside = 0
    /\ clean = NoLibrary
    /\ gone = Path \ files

-----------------------------------------------------------------------------
(* The disk and the watcher.                                               *)

Outside ==
    /\ outside < MaxOutside
    /\ outside' = outside + 1

Change(S) ==
    /\ Outside
    /\ \A p \in S : LibraryOf[p] \notin away
    /\ touched' = [c \in Consumer |->
                     touched[c] \/ (pc[c] = "waiting" /\ hand[c].path \in S)]
    /\ clean' = NoLibrary
    /\ gone' = gone \cup (Path \ files')
    /\ UNCHANGED <<away, items, pending, channel, inflight, pc, hand,
                   stabilizing, dropped, scans>>

\* What fsnotify reports of a change: nothing under a library that is not watched.
Notified(op, p) == IF LibraryOf[p] \in Remote THEN <<>> ELSE <<[op |-> op, path |-> p]>>

Notify(op, p) == watch' = watch \o Notified(op, p)

Add(p) ==
    /\ p \notin files
    /\ files' = files \cup {p}
    /\ Notify("create", p)
    /\ Change({p})

Write(p) ==
    /\ p \in files
    /\ UNCHANGED files
    /\ Notify("write", p)
    /\ Change({p})

Remove(p) ==
    /\ p \in files
    /\ files' = files \ {p}
    /\ Notify("remove", p)
    /\ Change({p})

Move(p, q) ==
    /\ p \in files
    /\ q \notin files
    /\ files' = (files \ {p}) \cup {q}
    /\ watch' = watch \o Notified("moved", p) \o Notified("create", q)
    /\ Change({p, q})

Remount(l) ==
    /\ Outside
    /\ away' = IF l \in away THEN away \ {l} ELSE away \cup {l}
    /\ clean' = NoLibrary
    /\ gone' = gone \cup {p \in Path : LibraryOf[p] \in away'}
    /\ UNCHANGED <<files, ingest, watch, scans>>

\* FileWatcher.handle.  The old path of a move is looked up again.
Handled(o) ==
    CASE o.op = "create" -> EventOf("create", o.path, NoLibrary)
      [] o.op = "write"  -> EventOf("modify", o.path, NoLibrary)
      [] o.op = "remove" -> EventOf("delete", o.path, NoLibrary)
      [] o.op = "moved"  ->
           EventOf(IF OnDisk(o.path) THEN "create" ELSE "delete",
                   o.path, NoLibrary)

Handle ==
    /\ watch # <<>>
    /\ watch' = Tail(watch)
    /\ Submit(Handled(Head(watch)))
    /\ UNCHANGED <<environment, scans, history>>

-----------------------------------------------------------------------------
(* ScanLibrary.                                                            *)

Set(s, r) == scan' = [scan EXCEPT ![s] = r]

\* IsScanning and StartScan are two critical sections.
Ask(s, l) ==
    /\ Outside
    /\ scan[s].pc = "idle"
    /\ l \notin scanning
    /\ Set(s, [NoScan EXCEPT !.pc = "asked", !.lib = l])
    /\ UNCHANGED <<disk, ingest, watch, scanning, history>>

Alone(s) == Through /\ \A t \in Scanner \ {s} : scan[t].pc \in {"idle", "asked"}

\* A root that cannot be read fails the scan.  The root of a mount that is
\* away may be there all the same: the empty directory it is mounted on.
StartScan(s) ==
    LET l == scan[s].lib
    IN  /\ scan[s].pc = "asked"
        /\ \/ /\ Set(s, [scan[s] EXCEPT !.pc = "walking", !.left = PathsOf(l)])
              /\ scanning' = scanning \cup {l}
           \/ /\ l \in away
              /\ Set(s, NoScan)
              /\ scanning' = scanning \ {l}
        /\ clean' = IF Alone(s) /\ l \notin away THEN l ELSE NoLibrary
        /\ dropped' = {}
        /\ UNCHANGED <<environment, items, pending, channel, inflight,
                       consumers, watch, gone>>

\* A directory that cannot be read has no files.
Walk(s, p) ==
    /\ scan[s].pc = "walking"
    /\ p \in scan[s].left
    /\ Set(s, [scan[s] EXCEPT !.left = @ \ {p},
                              !.seen = IF OnDisk(p) THEN @ \cup {p} ELSE @])
    /\ UNCHANGED <<environment, ingest, watch, scanning, history>>

Collected(s) ==
    /\ scan[s].pc = "walking"
    /\ scan[s].left = {}
    /\ Set(s, [scan[s] EXCEPT !.pc = "submitting", !.left = scan[s].seen])
    /\ UNCHANGED <<environment, ingest, watch, scanning, history>>

SubmitSeen(s, p) ==
    /\ scan[s].pc = "submitting"
    /\ p \in scan[s].left
    /\ Submit(EventOf("create", p, scan[s].lib))
    /\ Set(s, [scan[s] EXCEPT !.left = @ \ {p}])
    /\ UNCHANGED <<environment, watch, scanning, history>>

Drained(s) == scan[s].left = {} /\ inflight[scan[s].lib] <= 0

Barrier(s) ==
    /\ scan[s].pc = "submitting"
    /\ Drained(s)
    /\ Set(s, [scan[s] EXCEPT !.pc = "listing"])
    /\ UNCHANGED <<environment, ingest, watch, scanning, history>>

\* Mutant: of a movie in a directory only the directory counts as seen.
pruneMissingPaths_EntriesOnly(s) ==
    /\ scan[s].pc = "listing"
    /\ LET l == scan[s].lib
           candidates == {p \in PathsOf(l) : items[p] = l}
       IN  Set(s, [scan[s] EXCEPT !.pc = "pruning",
                                  !.left = candidates \ (scan[s].seen \cap Flat)])
    /\ UNCHANGED <<environment, ingest, watch, scanning, history>>

pruneMissingPaths(s) ==
    /\ scan[s].pc = "listing"
    /\ LET l == scan[s].lib
           candidates == {p \in PathsOf(l) : items[p] = l}
       IN  Set(s, [scan[s] EXCEPT !.pc = "pruning",
                                  !.left = candidates \ scan[s].seen])
    /\ UNCHANGED <<environment, ingest, watch, scanning, history>>

\* The query fails: nothing is pruned.
ListFails(s) ==
    /\ scan[s].pc = "listing"
    /\ Set(s, [scan[s] EXCEPT !.pc = "pruning"])
    /\ clean' = NoLibrary
    /\ UNCHANGED <<environment, ingest, watch, scanning, gone>>

SubmitMissing(s, p) ==
    /\ scan[s].pc = "pruning"
    /\ p \in scan[s].left
    /\ Submit(EventOf("delete", p, scan[s].lib))
    /\ Set(s, [scan[s] EXCEPT !.left = @ \ {p}])
    /\ UNCHANGED <<environment, watch, scanning, history>>

CompleteScan(s) ==
    /\ scan[s].pc = "pruning"
    /\ Drained(s)
    /\ Set(s, NoScan)
    /\ scanning' = scanning \ {scan[s].lib}
    /\ UNCHANGED <<environment, ingest, watch, history>>

ScanStep(s) ==
    \/ StartScan(s)
    \/ \E p \in Path : Walk(s, p) \/ SubmitSeen(s, p) \/ SubmitMissing(s, p)
    \/ Collected(s)
    \/ Barrier(s)
    \/ pruneMissingPaths(s)
    \/ CompleteScan(s)

-----------------------------------------------------------------------------
\* The process ends and starts again; nothing in memory survives.
Crash ==
    /\ Outside
    /\ pending' = [b \in Base |-> NoEvent]
    /\ channel' = <<>>
    /\ inflight' = [l \in Library |-> 0]
    /\ pc' = [c \in Consumer |-> "idle"]
    /\ hand' = [c \in Consumer |-> NoEvent]
    /\ touched' = [c \in Consumer |-> FALSE]
    /\ stabilizing' = {}
    /\ watch' = <<>>
    /\ scan' = [s \in Scanner |-> NoScan]
    /\ scanning' = {}
    /\ clean' = NoLibrary
    /\ UNCHANGED <<disk, items, dropped, gone>>

Consume(c) == (Take(c) \/ Process(c)) /\ UNCHANGED <<outside, watch, scans, history>>

Fault(c) == ProcessFails(c) /\ UNCHANGED <<outside, watch, scans, history>>

Flush(b) == FlushDelete(b) /\ UNCHANGED <<outside, watch, scans, history>>

\* What happens once it has been asked for.
Work ==
    \/ Handle
    \/ \E b \in Base : Flush(b)
    \/ \E c \in Consumer : Consume(c)
    \/ \E s \in Scanner : ScanStep(s)

FileChange ==
    \/ \E p \in Path : Add(p) \/ Write(p) \/ Remove(p)
    \/ \E p, q \in Path : Move(p, q)

Next ==
    \/ Work
    \/ FileChange
    \/ \E l \in Remote : Remount(l)
    \/ \E s \in Scanner, l \in Library : Ask(s, l)
    \/ \E c \in Consumer : Fault(c)
    \/ \E s \in Scanner : ListFails(s)
    \/ Crash

Fairness ==
    /\ WF_vars(Handle)
    /\ \A b \in Base : WF_vars(Flush(b))
    /\ \A c \in Consumer : WF_vars(Consume(c))
    /\ \A s \in Scanner : WF_vars(ScanStep(s))

Spec == Init /\ [][Next]_vars

FairSpec == Spec /\ Fairness

\* The files stay as they are, and nothing fails but a mount.
MountSpec ==
    Init /\ [][Work \/ (\E l \in Remote : Remount(l))
                    \/ (\E s \in Scanner, l \in Library : Ask(s, l))]_vars

-----------------------------------------------------------------------------
TypeOK ==
    /\ files \subseteq Path
    /\ away \subseteq Remote
    /\ items \in [Path -> Library \cup {NoLibrary}]
    /\ pending \in [Base -> Event \cup {NoEvent}]
    /\ \A b \in Base : pending[b] # NoEvent =>
          pending[b].kind = "delete" /\ BaseOf[pending[b].path] = b
    /\ channel \in Seq(Event)
    /\ Len(channel) <= Capacity
    /\ inflight \in [Library -> Int]
    /\ pc \in [Consumer -> {"idle", "busy", "waiting", "stable"}]
    /\ hand \in [Consumer -> Event \cup {NoEvent}]
    /\ \A c \in Consumer : pc[c] = "idle" <=> hand[c] = NoEvent
    /\ touched \in [Consumer -> BOOLEAN]
    /\ stabilizing \subseteq Path
    /\ dropped \subseteq Path
    /\ watch \in Seq(Op)
    /\ scan \in [Scanner -> Scan]
    /\ \A s \in Scanner : scan[s].pc = "idle" <=> scan[s].lib = NoLibrary
    /\ scanning \subseteq Library
    /\ outside \in 0..MaxOutside
    /\ clean \in Library \cup {NoLibrary}
    /\ gone \subseteq Path

Tagged(l) ==
    {i \in 1..Len(channel) : channel[i].tag = l}

InHand(l) ==
    {c \in Busy : hand[c].tag = l}

\* A tag counts the events of its scans that are queued or being processed,
\* whatever was dropped, paired into a rename, failed or taken over by a
\* second scan of the same library: what Barrier waits for is what it means.
InflightExact ==
    \A l \in Library :
        inflight[l] = Cardinality(Tagged(l)) + Cardinality(InHand(l))

\* A file that two consumers could enter at once is waited for by one: no
\* path stays marked when nobody waits for it.
StabilizingExact ==
    stabilizing = {hand[c].path : c \in {d \in Consumer :
                                           pc[d] \in {"waiting", "stable"}}}

\* After a scan with nothing beside it and no event dropped, every file of
\* the library has its item, and an item without a file is one whose
\* deletion another of the same file name took the place of.
ScanAgrees ==
    (Quiet /\ clean # NoLibrary /\ dropped = {}) =>
        \A p \in PathsOf(clean) :
            /\ p \in files => items[p] # NoLibrary
            /\ (p \notin files /\ items[p] = clean) =>
                  \E q \in PathsOf(clean) \ {p} :
                      BaseOf[q] = BaseOf[p] /\ items[q] = NoLibrary

\* Every scan ends: Barrier is never left waiting for an event that was
\* dropped, paired or lost.
ScanEnds ==
    \A s \in Scanner : scan[s].pc # "idle" ~> scan[s].pc = "idle"

\* A file that is there all the time keeps its item, whatever the watcher
\* reports of files of the same name and whatever scans prune beside each
\* other (renameBuffer, processRename, pruneMissingPaths).
ResidentsKept ==
    [][\A p \in Path \ gone :
          items[p] # NoLibrary => items'[p] = items[p]]_vars

\* As long as no file is removed no item of a file is.
FilesSpared ==
    [][\A p \in files : items[p] # NoLibrary => items'[p] # NoLibrary]_vars
=============================================================================
