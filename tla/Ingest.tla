------------------------------- MODULE Ingest -------------------------------
(***************************************************************************)
(* IngestWorker: the one way into the items table.  Events of the watcher  *)
(* and of scans pass the rename buffer, which holds a deletion for a       *)
(* moment in case a creation makes a rename of it, then a bounded channel, *)
(* and are worked off by the consumers in an order of their own.           *)
(*                                                                         *)
(* A path is the video file of a movie.  A movie that has a directory of   *)
(* its own is scanned as that directory; the others are flat.              *)
(***************************************************************************)
EXTENDS Integers, Sequences

CONSTANTS
    Path,
    Base,
    BaseOf,     \* the file name of a path
    Library,
    LibraryOf,  \* the library whose root a path is under
    NoLibrary,  \* no item; an event without a tag
    Flat,       \* paths that are scanned file by file
    Consumer,
    NoEvent,    \* nothing buffered; a consumer without an event
    Capacity    \* ingestChannelBuffer

ASSUME IngestAssumption ==
    /\ BaseOf \in [Path -> Base]
    /\ LibraryOf \in [Path -> Library]
    /\ NoLibrary \notin Library
    /\ Flat \subseteq Path
    /\ Capacity \in Nat \ {0}

\* old is the previous path of a rename, and path otherwise.  The events of
\* a scan are those that have a tag.
Event == [kind : {"create", "modify", "delete", "rename"},
          path : Path, old : Path, tag : Library \cup {NoLibrary}]

ASSUME NoEventAssumption == NoEvent \notin Event

VARIABLES
    files,        \* the video files there are
    away,         \* libraries whose mount is gone
    items,        \* the library of the item with this file_path
    pending,      \* renameBuffer.pending
    channel,
    inflight,     \* events not yet processed, per tag
    pc,           \* where a consumer is
    hand,         \* the event it processes
    touched,      \* the file has changed since the consumer waits for it
    stabilizing,  \* paths a consumer waits for
    dropped       \* history: paths an event of which was dropped

disk == <<files, away>>
consumers == <<pc, hand, touched, stabilizing>>
ingest == <<items, pending, channel, inflight, consumers, dropped>>

OnDisk(p) == p \in files /\ LibraryOf[p] \notin away

EventOf(kind, p, tag) == [kind |-> kind, path |-> p, old |-> p, tag |-> tag]

IngestInit ==
    /\ pending = [b \in Base |-> NoEvent]
    /\ channel = <<>>
    /\ inflight = [l \in Library |-> 0]
    /\ pc = [c \in Consumer |-> "idle"]
    /\ hand = [c \in Consumer |-> NoEvent]
    /\ touched = [c \in Consumer |-> FALSE]
    /\ stabilizing = {}
    /\ dropped = {}

-----------------------------------------------------------------------------
(* The channel and the rename buffer.                                      *)

Counted(e, n) ==
    IF e.tag = NoLibrary THEN inflight ELSE [inflight EXCEPT ![e.tag] = @ + n]

\* Mutant: an event that is dropped stays counted.
Enqueue_CountsDropped(e) ==
    /\ inflight' = Counted(e, 1)
    /\ \/ /\ Len(channel) < Capacity
          /\ channel' = Append(channel, e)
          /\ UNCHANGED dropped
       \/ /\ Len(channel) >= Capacity
          /\ dropped' = dropped \cup {e.path, e.old}
          /\ UNCHANGED channel

Enqueue(e) ==
    \/ /\ Len(channel) < Capacity
       /\ channel' = Append(channel, e)
       /\ inflight' = Counted(e, 1)
       /\ UNCHANGED dropped
    \/ /\ Len(channel) >= Capacity
       /\ dropped' = dropped \cup {e.path, e.old}
       /\ UNCHANGED <<channel, inflight>>

\* A deletion takes the place of one of the same file name.
OnDelete(e) ==
    /\ pending' = [pending EXCEPT ![BaseOf[e.path]] = e]
    /\ UNCHANGED <<channel, inflight, dropped>>

\* A scan announces a movie in a directory of its own by the directory.
IsDir(e) == e.tag # NoLibrary /\ e.path \notin Flat

Pairs(d, e) == d # NoEvent /\ ~IsDir(e) /\ d.path # e.path

Renamed(d, e) == [e EXCEPT !.kind = "rename", !.old = d.path]

OnCreate(e) ==
    LET d == pending[BaseOf[e.path]]
    IN  \/ /\ Pairs(d, e)
           /\ pending' = [pending EXCEPT ![BaseOf[e.path]] = NoEvent]
           /\ Enqueue(Renamed(d, e))
        \/ /\ ~Pairs(d, e)
           /\ Enqueue(e)
           /\ UNCHANGED pending

\* Mutant: a modification is buffered too.
Submit_BuffersModify(e) ==
    /\ \/ e.kind \in {"delete", "modify"} /\ OnDelete(e)
       \/ e.kind = "create" /\ OnCreate(e)
    /\ UNCHANGED <<items, consumers>>

Submit(e) ==
    /\ \/ e.kind = "delete" /\ OnDelete(e)
       \/ e.kind = "create" /\ OnCreate(e)
       \/ e.kind = "modify" /\ Enqueue(e) /\ UNCHANGED pending
    /\ UNCHANGED <<items, consumers>>

\* The moment is over and no creation has come.
FlushDelete(b) ==
    /\ pending[b] # NoEvent
    /\ pending' = [pending EXCEPT ![b] = NoEvent]
    /\ Enqueue(pending[b])
    /\ UNCHANGED <<disk, items, consumers>>

-----------------------------------------------------------------------------
(* The consumers.                                                          *)

Take(c) ==
    /\ pc[c] = "idle"
    /\ channel # <<>>
    /\ channel' = Tail(channel)
    /\ pc' = [pc EXCEPT ![c] = "busy"]
    /\ hand' = [hand EXCEPT ![c] = Head(channel)]
    /\ UNCHANGED <<disk, items, pending, inflight, touched, stabilizing, dropped>>

\* Mutant: the entry in stabilizing stays.
Finish_KeepsMark(c) ==
    /\ pc' = [pc EXCEPT ![c] = "idle"]
    /\ hand' = [hand EXCEPT ![c] = NoEvent]
    /\ touched' = [touched EXCEPT ![c] = FALSE]
    /\ inflight' = Counted(hand[c], -1)
    /\ UNCHANGED <<disk, pending, channel, stabilizing>>

\* The end of processEvent, and of the entry in stabilizing if it has one.
Finish(c) ==
    /\ pc' = [pc EXCEPT ![c] = "idle"]
    /\ hand' = [hand EXCEPT ![c] = NoEvent]
    /\ touched' = [touched EXCEPT ![c] = FALSE]
    /\ stabilizing' = IF pc[c] = "busy" THEN stabilizing
                                        ELSE stabilizing \ {hand[c].path}
    /\ inflight' = Counted(hand[c], -1)
    /\ UNCHANGED <<disk, pending, channel>>

Creates(c) == pc[c] = "busy" /\ hand[c].kind \in {"create", "modify"}

\* Only the watcher's files may still be written.
Waits(c) == hand[c].tag = NoLibrary

BeginWait(c) ==
    /\ Creates(c)
    /\ Waits(c)
    /\ hand[c].path \notin stabilizing
    /\ OnDisk(hand[c].path)
    /\ stabilizing' = stabilizing \cup {hand[c].path}
    /\ pc' = [pc EXCEPT ![c] = "waiting"]
    /\ UNCHANGED <<disk, items, pending, channel, inflight, hand, touched, dropped>>

SkipCreate(c) ==
    /\ Creates(c)
    /\ Waits(c)
    /\ hand[c].path \in stabilizing \/ ~OnDisk(hand[c].path)
    /\ Finish(c)
    /\ UNCHANGED <<items, dropped>>

WaitStable(c) ==
    /\ pc[c] = "waiting"
    /\ OnDisk(hand[c].path)
    /\ pc' = [pc EXCEPT ![c] = "stable"]
    /\ UNCHANGED <<disk, items, pending, channel, inflight, hand, touched,
                   stabilizing, dropped>>

\* A file that changed may have changed until the last attempt.
WaitFails(c) ==
    /\ pc[c] = "waiting"
    /\ touched[c] \/ ~OnDisk(hand[c].path)
    /\ Finish(c)
    /\ UNCHANGED <<items, dropped>>

\* A directory is read again; a flat file is entered as the event says.
scanOneMovie(p, l) ==
    IF items[p] = NoLibrary /\ (p \in Flat \/ OnDisk(p))
    THEN [items EXCEPT ![p] = l] ELSE items

processCreate(c) ==
    /\ (Creates(c) /\ ~Waits(c)) \/ pc[c] = "stable"
    /\ LET e == hand[c] IN
       items' = scanOneMovie(e.path,
                    IF e.tag = NoLibrary THEN LibraryOf[e.path] ELSE e.tag)
    /\ Finish(c)
    /\ UNCHANGED dropped

processDelete(c) ==
    /\ pc[c] = "busy"
    /\ hand[c].kind = "delete"
    /\ items' = [items EXCEPT ![hand[c].path] = NoLibrary]
    /\ Finish(c)
    /\ UNCHANGED dropped

\* The item keeps its library, and nothing happens if the new path has an
\* item: file_path is unique.
processRename(c) ==
    /\ pc[c] = "busy"
    /\ hand[c].kind = "rename"
    /\ LET e == hand[c] IN
       \/ /\ items[e.old] # NoLibrary
          /\ items' = IF items[e.path] # NoLibrary THEN items
                      ELSE [items EXCEPT ![e.path] = items[e.old],
                                         ![e.old] = NoLibrary]
          /\ Finish(c)
       \/ /\ items[e.old] = NoLibrary
          /\ hand' = [hand EXCEPT ![c] = EventOf("create", e.path, e.tag)]
          /\ UNCHANGED <<disk, items, pending, channel, inflight, pc, touched,
                         stabilizing>>
    /\ UNCHANGED dropped

\* A statement fails: the error is logged and the event is gone.
ProcessFails(c) ==
    /\ pc[c] \in {"busy", "stable"}
    /\ dropped' = dropped \cup {hand[c].path, hand[c].old}
    /\ Finish(c)
    /\ UNCHANGED items

Process(c) ==
    \/ BeginWait(c)
    \/ SkipCreate(c)
    \/ WaitStable(c)
    \/ WaitFails(c)
    \/ processCreate(c)
    \/ processDelete(c)
    \/ processRename(c)
=============================================================================
