------------------------------- MODULE Playback -------------------------------
(***************************************************************************)
(* What the devices of one user play: the three handlers that clients call *)
(* when a playback starts, goes on and stops, the table activePlaybacks    *)
(* they share, the resume positions and rows of activity they write, and   *)
(* the ticker that gives up silent playbacks.                              *)
(*                                                                         *)
(* A request is a process of its own, with a step for every critical       *)
(* section or statement whose order can be told apart.  The n-th request   *)
(* reports the position n; a stop may report none.  Items of online        *)
(* sources, which have handlers and a table of their own, are left out,    *)
(* and so is what a session shows as playing, which they only write.       *)
(***************************************************************************)
EXTENDS ProgressBuffer, FiniteSets

CONSTANTS
    Device,
    Asked,        \* bound: the items and versions that clients name
    Limit,        \* SimultaneousStreamLimit of the user's policy, 0 for none
    Threshold,    \* the first position that counts as played to the end
    MaxInFlight,  \* bound: requests that are handled at the same time
    NoRequest,    \* a number that is not being handled
    NoPlayback    \* no entry

Number == 1..MaxPosition

ASSUME PlaybackAssumption ==
    /\ Asked \subseteq Key
    /\ Limit \in Nat
    /\ Threshold \in Number

VARIABLES
    active,   \* activePlaybacks
    sent,     \* the requests the clients have sent
    req,      \* the requests being handled, by number
    latest,   \* the last thing that decided the position of a row
    ended,    \* playbacks that were watched for long and are over
    rows,     \* how many activity rows a playback has
    excused,  \* playbacks whose row was lost in one of the ways named below
    switched  \* playbacks that a report about something else recorded

log == <<ended, rows, excused, switched>>
vars == <<bufferVars, resume, active, sent, req, latest, log>>

\* An entry; its id is the number of the request that inserted it.  long: it
\* started more than five seconds ago; watched: so had it at its last report;
\* quiet: that report is more than 120 seconds old.
Entry == [id : Number, key : Key, pos : Position,
          long : BOOLEAN, watched : BOOLEAN, quiet : BOOLEAN]

Kind == {"start", "progress", "stop"}

\* held: the entry that was removed.
Request == [kind : Kind, dev : Device, key : Key, pos : Position,
            at : {"limit", "buffer", "renew", "insert",
                  "remove", "record", "write"},
            held : Entry \cup {NoPlayback}]

\* What decided the position of a row last.  A report leaves its position, or,
\* once a flush has taken it together with reports about other versions of the
\* item, the position of any of them.
Reported(ps) == [by |-> "report", pos |-> ps]
Finished == [by |-> "finished", pos |-> {}]
Other == [by |-> "other", pos |-> {}]

Deciding == [by : {"report", "finished", "other"}, pos : SUBSET Position]

ASSUME NothingAssumption ==
    NoPlayback \notin Entry /\ NoRequest \notin Request

Handled == {n \in Number : req[n] # NoRequest}

\* The id of an entry that deserves an activity row.
LongRow(e) == IF e # NoPlayback /\ e.long THEN {e.id} ELSE {}

\* ActivePlaybackCount.
Playing == {d \in Device : active[d] # NoPlayback}

Init ==
    /\ BufferInit
    /\ active = [d \in Device |-> NoPlayback]
    /\ sent = 0
    /\ req = [n \in Number |-> NoRequest]
    /\ latest = [r \in Key |-> Other]
    /\ ended = {}
    /\ rows = [n \in Number |-> 0]
    /\ excused = {}
    /\ switched = {}

-----------------------------------------------------------------------------
(* Requests.                                                               *)

At(n, kinds, point) ==
    n \in Handled /\ req[n].kind \in kinds /\ req[n].at = point

Goto(n, point) == req' = [req EXCEPT ![n].at = point]

Answer(n) == req' = [req EXCEPT ![n] = NoRequest]

\* An activity row, unless the insert fails, which is only logged.
Records(ids) ==
    \E done \in SUBSET ids :
        /\ rows' = [n \in Number |->
                      IF n \in done /\ rows[n] < 2 THEN rows[n] + 1 ELSE rows[n]]
        /\ excused' = excused \cup (ids \ done)

Arrive(kind, d, k, p) ==
    /\ sent < MaxPosition
    /\ Cardinality(Handled) < MaxInFlight
    /\ sent' = sent + 1
    /\ req' = [req EXCEPT ![sent + 1] =
                 [kind |-> kind, dev |-> d, key |-> k, pos |-> p,
                  at |-> CASE kind = "start"    -> "limit"
                           [] kind = "progress" -> "buffer"
                           [] kind = "stop"     -> "remove",
                  held |-> NoPlayback]]
    /\ UNCHANGED <<bufferVars, resume, active, latest, log>>

\* OnPlaybackStart compares the number of entries, its own device's included.
CheckLimit(n) ==
    /\ At(n, {"start"}, "limit")
    /\ IF Limit > 0 /\ Cardinality(Playing) >= Limit
         THEN Answer(n) ELSE Goto(n, "buffer")
    /\ UNCHANGED <<bufferVars, resume, active, sent, latest, log>>

\* The rows in done are decided anew.
Decide(done, what) ==
    latest' = [r \in Key |-> IF r \in done THEN what ELSE latest[r]]

\* The report goes to the buffer, for the item and the version it names.
Report(n) ==
    /\ At(n, {"start", "progress"}, "buffer")
    /\ BufferProgress(req[n].key, req[n].pos)
    /\ Decide(Rows(req[n].key), Reported({req[n].pos}))
    /\ Goto(n, IF req[n].kind = "start" THEN "insert" ELSE "renew")
    /\ UNCHANGED <<resume, active, sent, log>>

\* The same item and sameMediaSource: a version that is not named is any.
Same(j, k) ==
    /\ j[1] = k[1]
    /\ j[2] = k[2] \/ NoVersion \in {j[2], k[2]}

\* The first critical section of OnPlaybackProgress renews the entry, and
\* notes the version it did not know.
Renew(n) ==
    /\ At(n, {"progress"}, "renew")
    /\ LET d == req[n].dev
       IN  /\ active[d] # NoPlayback
           /\ Same(active[d].key, req[n].key)
           /\ active' = [active EXCEPT ![d].pos = req[n].pos,
                                       ![d].key = IF req[n].key[2] = NoVersion
                                                    THEN @ ELSE req[n].key,
                                       ![d].watched = active[d].long,
                                       ![d].quiet = FALSE]
    /\ Answer(n)
    /\ UNCHANGED <<bufferVars, resume, sent, latest, log>>

\* Or it finds none, or records one of another item or version and leaves it
\* there: a new entry is due.
Switch(n) ==
    /\ At(n, {"progress"}, "renew")
    /\ LET e == active[req[n].dev]
       IN  \/ e = NoPlayback /\ UNCHANGED log
           \/ /\ e # NoPlayback
              /\ ~Same(e.key, req[n].key)
              /\ switched' = switched \cup {e.id}
              /\ Records(LongRow(e))
              /\ UNCHANGED ended
    /\ Goto(n, "insert")
    /\ UNCHANGED <<bufferVars, resume, active, sent, latest>>

\* The new entry takes the place of whatever is there; a start records
\* nothing of it.
Insert(n) ==
    /\ At(n, {"start", "progress"}, "insert")
    /\ LET d == req[n].dev
           old == LongRow(active[d])
       IN  /\ active' = [active EXCEPT ![d] =
                [id |-> n, key |-> req[n].key, pos |-> req[n].pos,
                 long |-> FALSE, watched |-> FALSE, quiet |-> FALSE]]
           /\ ended' = ended \cup old
           /\ excused' = IF req[n].kind = "start" THEN excused \cup old
                                                  ELSE excused
    /\ Answer(n)
    /\ UNCHANGED <<bufferVars, resume, sent, latest, rows, switched>>

\* Mutant: the entry is looked up, and deleted by nobody.
Remove_Keeps(n) ==
    /\ At(n, {"stop"}, "remove")
    /\ req' = [req EXCEPT ![n].at = "record", ![n].held = active[req[n].dev]]
    /\ UNCHANGED <<bufferVars, resume, active, sent, latest, log>>

\* OnPlaybackStopped takes the entry out, whatever it is about.
Remove(n) ==
    /\ At(n, {"stop"}, "remove")
    /\ LET e == active[req[n].dev]
       IN  /\ req' = [req EXCEPT ![n].at = "record", ![n].held = e]
           /\ ended' = ended \cup LongRow(e)
    /\ active' = [active EXCEPT ![req[n].dev] = NoPlayback]
    /\ UNCHANGED <<bufferVars, resume, sent, latest, rows, excused,
                   switched>>

\* The activity is recorded; a request without a
\* position takes the last one reported.
Record(n) ==
    /\ At(n, {"stop"}, "record")
    /\ Records(LongRow(req[n].held))
    /\ req' = [req EXCEPT ![n].at = "write", ![n].held = NoPlayback,
                          ![n].pos = IF @ = 0 /\ req[n].held # NoPlayback
                                       THEN req[n].held.pos ELSE @]
    /\ UNCHANGED <<bufferVars, resume, active, sent, latest, ended, switched>>

\* The position at the end, written at once: 0 when the item was played to
\* the end, nothing when no position is known.  The row of the version is
\* written after that of the item, and its error ignored.
WriteStop(n) ==
    /\ At(n, {"stop"}, "write")
    /\ LET p == req[n].pos
       IN  \E done \in {Rows(req[n].key), {ItemRow(req[n].key)}} :
             IF p >= Threshold
               THEN UpsertUserItemData(done, 0) /\ Decide(done, Finished)
             ELSE IF p > 0
               THEN UpsertUserItemData(done, p) /\ Decide(done, Other)
             ELSE UpsertUserItemData(done, NoPosition) /\ UNCHANGED latest
    /\ Answer(n)
    /\ UNCHANGED <<bufferVars, active, sent, log>>

\* A query fails and the request is answered with an error: before anything
\* is reported, or before the end is written.
RequestFails(n) ==
    /\ n \in Handled
    /\ req[n].at \in {"limit", "buffer", "write"}
    /\ Answer(n)
    /\ UNCHANGED <<bufferVars, resume, active, sent, latest, log>>

Handle(n) ==
    \/ CheckLimit(n) \/ Report(n) \/ Renew(n) \/ Switch(n) \/ Insert(n)
    \/ Remove(n) \/ Record(n) \/ WriteStop(n)

-----------------------------------------------------------------------------
\* MarkPlayed and MarkUnplayed write the position 0, to the row of the item
\* and then to those of its versions, whose error is ignored.
Mark(i) ==
    /\ sent < MaxPosition
    /\ sent' = sent + 1
    /\ \E done \in {{r \in Key : r[1] = i}, {<<i, NoVersion>>}} :
          UpsertUserItemData(done, 0) /\ Decide(done, Other)
    /\ UNCHANGED <<bufferVars, active, req, log>>

-----------------------------------------------------------------------------
(* The flusher, the tickers, time.                                         *)

\* What a flush takes together is written in any order.
Flush ==
    /\ \/ /\ FlushTake
          /\ latest' = [r \in Key |->
                          IF latest[r].by = "report" /\ Waiting(r) # {}
                            THEN Reported(Waiting(r)) ELSE latest[r]]
       \/ /\ \E k \in Key : FlushWrite(k)
          /\ UNCHANGED latest
    /\ UNCHANGED <<active, sent, req, log>>

\* A report that a row does not get is given up, unless another one waits.
FlushError ==
    /\ \E k \in Key : \E done \in (SUBSET Rows(k)) \ {Rows(k)} :
          /\ FlushFails(k, done)
          /\ Decide({r \in Rows(k) \ done : /\ latest[r].by = "report"
                                           /\ Waiting(r) = {}},
                    Other)
    /\ UNCHANGED <<active, sent, req, log>>

Silent == {d \in Playing : active[d].quiet}

Watched == {d \in Silent : active[d].watched}

\* The silent playbacks are given up; those that were watched are recorded.
FlushStalePlaybacks ==
    LET ids == {active[d].id : d \in Watched}
    IN  /\ Silent # {}
        /\ active' = [d \in Device |-> IF d \in Silent THEN NoPlayback
                                                       ELSE active[d]]
        /\ Records(ids)
        /\ ended' = ended \cup ids
        /\ UNCHANGED <<bufferVars, resume, sent, req, latest, switched>>

\* No handler takes five seconds from its first critical section to its last.
Settled(d) ==
    \A n \in Handled :
        req[n].dev = d => req[n].at # "insert"

PlaybackLasts(d) ==
    /\ Settled(d)
    /\ active[d] # NoPlayback
    /\ active' = [active EXCEPT ![d].quiet = active[d].long,
                                ![d].long = TRUE]
    /\ UNCHANGED <<bufferVars, resume, sent, req, latest, log>>

\* The process ends, in whatever way, and is started again.
Crash ==
    LET playing == UNION {LongRow(active[d]) : d \in Device}
        stopping == {n \in Handled : req[n].at = "record"}
    IN  /\ BufferLost
        /\ active' = [d \in Device |-> NoPlayback]
        /\ req' = [n \in Number |-> NoRequest]
        /\ ended' = ended \cup playing
        /\ excused' = excused \cup playing
                         \cup UNION {LongRow(req[n].held) : n \in stopping}
        /\ Decide({r \in Key : /\ latest[r].by = "report"
                               /\ Waiting(r) \cup Moving(r) # {}}, Other)
        /\ UNCHANGED <<resume, sent, rows, switched>>

-----------------------------------------------------------------------------
Clients ==
    \/ \E kind \in Kind, d \in Device, k \in Asked : Arrive(kind, d, k, sent + 1)
    \/ \E d \in Device, k \in Asked : Arrive("stop", d, k, 0)
    \/ \E i \in Item : Mark(i)

System ==
    \/ \E n \in Number : Handle(n)
    \/ Flush \/ FlushStalePlaybacks
    \/ \E d \in Device : PlaybackLasts(d)

Faults ==
    \/ \E n \in Number : RequestFails(n)
    \/ FlushError
    \/ Crash

Next == Clients \/ System \/ Faults

Spec == Init /\ [][Next]_vars

\* Nothing fails.
FaultFreeNext == Clients \/ System

FaultFreeSpec == Init /\ [][FaultFreeNext]_vars

-----------------------------------------------------------------------------
(* Properties.                                                             *)

\* The shape of the state.
TypeOK ==
    /\ BufferTypeOK
    /\ active \in [Device -> Entry \cup {NoPlayback}]
    /\ sent \in 0..MaxPosition
    /\ req \in [Number -> Request \cup {NoRequest}]
    /\ latest \in [Key -> Deciding]
    /\ ended \subseteq Number
    /\ rows \in [Number -> 0..2]
    /\ excused \subseteq Number
    /\ switched \subseteq Number

\* As long as a report is the last thing that decided the position of a row,
\* that of a media version or of a whole item, no interleaving of reports,
\* flushes and other writes brings back a position from before it
\* (BufferProgress, flushOnce): the report waits in the buffer, or what the
\* flush in progress has still to write is it, or it is written.  What a flush
\* took together is not told apart: an item may be left with the position of
\* another version that was reported within the same three seconds, a version
\* is not.
LastReportKept ==
    \A r \in Key :
        LET kept == latest[r].pos
        IN  latest[r].by = "report" =>
              IF Waiting(r) # {} THEN kept \subseteq Waiting(r)
              ELSE IF Moving(r) # {} THEN Moving(r) \subseteq kept
              ELSE resume[r] \in kept

\* The last report about an item is what it resumes from: no flush takes it
\* together with a report about another version (flushOnce).  The code does
\* not ensure it.
OneReportAtATime ==
    \A r \in Key : latest[r].by = "report" => \E p \in Position : latest[r].pos = {p}

\* A playback of more than five seconds that is over has an activity row, or
\* its request is about to write it; it has a second one only if a report
\* about another item or version recorded it and left it in place (OnPlaybackProgress,
\* OnPlaybackStopped, FlushStalePlaybacks).
ActivityKept ==
    /\ \A n \in ended :
          \/ rows[n] > 0
          \/ n \in excused
          \/ \E m \in Handled : req[m].at = "record" /\ n \in LongRow(req[m].held)
    /\ \A n \in Number : rows[n] > 1 => n \in switched

\* What was played to the end, and of which nothing was reported since, has no
\* resume position once the buffer is flushed.
FinishedLeavesResume ==
    \A r \in Key :
        latest[r].by = "finished" /\ Waiting(r) \cup Moving(r) = {}
        => resume[r] = 0

=============================================================================
