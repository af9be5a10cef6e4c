---------------------------- MODULE PlaybackProofs ----------------------------
(***************************************************************************)
(* The handlers keep the state of playback well typed, and the buffer      *)
(* keeps the last report, for any number of devices, items and requests.   *)
(***************************************************************************)
EXTENDS Playback, TLAPS

\* The positions and request numbers, as the proofs use them.
LEMMA Numbers ==
    /\ 0 \in Position
    /\ Number \subseteq Position
    /\ \A k \in 0..MaxPosition : k < MaxPosition =>
          k + 1 \in Number /\ k + 1 \in 0..MaxPosition
    /\ \A n \in Number : n \in Nat \ {0}
BY PositionAssumption DEF Position, Number

\* A request that is being handled is one.
LEMMA HandledRequest ==
    ASSUME TypeOK, NEW n \in Handled
    PROVE  /\ n \in Number
           /\ req[n] \in Request
           /\ req[n].key \in Key
           /\ req[n].dev \in Device
           /\ req[n].pos \in Position
           /\ req[n].kind \in Kind
           /\ req[n].held \in Entry \cup {NoPlayback}
<1>1. n \in Number /\ req[n] \in Request
  BY DEF TypeOK, Handled
<1> QED
  BY <1>1 DEF Request

\* An entry is one, and its id is a request's number.
LEMMA ActiveEntry ==
    ASSUME TypeOK, NEW d \in Device, active[d] # NoPlayback
    PROVE  active[d] \in Entry /\ active[d].id \in Number
BY DEF TypeOK, Entry

\* The playback a removed entry stands for has a request's number.
LEMMA LongRowType ==
    ASSUME NEW e \in Entry \cup {NoPlayback}
    PROVE  LongRow(e) \subseteq Number
BY DEF LongRow, Entry

\* The rows of a key are keys.
LEMMA RowsType ==
    ASSUME NEW k \in Key
    PROVE  ItemRow(k) \in Key /\ Rows(k) \subseteq Key /\ k \in Rows(k)
BY DEF Key, Rows, ItemRow

\* What waits for a row, or moves to it, are positions.
LEMMA HeldType ==
    ASSUME TypeOK, NEW r \in Key
    PROVE  Waiting(r) \subseteq Position /\ Moving(r) \subseteq Position
BY DEF TypeOK, BufferTypeOK, Waiting, Moving, Held, Writers

\* What decides a row is a report of positions, an end or something else.
LEMMA DecidingType ==
    /\ Other \in Deciding
    /\ Finished \in Deciding
    /\ \A ps \in SUBSET Position : Reported(ps) \in Deciding
BY DEF Deciding, Other, Finished, Reported

\* Rows that are decided stay well typed,
LEMMA DecideType ==
    ASSUME TypeOK, NEW done, NEW what \in Deciding, Decide(done, what)
    PROVE  latest' \in [Key -> Deciding]
BY DEF TypeOK, Decide

\* and so do rows that are written.
LEMMA WriteType ==
    ASSUME TypeOK, NEW done, NEW p \in Position \cup {NoPosition},
           (p # NoPosition /\ Write(done, p)) \/ UpsertUserItemData(done, p)
    PROVE  resume' \in [Key -> Position]
BY DEF TypeOK, BufferTypeOK, Write, UpsertUserItemData

\* An answered request leaves its place, and one that goes on keeps its shape.
LEMMA AnswerType ==
    ASSUME TypeOK, NEW n \in Number, Answer(n)
    PROVE  req' \in [Number -> Request \cup {NoRequest}]
BY DEF TypeOK, Answer

\* So does one that goes on to its next critical section.
LEMMA GotoType ==
    ASSUME TypeOK, NEW n \in Handled,
           NEW point \in {"limit", "buffer", "renew", "insert",
                          "remove", "record", "write"},
           Goto(n, point)
    PROVE  req' \in [Number -> Request \cup {NoRequest}]
<1>1. n \in Number /\ req[n] \in Request
  BY HandledRequest
<1>2. [req[n] EXCEPT !.at = point] \in Request
  BY <1>1 DEF Request
<1>3. req' = [req EXCEPT ![n] = [req[n] EXCEPT !.at = point]]
  BY <1>1 DEF Goto, TypeOK
<1> QED
  BY <1>2, <1>3 DEF TypeOK

\* Recording counts up to two rows.
LEMMA RecordsType ==
    ASSUME TypeOK, NEW ids \in SUBSET Number, Records(ids)
    PROVE  rows' \in [Number -> 0..2] /\ excused' \subseteq Number
BY DEF Records, TypeOK

-----------------------------------------------------------------------------
(* Type correctness.                                                       *)

\* Playback starts well typed.
LEMMA InitTyped == Init => TypeOK
BY Numbers, PositionAssumption, DecidingType
   DEF Init, TypeOK, BufferInit, BufferTypeOK, NoEntries, Number

\* A request comes in with its number as its position, or with none.
LEMMA ArriveTyped ==
    ASSUME TypeOK, NEW kind \in Kind, NEW d \in Device, NEW k \in Key,
           NEW p \in {sent + 1, 0}, Arrive(kind, d, k, p)
    PROVE  TypeOK'
<1>1. sent + 1 \in Number /\ sent + 1 \in 0..MaxPosition /\ p \in Position
  BY Numbers, PositionAssumption DEF TypeOK, Arrive
<1>2. req' \in [Number -> Request \cup {NoRequest}]
  <2>1. [kind |-> kind, dev |-> d, key |-> k, pos |-> p,
         at |-> CASE kind = "start"    -> "limit"
                  [] kind = "progress" -> "buffer"
                  [] kind = "stop"     -> "remove",
         held |-> NoPlayback] \in Request
    BY <1>1 DEF Request, Kind
  <2> QED
    BY <1>1, <2>1 DEF TypeOK, Arrive
<1> QED
  BY <1>1, <1>2 DEF TypeOK, Arrive, BufferTypeOK, bufferVars, log

\* Every step of a handler.
LEMMA HandleTyped ==
    ASSUME TypeOK, NEW n \in Number, Handle(n)
    PROVE  TypeOK'
<1>1. CASE CheckLimit(n)
  <2>1. n \in Handled /\ (Answer(n) \/ Goto(n, "buffer"))
    BY <1>1 DEF CheckLimit, At
  <2>2. req' \in [Number -> Request \cup {NoRequest}]
    BY <2>1, AnswerType, GotoType
  <2> QED
    BY <1>1, <2>2 DEF TypeOK, CheckLimit, BufferTypeOK, bufferVars, log
<1>2. CASE Report(n)
  <2>1. n \in Handled /\ (Goto(n, "insert") \/ Goto(n, "renew"))
    BY <1>2 DEF Report, At
  <2>2. req' \in [Number -> Request \cup {NoRequest}]
    BY <2>1, GotoType
  <2>3. req[n].key \in Key /\ req[n].pos \in Position
    BY <2>1, HandledRequest
  <2>4. latest' \in [Key -> Deciding]
    BY <1>2, <2>3, DecidingType, DecideType DEF Report
  <2>5. BufferTypeOK'
    BY <1>2, <2>3 DEF TypeOK, BufferTypeOK, Report, BufferProgress
  <2> QED
    BY <1>2, <2>2, <2>4, <2>5 DEF TypeOK, Report, log
<1>3. CASE Renew(n)
  <2>1. n \in Handled /\ Answer(n)
    BY <1>3 DEF Renew, At
  <2>2. req' \in [Number -> Request \cup {NoRequest}]
    BY <2>1, AnswerType
  <2>3. req[n].dev \in Device /\ req[n].pos \in Position /\ req[n].key \in Key
    BY <2>1, HandledRequest
  <2>4. active[req[n].dev] \in Entry
    BY <1>3, <2>3, ActiveEntry DEF Renew
  <2>5. active' \in [Device -> Entry \cup {NoPlayback}]
    <3> DEFINE d == req[n].dev
               e == [active[d] EXCEPT !.pos = req[n].pos,
                                      !.key = IF req[n].key[2] = NoVersion
                                                THEN active[d].key
                                                ELSE req[n].key,
                                      !.watched = active[d].long,
                                      !.quiet = FALSE]
    <3>1. e \in Entry
      BY <2>3, <2>4 DEF Entry
    <3>2. active' = [active EXCEPT ![d] = e]
      BY <1>3, <2>3 DEF Renew, TypeOK
    <3> QED
      BY <2>3, <3>1, <3>2 DEF TypeOK
  <2> QED
    BY <1>3, <2>2, <2>5 DEF TypeOK, Renew, BufferTypeOK, bufferVars, log
<1>4. CASE Switch(n)
  <2>1. n \in Handled /\ req[n] \in Request /\ req[n].dev \in Device
    BY <1>4, HandledRequest DEF Switch, At
  <2>2. req' \in [Number -> Request \cup {NoRequest}]
    BY <1>4, <2>1, GotoType DEF Switch
  <2>3. /\ ended' \subseteq Number
        /\ rows' \in [Number -> 0..2]
        /\ excused' \subseteq Number
        /\ switched' \subseteq Number
    <3> DEFINE e == active[req[n].dev]
    <3>1. CASE e = NoPlayback
      BY <1>4, <3>1 DEF Switch, TypeOK, log
    <3>2. CASE e # NoPlayback
      <4>1. e.id \in Number /\ LongRow(e) \in SUBSET Number
        BY <2>1, <3>2, ActiveEntry DEF LongRow
      <4>2. /\ switched' = switched \cup {e.id}
            /\ Records(LongRow(e))
            /\ ended' = ended
        BY <1>4, <3>2 DEF Switch
      <4> QED
        BY <4>1, <4>2, RecordsType DEF TypeOK
    <3> QED
      BY <3>1, <3>2
  <2> QED
    BY <1>4, <2>2, <2>3 DEF TypeOK, Switch, BufferTypeOK, bufferVars
<1>5. CASE Insert(n)
  <2>1. n \in Handled
    BY <1>5 DEF Insert, At
  <2>2. /\ req[n].key \in Key
        /\ req[n].pos \in Position
        /\ req[n].dev \in Device
    BY <2>1, HandledRequest
  <2>3. LongRow(active[req[n].dev]) \subseteq Number
    BY <2>2, LongRowType DEF TypeOK
  <2>4. active' \in [Device -> Entry \cup {NoPlayback}]
    <3>1. [id |-> n, key |-> req[n].key, pos |-> req[n].pos,
           long |-> FALSE, watched |-> FALSE, quiet |-> FALSE] \in Entry
      BY <2>2 DEF Entry
    <3> QED
      BY <1>5, <3>1 DEF TypeOK, Insert
  <2>5. req' \in [Number -> Request \cup {NoRequest}]
    BY <1>5, AnswerType DEF Insert
  <2>6. ended' \subseteq Number /\ excused' \subseteq Number
    BY <1>5, <2>3 DEF Insert, TypeOK
  <2> QED
    BY <1>5, <2>4, <2>5, <2>6 DEF TypeOK, Insert, BufferTypeOK, bufferVars
<1>6. CASE Remove(n)
  <2>1. n \in Handled /\ req[n] \in Request /\ req[n].dev \in Device
    BY <1>6, HandledRequest DEF Remove, At
  <2> DEFINE e == active[req[n].dev]
  <2>2. e \in Entry \cup {NoPlayback} /\ LongRow(e) \subseteq Number
    BY <2>1, LongRowType DEF TypeOK
  <2>3. req' \in [Number -> Request \cup {NoRequest}]
    <3>1. [req[n] EXCEPT !.at = "record", !.held = e] \in Request
      BY <2>1, <2>2 DEF Request
    <3>2. req' = [req EXCEPT ![n] = [req[n] EXCEPT !.at = "record", !.held = e]]
      BY <1>6 DEF Remove, TypeOK
    <3> QED
      BY <3>1, <3>2 DEF TypeOK
  <2>4. active' \in [Device -> Entry \cup {NoPlayback}]
    BY <1>6 DEF TypeOK, Remove
  <2>5. ended' \subseteq Number
    BY <1>6, <2>2 DEF TypeOK, Remove
  <2> QED
    BY <1>6, <2>3, <2>4, <2>5 DEF TypeOK, Remove, BufferTypeOK, bufferVars
<1>7. CASE Record(n)
  <2>1. /\ n \in Handled
        /\ req[n] \in Request
        /\ req[n].held \in Entry \cup {NoPlayback}
        /\ req[n].pos \in Position
    BY <1>7, HandledRequest DEF Record, At
  <2> DEFINE p == IF req[n].pos = 0 /\ req[n].held # NoPlayback
                    THEN req[n].held.pos ELSE req[n].pos
             q == [req[n] EXCEPT !.at = "write", !.held = NoPlayback, !.pos = p]
  <2>2. p \in Position
    BY <2>1 DEF Entry
  <2>3. q \in Request
    BY <2>1, <2>2 DEF Request
  <2>4. req' = [req EXCEPT ![n] = q]
    BY <1>7 DEF Record, TypeOK
  <2>5. req' \in [Number -> Request \cup {NoRequest}]
    BY <2>3, <2>4 DEF TypeOK
  <2>6. rows' \in [Number -> 0..2] /\ excused' \subseteq Number
    BY <1>7, <2>1, LongRowType, RecordsType DEF Record
  <2> QED
    BY <1>7, <2>5, <2>6 DEF TypeOK, Record, BufferTypeOK, bufferVars
<1>8. CASE WriteStop(n)
  <2>1. n \in Handled
    BY <1>8 DEF WriteStop, At
  <2>2. req[n].pos \in Position
    BY <2>1, HandledRequest
  <2>3. req' \in [Number -> Request \cup {NoRequest}]
    BY <1>8, AnswerType DEF WriteStop
  <2>4. PICK done \in {Rows(req[n].key), {ItemRow(req[n].key)}} :
          IF req[n].pos >= Threshold
            THEN UpsertUserItemData(done, 0) /\ Decide(done, Finished)
          ELSE IF req[n].pos > 0
            THEN UpsertUserItemData(done, req[n].pos) /\ Decide(done, Other)
          ELSE UpsertUserItemData(done, NoPosition) /\ UNCHANGED latest
    BY <1>8 DEF WriteStop
  <2>5. resume' \in [Key -> Position]
    BY <2>2, <2>4, Numbers, WriteType
  <2>6. latest' \in [Key -> Deciding]
    BY <2>4, DecidingType, DecideType DEF TypeOK
  <2> QED
    BY <1>8, <2>3, <2>5, <2>6 DEF TypeOK, WriteStop, BufferTypeOK, bufferVars, log
<1> QED
  BY <1>1, <1>2, <1>3, <1>4, <1>5, <1>6, <1>7, <1>8 DEF Handle

\* Marks.
LEMMA MarkTyped ==
    ASSUME TypeOK, NEW i \in Item, Mark(i)
    PROVE  TypeOK'
<1>1. sent' \in 0..MaxPosition
  BY Numbers DEF Mark, TypeOK
<1>2. PICK done \in {{r \in Key : r[1] = i}, {<<i, NoVersion>>}} :
        UpsertUserItemData(done, 0) /\ Decide(done, Other)
  BY DEF Mark
<1>3. resume' \in [Key -> Position] /\ latest' \in [Key -> Deciding]
  BY <1>2, Numbers, WriteType, DecidingType, DecideType
<1> QED
  BY <1>1, <1>2, <1>3 DEF Mark, TypeOK, BufferTypeOK, bufferVars, log

\* The flusher, and the flush that fails.
LEMMA FlushTyped ==
    ASSUME TypeOK, Flush \/ FlushError
    PROVE  TypeOK'
<1>1. CASE Flush
  <2>1. CASE FlushTake /\ latest' = [r \in Key |->
                            IF latest[r].by = "report" /\ Waiting(r) # {}
                              THEN Reported(Waiting(r)) ELSE latest[r]]
    <3>1. BufferTypeOK'
      BY <2>1 DEF FlushTake, NoEntries, TypeOK, BufferTypeOK
    <3>2. \A r \in Key : Reported(Waiting(r)) \in Deciding
      BY HeldType, DecidingType
    <3>3. latest' \in [Key -> Deciding]
      BY <2>1, <3>2 DEF TypeOK
    <3> QED
      BY <1>1, <3>1, <3>3 DEF Flush, TypeOK, log
  <2>2. ASSUME NEW k \in Key, FlushWrite(k), UNCHANGED latest PROVE TypeOK'
    <3>1. resume' \in [Key -> Position]
      BY <2>2, WriteType DEF FlushWrite, TypeOK, BufferTypeOK
    <3>2. BufferTypeOK'
      BY <2>2, <3>1 DEF FlushWrite, TypeOK, BufferTypeOK
    <3> QED
      BY <1>1, <2>2, <3>2 DEF Flush, TypeOK, log
  <2> QED
    BY <1>1, <2>1, <2>2 DEF Flush
<1>2. CASE FlushError
  <2>1. PICK k \in Key : \E done \in (SUBSET Rows(k)) \ {Rows(k)} :
          /\ FlushFails(k, done)
          /\ Decide({r \in Rows(k) \ done : /\ latest[r].by = "report"
                                           /\ Waiting(r) = {}},
                    Other)
    BY <1>2 DEF FlushError
  <2>0. PICK done \in (SUBSET Rows(k)) \ {Rows(k)} :
          /\ FlushFails(k, done)
          /\ Decide({r \in Rows(k) \ done : /\ latest[r].by = "report"
                                           /\ Waiting(r) = {}},
                    Other)
    BY <2>1
  <2>2. BufferTypeOK'
    <3>1. resume' \in [Key -> Position]
      BY <2>0, WriteType DEF FlushFails, TypeOK, BufferTypeOK
    <3> QED
      BY <2>0, <3>1 DEF FlushFails, TypeOK, BufferTypeOK
  <2>3. latest' \in [Key -> Deciding]
    BY <2>0, DecidingType, DecideType
  <2> QED
    BY <1>2, <2>2, <2>3 DEF FlushError, TypeOK, log
<1> QED
  BY <1>1, <1>2

\* The tickers and time.
LEMMA TickersTyped ==
    ASSUME TypeOK,
           \/ FlushStalePlaybacks
           \/ \E d \in Device : PlaybackLasts(d)
    PROVE  TypeOK'
<1>1. CASE FlushStalePlaybacks
  <2> DEFINE ids == {active[d].id : d \in Watched}
  <2>1. ids \in SUBSET Number
    BY ActiveEntry DEF Watched, Silent, Playing
  <2>2. Records(ids) /\ ended' = ended \cup ids
    BY <1>1 DEF FlushStalePlaybacks
  <2>3. rows' \in [Number -> 0..2] /\ excused' \subseteq Number
    BY <2>1, <2>2, RecordsType
  <2>4. ended' \subseteq Number
    BY <2>1, <2>2 DEF TypeOK
  <2>5. active' \in [Device -> Entry \cup {NoPlayback}]
    BY <1>1 DEF FlushStalePlaybacks, TypeOK
  <2> QED
    BY <1>1, <2>3, <2>4, <2>5
       DEF FlushStalePlaybacks, TypeOK, BufferTypeOK, bufferVars
<1>2. ASSUME NEW d \in Device, PlaybackLasts(d) PROVE TypeOK'
  <2> DEFINE e == [active[d] EXCEPT !.quiet = active[d].long, !.long = TRUE]
  <2>1. active[d] \in Entry
    BY <1>2, ActiveEntry DEF PlaybackLasts
  <2>2. e \in Entry
    BY <2>1 DEF Entry
  <2>3. active' = [active EXCEPT ![d] = e]
    BY <1>2 DEF PlaybackLasts, TypeOK
  <2>4. active' \in [Device -> Entry \cup {NoPlayback}]
    BY <2>2, <2>3 DEF TypeOK
  <2> QED
    BY <1>2, <2>4 DEF PlaybackLasts, TypeOK, BufferTypeOK, bufferVars, log
<1> QED
  BY <1>1, <1>2

\* The end of the process empties what is in memory.
LEMMA CrashTyped ==
    ASSUME TypeOK, Crash
    PROVE  TypeOK'
<1> DEFINE playing == UNION {LongRow(active[d]) : d \in Device}
           stopping == {n \in Handled : req[n].at = "record"}
           lost == UNION {LongRow(req[n].held) : n \in stopping}
<1>1. playing \subseteq Number
  BY LongRowType DEF TypeOK
<1>2. lost \subseteq Number
  BY LongRowType, HandledRequest
<1>3. /\ ended' = ended \cup playing
      /\ excused' = excused \cup playing \cup lost
  BY DEF Crash
<1>4. ended' \subseteq Number /\ excused' \subseteq Number
  BY <1>1, <1>2, <1>3 DEF TypeOK
<1>5. latest' \in [Key -> Deciding]
  BY DecidingType, DecideType DEF Crash
<1>6. BufferTypeOK'
  BY DEF Crash, BufferLost, NoEntries, TypeOK, BufferTypeOK
<1> QED
  BY <1>4, <1>5, <1>6 DEF Crash, TypeOK

\* Every step keeps the types.
LEMMA NextTyped == TypeOK /\ [Next]_vars => TypeOK'
<1> SUFFICES ASSUME TypeOK, [Next]_vars PROVE TypeOK'
  OBVIOUS
<1>1. CASE Clients
  <2>1. ASSUME NEW i \in Item, Mark(i) PROVE TypeOK'
    BY <2>1, MarkTyped
  <2>2. ASSUME NEW kind \in Kind, NEW d \in Device, NEW k \in Asked,
               Arrive(kind, d, k, sent + 1)
        PROVE  TypeOK'
    BY <2>2, ArriveTyped, PlaybackAssumption
  <2>3. ASSUME NEW d \in Device, NEW k \in Asked, Arrive("stop", d, k, 0)
        PROVE  TypeOK'
    BY <2>3, ArriveTyped, PlaybackAssumption DEF Kind
  <2> QED
    BY <1>1, <2>1, <2>2, <2>3 DEF Clients
<1>2. CASE System
  <2>1. ASSUME NEW n \in Number, Handle(n) PROVE TypeOK'
    BY <2>1, HandleTyped
  <2> QED
    BY <1>2, <2>1, FlushTyped, TickersTyped DEF System
<1>3. CASE Faults
  <2>1. ASSUME NEW n \in Number, RequestFails(n) PROVE TypeOK'
    <3>1. req' \in [Number -> Request \cup {NoRequest}]
      BY <2>1, AnswerType DEF RequestFails
    <3> QED
      BY <2>1, <3>1 DEF RequestFails, TypeOK, BufferTypeOK, bufferVars, log
  <2> QED
    BY <1>3, <2>1, FlushTyped, CrashTyped DEF Faults
<1>4. CASE UNCHANGED vars
  BY <1>4 DEF TypeOK, BufferTypeOK, vars, bufferVars, log
<1> QED
  BY <1>1, <1>2, <1>3, <1>4 DEF Next

\* The state of playback is always well typed: no request, entry, position
\* or row count ever leaves its range, whatever the order of the handlers,
\* the flusher and the tickers (playback.go, progress_buffer.go).
THEOREM TypeCorrect == Spec => []TypeOK
BY InitTyped, NextTyped, PTL DEF Spec

-----------------------------------------------------------------------------
(* The last report is kept.                                                *)

\* What LastReportKept says of one row.
Kept(r) ==
    latest[r].by = "report" =>
        IF Waiting(r) # {} THEN latest[r].pos \subseteq Waiting(r)
        ELSE IF Moving(r) # {} THEN Moving(r) \subseteq latest[r].pos
        ELSE resume[r] \in latest[r].pos

\* It says so of every row,
LEMMA EveryRow == LastReportKept <=> \A r \in Key : Kept(r)
BY DEF LastReportKept, Kept

\* before a step and after it.
LEMMA EveryRowAfter == LastReportKept' <=> \A r \in Key : Kept(r)'
BY DEF LastReportKept, Kept

\* What entries hold for a row depends on the keys that write to it.
LEMMA HeldSame ==
    ASSUME NEW r \in Key,
           \A k \in Key : r \in Rows(k) =>
               buffer'[k] = buffer[k] /\ taken'[k] = taken[k]
    PROVE  Waiting(r)' = Waiting(r) /\ Moving(r)' = Moving(r)
BY DEF Waiting, Moving, Held, Writers

\* No entry holds anything for a row.
LEMMA HeldNothing ==
    ASSUME NEW r \in Key
    PROVE  /\ taken = NoEntries => Moving(r) = {}
           /\ taken' = NoEntries => Moving(r)' = {}
           /\ buffer' = NoEntries => Waiting(r)' = {}
BY DEF Waiting, Moving, Held, Writers, NoEntries

\* A row whose entries, position and decision stay is kept.
LEMMA SameRow ==
    ASSUME NEW r \in Key, Kept(r), latest'[r] = latest[r], resume'[r] = resume[r],
           Waiting(r)' = Waiting(r), Moving(r)' = Moving(r)
    PROVE  Kept(r)'
BY DEF Kept

\* A step that writes no position keeps every last report.
LEMMA SameKept ==
    ASSUME LastReportKept, UNCHANGED <<bufferVars, resume, latest>>
    PROVE  LastReportKept'
<1> SUFFICES ASSUME NEW r \in Key PROVE Kept(r)'
  BY EveryRowAfter
<1>1. Waiting(r)' = Waiting(r) /\ Moving(r)' = Moving(r)
  BY HeldSame DEF bufferVars
<1> QED
  BY <1>1, EveryRow, SameRow

\* Rows that are written, and decided by something else than a report, need
\* not be kept.
LEMMA WrittenKept ==
    ASSUME TypeOK, LastReportKept, UNCHANGED bufferVars,
           NEW done, NEW p \in Position, NEW what \in {Finished, Other},
           UpsertUserItemData(done, p), Decide(done, what)
    PROVE  LastReportKept'
<1> SUFFICES ASSUME NEW r \in Key PROVE Kept(r)'
  BY EveryRowAfter
<1>1. CASE r \in done
  <2>1. latest'[r] = what
    BY <1>1 DEF Decide
  <2> QED
    BY <2>1 DEF Kept, Finished, Other
<1>2. CASE r \notin done
  <2>1. p # NoPosition
    BY PositionAssumption
  <2>2. latest'[r] = latest[r] /\ resume'[r] = resume[r]
    BY <1>2, <2>1 DEF Decide, UpsertUserItemData, Write
  <2>3. Waiting(r)' = Waiting(r) /\ Moving(r)' = Moving(r)
    BY HeldSame DEF bufferVars
  <2> QED
    BY <2>2, <2>3, EveryRow, SameRow
<1> QED
  BY <1>1, <1>2

\* Every step of a handler keeps them: it buffers a report, or writes another
\* position as the last word on its rows.
LEMMA HandleKept ==
    ASSUME TypeOK, LastReportKept, NEW n \in Number, Handle(n)
    PROVE  LastReportKept'
<1>1. CASE Report(n)
  <2> DEFINE k == req[n].key
             p == req[n].pos
  <2>1. k \in Key /\ p \in Position
    BY <1>1, HandledRequest DEF Report, At
  <2>2. /\ Decide(Rows(k), Reported({p}))
        /\ buffer' = [buffer EXCEPT ![k] = p]
        /\ UNCHANGED <<taken, resume>>
    BY <1>1 DEF Report, BufferProgress
  <2>3. p # NoPosition
    BY <2>1, PositionAssumption
  <2>4. buffer'[k] = p /\ \A x \in Key \ {k} : buffer'[x] = buffer[x]
    BY <2>1, <2>2 DEF TypeOK, BufferTypeOK
  <2> HIDE DEF k, p
  <2> SUFFICES ASSUME NEW r \in Key PROVE Kept(r)'
    BY EveryRowAfter
  <2>5. CASE r \in Rows(k)
    <3>1. latest'[r] = Reported({p})
      BY <2>2, <2>5 DEF Decide
    <3>2. p \in Waiting(r)'
      BY <2>1, <2>3, <2>4, <2>5 DEF Waiting, Held, Writers
    <3> QED
      BY <3>1, <3>2 DEF Kept, Reported
  <2>6. CASE r \notin Rows(k)
    <3>1. latest'[r] = latest[r] /\ resume'[r] = resume[r]
      BY <2>2, <2>6 DEF Decide
    <3>2. Waiting(r)' = Waiting(r) /\ Moving(r)' = Moving(r)
      BY <2>2, <2>4, <2>6, HeldSame
    <3> QED
      BY <3>1, <3>2, EveryRow, SameRow
  <2> QED
    BY <2>5, <2>6
<1>2. CASE WriteStop(n)
  <2>1. req[n].pos \in Position
    BY <1>2, HandledRequest DEF WriteStop, At
  <2>2. PICK done \in {Rows(req[n].key), {ItemRow(req[n].key)}} :
          IF req[n].pos >= Threshold
            THEN UpsertUserItemData(done, 0) /\ Decide(done, Finished)
          ELSE IF req[n].pos > 0
            THEN UpsertUserItemData(done, req[n].pos) /\ Decide(done, Other)
          ELSE UpsertUserItemData(done, NoPosition) /\ UNCHANGED latest
    BY <1>2 DEF WriteStop
  <2>3. UNCHANGED bufferVars
    BY <1>2 DEF WriteStop
  <2>4. CASE UpsertUserItemData(done, NoPosition) /\ UNCHANGED latest
    BY <2>3, <2>4, SameKept DEF UpsertUserItemData
  <2> QED
    BY <2>1, <2>2, <2>3, <2>4, Numbers, WrittenKept
<1>3. CASE \/ CheckLimit(n) \/ Renew(n) \/ Switch(n) \/ Insert(n)
           \/ Remove(n) \/ Record(n)
  <2>1. UNCHANGED <<bufferVars, resume, latest>>
    BY <1>3 DEF CheckLimit, Renew, Switch, Insert, Remove, Record
  <2> QED
    BY <2>1, SameKept
<1> QED
  BY <1>1, <1>2, <1>3 DEF Handle

\* The flusher moves the entries of a row from the buffer to the table, and
\* passes no newer ones.
LEMMA FlushKept ==
    ASSUME TypeOK, LastReportKept, Flush \/ FlushError
    PROVE  LastReportKept'
<1> SUFFICES ASSUME NEW r \in Key PROVE Kept(r)'
  BY EveryRowAfter
<1>0. Kept(r)
  BY EveryRow
<1>1. CASE FlushTake /\ latest' = [x \in Key |->
                          IF latest[x].by = "report" /\ Waiting(x) # {}
                            THEN Reported(Waiting(x)) ELSE latest[x]]
  <2>1. Waiting(r)' = {} /\ Moving(r) = {}
    BY <1>1, HeldNothing DEF FlushTake
  <2>2. Moving(r)' = Waiting(r) /\ resume' = resume
    BY <1>1 DEF FlushTake, Moving, Waiting, Held
  <2>3. latest'[r] = IF latest[r].by = "report" /\ Waiting(r) # {}
                       THEN Reported(Waiting(r)) ELSE latest[r]
    BY <1>1
  <2> QED
    BY <1>0, <2>1, <2>2, <2>3 DEF Kept, Reported
<1>2. ASSUME NEW k \in Key, FlushWrite(k), UNCHANGED latest PROVE Kept(r)'
  <2>1. /\ \A x \in Key \ {k} : taken'[x] = taken[x]
        /\ taken'[k] = NoPosition
        /\ taken[k] # NoPosition
        /\ buffer' = buffer
        /\ resume'[r] = IF r \in Rows(k) THEN taken[k] ELSE resume[r]
    BY <1>2 DEF FlushWrite, Write, TypeOK, BufferTypeOK
  <2>2. CASE r \in Rows(k)
    <3>1. taken[k] \in Moving(r) /\ Moving(r)' \subseteq Moving(r)
      BY <2>1, <2>2 DEF Moving, Held, Writers
    <3>2. Waiting(r)' = Waiting(r)
      BY <2>1 DEF Waiting, Held
    <3> QED
      BY <1>0, <1>2, <2>1, <2>2, <3>1, <3>2 DEF Kept
  <2>3. CASE r \notin Rows(k)
    <3>1. Waiting(r)' = Waiting(r) /\ Moving(r)' = Moving(r)
      BY <2>1, <2>3, HeldSame
    <3> QED
      BY <1>0, <1>2, <2>1, <2>3, <3>1, SameRow
  <2> QED
    BY <2>2, <2>3
<1>3. ASSUME NEW k \in Key, NEW done \in (SUBSET Rows(k)) \ {Rows(k)},
             FlushFails(k, done),
             Decide({x \in Rows(k) \ done : /\ latest[x].by = "report"
                                           /\ Waiting(x) = {}},
                    Other)
      PROVE  Kept(r)'
  <2>1. /\ \A x \in Key \ {k} : taken'[x] = taken[x]
        /\ taken'[k] = NoPosition
        /\ taken[k] # NoPosition
        /\ buffer' = buffer
        /\ resume'[r] = IF r \in done THEN taken[k] ELSE resume[r]
    BY <1>3 DEF FlushFails, Write, TypeOK, BufferTypeOK
  <2>2. Waiting(r)' = Waiting(r)
    BY <2>1 DEF Waiting, Held
  <2>6. CASE r \in done
    <3>1. taken[k] \in Moving(r) /\ Moving(r)' \subseteq Moving(r)
      BY <2>1, <2>6 DEF Moving, Held, Writers
    <3>2. latest'[r] = latest[r]
      BY <1>3, <2>6 DEF Decide
    <3> QED
      BY <1>0, <2>1, <2>2, <2>6, <3>1, <3>2 DEF Kept
  <2>3. CASE r \in Rows(k) \ done /\ latest[r].by = "report" /\ Waiting(r) = {}
    <3>1. latest'[r] = Other
      BY <1>3, <2>3 DEF Decide
    <3> QED
      BY <3>1 DEF Kept, Other
  <2>4. CASE r \in Rows(k) \ done /\ ~(latest[r].by = "report" /\ Waiting(r) = {})
    <3>1. latest'[r] = latest[r]
      BY <1>3, <2>4 DEF Decide
    <3> QED
      BY <1>0, <2>2, <2>4, <3>1 DEF Kept
  <2>5. CASE r \notin Rows(k)
    <3>1. latest'[r] = latest[r] /\ resume'[r] = resume[r]
      BY <1>3, <2>1, <2>5 DEF Decide
    <3>2. Moving(r)' = Moving(r)
      BY <2>1, <2>5, HeldSame
    <3> QED
      BY <1>0, <2>2, <3>1, <3>2, SameRow
  <2> QED
    BY <2>3, <2>4, <2>5, <2>6
<1> QED
  BY <1>1, <1>2, <1>3 DEF Flush, FlushError

\* Every step of playback keeps the last report of every row.
LEMMA NextKept == TypeOK /\ LastReportKept /\ [Next]_vars => LastReportKept'
<1> SUFFICES ASSUME TypeOK, LastReportKept, [Next]_vars PROVE LastReportKept'
  OBVIOUS
<1>1. ASSUME NEW i \in Item, Mark(i) PROVE LastReportKept'
  <2>1. PICK done \in {{r \in Key : r[1] = i}, {<<i, NoVersion>>}} :
          UpsertUserItemData(done, 0) /\ Decide(done, Other)
    BY <1>1 DEF Mark
  <2>2. UNCHANGED bufferVars
    BY <1>1 DEF Mark
  <2> QED
    BY <2>1, <2>2, Numbers, WrittenKept
<1>2. CASE Crash
  <2> SUFFICES ASSUME NEW r \in Key PROVE Kept(r)'
    BY EveryRowAfter
  <2>1. Waiting(r)' = {} /\ Moving(r)' = {} /\ resume' = resume
    BY <1>2, HeldNothing DEF Crash, BufferLost
  <2>2. latest'[r] = IF latest[r].by = "report" /\ Waiting(r) \cup Moving(r) # {}
                       THEN Other ELSE latest[r]
    BY <1>2 DEF Crash, Decide
  <2>3. Kept(r)
    BY EveryRow
  <2> QED
    BY <2>1, <2>2, <2>3 DEF Kept, Other
<1>3. CASE UNCHANGED <<bufferVars, resume, latest>>
  BY <1>3, SameKept
<1>4. CASE Clients
  BY <1>1, <1>3, <1>4 DEF Clients, Arrive
<1>5. CASE System
  <2>1. CASE FlushStalePlaybacks \/ \E d \in Device : PlaybackLasts(d)
    BY <1>3, <2>1 DEF FlushStalePlaybacks, PlaybackLasts
  <2> QED
    BY <1>5, <2>1, HandleKept, FlushKept DEF System
<1>6. CASE Faults
  BY <1>2, <1>3, <1>6, FlushKept DEF Faults, RequestFails
<1> QED
  BY <1>3, <1>4, <1>5, <1>6 DEF Next, vars

\* No interleaving of reports, flushes, other writes and crashes leaves a row
\* with a position from before the last report about it, as long as a report
\* is what decided it last: a media version keeps its last report, and an item
\* that of one of the versions that were reported in the same flush
\* (BufferProgress, flushOnce, OnPlaybackStopped).
THEOREM LastReport == Spec => []LastReportKept
<1>1. Init => LastReportKept
  BY DEF Init, LastReportKept, Other
<1> QED
  BY <1>1, InitTyped, NextTyped, NextKept, PTL DEF Spec

-----------------------------------------------------------------------------
(* Every playback that lasted is recorded, and no playback twice.          *)

\* A row was written for a playback, or lost in one of the excused ways.
Recorded(n) == rows[n] > 0 \/ n \in excused

\* The playback of an entry; the entry is on a device, or in the hands of a
\* stop that has taken it from there.
Is(e, n) == e # NoPlayback /\ e.id = n
OnDevice(d, n) == Is(active[d], n)
InStop(m, n) == m \in Handled /\ Is(req[m].held, n)

\* A request that will put its playback in the place of whatever is there.
Replacing(m) ==
    m \in Handled /\ req[m].kind = "progress" /\ req[m].at = "insert"

\* A request has no playback before it inserts one, and a playback is in one
\* place at a time.
Places ==
    /\ \A n \in Number : n > sent => n \notin Handled
    /\ \A n \in Number : n > sent \/ n \in Handled =>
          /\ rows[n] = 0
          /\ \A d \in Device : ~OnDevice(d, n)
          /\ \A m \in Number : ~InStop(m, n)
    /\ \A m \in Handled : req[m].held # NoPlayback =>
          req[m].kind = "stop" /\ req[m].at = "record"
    /\ \A n \in Number :
          /\ \A d1, d2 \in Device : OnDevice(d1, n) /\ OnDevice(d2, n) => d1 = d2
          /\ \A m1, m2 \in Number : InStop(m1, n) /\ InStop(m2, n) => m1 = m2
          /\ \A d \in Device, m \in Number : ~(OnDevice(d, n) /\ InStop(m, n))

\* The row of a playback that is still in its place was written by a report
\* about something else.
EarlyRows ==
    \A n \in Number : rows[n] > 0 =>
        \/ n \in switched
        \/ /\ \A d \in Device : ~OnDevice(d, n)
           /\ \A m \in Number : ~InStop(m, n)

\* What a report about something else is about to replace has been recorded by
\* it, or has not lasted: nothing ages before the report is through.
Replaced ==
    \A m \in Handled :
        Replacing(m) => \A n \in LongRow(active[req[m].dev]) : Recorded(n)

RowInv == Places /\ EarlyRows /\ Replaced /\ ActivityKept

\* What a request may do that touches no playback: answer, or go on, if it is
\* not the one that records the end of one.
Passes(m) ==
    /\ m \in Handled
    /\ req[m].at # "record"
    /\ \/ req'[m] = NoRequest
       \/ /\ req'[m] # NoRequest
          /\ req'[m].held = req[m].held
          /\ req'[m].kind = req[m].kind
          /\ req'[m].dev = req[m].dev
          /\ req'[m].at = "insert" => req[m].kind = "start"

\* A device keeps its playback, whatever is reported of it.
Keeps(d) ==
    \/ active'[d] = active[d]
    \/ /\ active[d] # NoPlayback
       /\ active'[d] # NoPlayback
       /\ active'[d].id = active[d].id
       /\ active'[d].long = active[d].long

\* A step that neither inserts nor removes a playback, nor writes rows.
LEMMA QuietRows ==
    ASSUME RowInv, UNCHANGED log, UNCHANGED sent,
           \A d \in Device : Keeps(d),
           \A m \in Number : req'[m] = req[m] \/ Passes(m),
           \A m \in Handled : req[m].dev \in Device
    PROVE  RowInv'
<1>1. /\ \A d \in Device : /\ LongRow(active'[d]) = LongRow(active[d])
                           /\ \A n \in Number : OnDevice(d, n)' = OnDevice(d, n)
      /\ \A m \in Number : m \in Handled' => m \in Handled
      /\ \A m, n \in Number : InStop(m, n)' = InStop(m, n)
  <2>1. ASSUME NEW d \in Device
        PROVE  /\ LongRow(active'[d]) = LongRow(active[d])
               /\ \A n \in Number : OnDevice(d, n)' = OnDevice(d, n)
    BY DEF Keeps, LongRow, OnDevice, Is
  <2>2. ASSUME NEW m \in Number
        PROVE  /\ m \in Handled' => m \in Handled
               /\ \A n \in Number : InStop(m, n)' = InStop(m, n)
    BY DEF Passes, InStop, Is, Handled, RowInv, Places
  <2> QED BY <2>1, <2>2
<1>2. Places'
  <2>1. ASSUME NEW m \in Handled', req'[m].held # NoPlayback
        PROVE  req'[m].kind = "stop" /\ req'[m].at = "record"
    BY <2>1, <1>1 DEF Passes, RowInv, Places, Handled
  <2> QED BY <1>1, <2>1 DEF RowInv, Places, log, Handled
<1>3. EarlyRows'
  BY <1>1 DEF RowInv, EarlyRows, log
<1>4. Replaced'
  <2> SUFFICES ASSUME NEW m \in Handled', Replacing(m)'
               PROVE  \A n \in LongRow(active'[req'[m].dev]) : Recorded(n)'
    BY DEF Replaced
  <2>1. m \in Handled /\ m \in Number
    BY <1>1 DEF Handled
  <2>2. req'[m].dev = req[m].dev /\ Replacing(m)
    BY <2>1 DEF Passes, Replacing, Handled
  <2>3. \A n \in LongRow(active'[req'[m].dev]) : n \in LongRow(active[req[m].dev])
    BY <1>1, <2>1, <2>2
  <2>4. \A n : Recorded(n)' = Recorded(n)
    BY DEF Recorded, log
  <2>5. \A k \in LongRow(active[req[m].dev]) : Recorded(k)
    BY <2>1, <2>2 DEF RowInv, Replaced
  <2> QED BY <2>3, <2>4, <2>5
<1>5. ActivityKept'
  <2>1. ASSUME NEW m \in Handled, req[m].at = "record"
        PROVE  m \in Handled' /\ req'[m] = req[m]
    BY <2>1 DEF Passes, Handled
  <2> QED BY <2>1 DEF RowInv, ActivityKept, log
<1> QED BY <1>2, <1>3, <1>4, <1>5 DEF RowInv

\* The steps of the handlers that write no rows and move no playback.
LEMMA QuietHandler ==
    ASSUME TypeOK, RowInv, NEW n \in Number,
           \/ CheckLimit(n) \/ Report(n) \/ Renew(n)
           \/ WriteStop(n) \/ RequestFails(n)
    PROVE  RowInv'
<1>1. UNCHANGED log /\ UNCHANGED sent
  BY DEF CheckLimit, Report, Renew, WriteStop, RequestFails, log
<1>2. \A d \in Device : Keeps(d)
  <2>1. CASE Renew(n)
    <3>1. n \in Handled /\ req[n].dev \in Device
      BY <2>1, HandledRequest DEF Renew, At
    <3>2. active[req[n].dev] # NoPlayback /\ active[req[n].dev] \in Entry
      BY <2>1, <3>1, ActiveEntry DEF Renew
    <3> DEFINE d == req[n].dev
               e == [active[d] EXCEPT !.pos = req[n].pos,
                                      !.key = IF req[n].key[2] = NoVersion
                                                THEN active[d].key
                                                ELSE req[n].key,
                                      !.watched = active[d].long,
                                      !.quiet = FALSE]
    <3>3. active' = [active EXCEPT ![d] = e]
      BY <2>1, <3>1 DEF Renew, TypeOK
    <3>4. req[n].pos \in Position /\ req[n].key \in Key
      BY <3>1, HandledRequest
    <3>5. e \in Entry /\ e.id = active[d].id /\ e.long = active[d].long
      BY <3>2, <3>4 DEF Entry
    <3>6. e # NoPlayback
      BY <3>5, NothingAssumption
    <3> HIDE DEF e
    <3> QED BY <3>1, <3>2, <3>3, <3>5, <3>6 DEF Keeps, TypeOK
  <2>2. CASE ~Renew(n)
    <3>1. active' = active
      BY <2>2 DEF CheckLimit, Report, WriteStop, RequestFails
    <3> QED BY <3>1 DEF Keeps
  <2> QED BY <2>1, <2>2
<1>3. n \in Handled /\ req[n].at # "record" /\ req[n] \in Request
  BY HandledRequest
     DEF CheckLimit, Report, Renew, WriteStop, RequestFails, At
<1>4. \/ Answer(n)
      \/ Goto(n, "buffer")
      \/ Goto(n, "renew")
      \/ Goto(n, "insert") /\ req[n].kind = "start"
  BY DEF CheckLimit, Report, Renew, WriteStop, RequestFails, At
<1>5. ASSUME NEW m \in Number PROVE req'[m] = req[m] \/ Passes(m)
  <2>1. CASE Answer(n)
    BY <1>3, <2>1 DEF Answer, TypeOK, Passes
  <2>2. ASSUME NEW p \in {"buffer", "renew", "insert"}, Goto(n, p),
               p = "insert" => req[n].kind = "start"
        PROVE  req'[m] = req[m] \/ Passes(m)
    <3> DEFINE q == [req[n] EXCEPT !.at = p]
    <3>1. req' = [req EXCEPT ![n] = q]
      BY <1>3, <2>2 DEF Goto, TypeOK
    <3>2. q \in Request
      BY <1>3 DEF Request
    <3>3. /\ q.held = req[n].held /\ q.kind = req[n].kind
          /\ q.dev = req[n].dev /\ q.at = p
      BY <1>3 DEF Request
    <3>4. q # NoRequest
      BY <3>2, NothingAssumption
    <3> HIDE DEF q
    <3> QED BY <1>3, <2>2, <3>1, <3>3, <3>4 DEF Passes, TypeOK
  <2> QED BY <1>4, <2>1, <2>2
<1>6. \A m \in Handled : req[m].dev \in Device
  BY HandledRequest
<1> QED BY <1>1, <1>2, <1>5, <1>6, QuietRows

\* The flusher and the marks touch no playback.
LEMMA QuietOthers ==
    ASSUME TypeOK, RowInv,
           \/ \E i \in Item : Mark(i)
           \/ Flush \/ FlushError
           \/ UNCHANGED vars
    PROVE  RowInv'
<1>1. UNCHANGED <<active, req, log>>
  BY DEF Mark, Flush, FlushError, vars
<1>2. CASE UNCHANGED sent
  BY <1>1, <1>2, QuietRows, HandledRequest DEF Keeps
<1>3. CASE \E i \in Item : Mark(i)
  <2>1. sent' > sent
    BY <1>3, PositionAssumption DEF Mark, TypeOK
  <2>2. \A n \in Number : n > sent' => n > sent
    BY <2>1, <1>3, PositionAssumption DEF Mark, TypeOK, Number
  <2>3. Places'
    BY <1>1, <2>2 DEF RowInv, Places, OnDevice, InStop, Is, Handled, log
  <2>4. EarlyRows' /\ Replaced' /\ ActivityKept'
    BY <1>1 DEF RowInv, EarlyRows, Replaced, Replacing, Recorded, ActivityKept,
                OnDevice, InStop, Is, Handled, log
  <2> QED BY <2>3, <2>4 DEF RowInv
<1> QED BY <1>2, <1>3
        DEF Flush, FlushError, vars

\* A request that comes in has no playback yet.
LEMMA ArriveRows ==
    ASSUME TypeOK, RowInv, NEW kind \in Kind, NEW d \in Device, NEW key \in Key,
           NEW p \in {sent + 1, 0}, Arrive(kind, d, key, p)
    PROVE  RowInv'
<1> DEFINE n == sent + 1
           r == [kind |-> kind, dev |-> d, key |-> key, pos |-> p,
                 at |-> CASE kind = "start"    -> "limit"
                          [] kind = "progress" -> "buffer"
                          [] kind = "stop"     -> "remove",
                 held |-> NoPlayback]
<1>1. n \in Number /\ n > sent /\ sent \in Nat /\ p \in Position
  BY Numbers, PositionAssumption DEF TypeOK, Arrive
<1>2. r \in Request
  BY <1>1 DEF Request, Kind
<1>3. /\ r.held = NoPlayback /\ r.kind = kind /\ r.dev = d
      /\ r.at \in {"limit", "buffer", "remove"}
  BY DEF Kind
<1>4. r # NoRequest
  BY <1>2, NothingAssumption
<1>5. /\ req' = [req EXCEPT ![n] = r]
      /\ sent' = n
      /\ UNCHANGED <<active, rows, excused, ended, switched>>
  BY DEF Arrive, log
<1> HIDE DEF r
<1>6. n \notin Handled /\ \A m \in Number \ {n} : req'[m] = req[m]
  BY <1>1, <1>5 DEF RowInv, Places, TypeOK
<1>7. req'[n] = r /\ Handled' = Handled \cup {n}
  <2>1. req'[n] = r
    BY <1>1, <1>5 DEF TypeOK
  <2> QED BY <1>1, <1>4, <1>6, <2>1 DEF Handled
<1>8. \A m \in Number : m > sent' => m > sent /\ m # n
  BY <1>1, <1>5 DEF Number
<1>9. \A m, k \in Number : InStop(m, k)' => InStop(m, k)
  BY <1>3, <1>6, <1>7 DEF InStop, Is, Handled
<1>10. \A e \in Device, k \in Number : OnDevice(e, k)' = OnDevice(e, k)
  BY <1>5 DEF OnDevice
<1>11. Places'
  <2>1. ASSUME NEW m \in Handled', req'[m].held # NoPlayback
        PROVE  req'[m].kind = "stop" /\ req'[m].at = "record"
    BY <2>1, <1>3, <1>6, <1>7 DEF RowInv, Places, Handled
  <2>2. ASSUME NEW k \in Number, k > sent' \/ k \in Handled'
        PROVE  k > sent \/ k \in Handled
    BY <2>2, <1>1, <1>7, <1>8
  <2>3. \A k \in Number : k > sent' => k \notin Handled'
    BY <1>7, <1>8 DEF RowInv, Places
  <2> QED BY <1>5, <1>9, <1>10, <2>1, <2>2, <2>3 DEF RowInv, Places
<1>12. EarlyRows'
  BY <1>5, <1>9, <1>10 DEF RowInv, EarlyRows
<1>13. Replaced'
  <2>1. ASSUME NEW m \in Handled'
        PROVE  Replacing(m)' =>
                  \A k \in LongRow(active'[req'[m].dev]) : Recorded(k)'
    <3>1. CASE m = n
      BY <3>1, <1>3, <1>7 DEF Replacing
    <3>2. CASE m # n
      <4>1. m \in Handled /\ req'[m] = req[m]
        BY <3>2, <1>6, <1>7 DEF Handled
      <4> QED BY <4>1, <1>5, <1>7 DEF RowInv, Replaced, Replacing, Recorded
    <3> QED BY <3>1, <3>2
  <2> QED BY <2>1 DEF Replaced
<1>14. ActivityKept'
  <2>1. ASSUME NEW m \in Handled
        PROVE  m \in Handled' /\ req'[m] = req[m]
    BY <1>6, <1>7 DEF Handled
  <2> QED BY <2>1, <1>5 DEF RowInv, ActivityKept
<1> QED BY <1>11, <1>12, <1>13, <1>14 DEF RowInv

\* A playback ages when no request of its device is between its first critical
\* section and its last: none is replacing it.
LEMMA LastsRows ==
    ASSUME TypeOK, RowInv, NEW d \in Device, PlaybackLasts(d)
    PROVE  RowInv'
<1>1. active[d] \in Entry
  BY ActiveEntry DEF PlaybackLasts
<1> DEFINE e == [active[d] EXCEPT !.quiet = active[d].long, !.long = TRUE]
<1>2. e \in Entry /\ e.id = active[d].id
  BY <1>1 DEF Entry
<1>3. e # NoPlayback /\ active[d] # NoPlayback
  BY <1>1, <1>2, NothingAssumption
<1>4. /\ active' = [active EXCEPT ![d] = e]
      /\ UNCHANGED <<req, sent, ended, rows, excused, switched>>
  BY DEF PlaybackLasts, TypeOK, log
<1> HIDE DEF e
<1>5. /\ \A c \in Device, n \in Number : OnDevice(c, n)' = OnDevice(c, n)
      /\ \A c \in Device \ {d} : active'[c] = active[c]
  BY <1>2, <1>3, <1>4 DEF OnDevice, Is, TypeOK
<1>6. \A m, n \in Number : InStop(m, n)' = InStop(m, n)
  BY <1>4 DEF InStop, Handled
<1>7. Places' /\ EarlyRows' /\ ActivityKept'
  BY <1>4, <1>5, <1>6 DEF RowInv, Places, EarlyRows, ActivityKept, Handled
<1>8. Replaced'
  <2>1. ASSUME NEW m \in Handled, Replacing(m) PROVE req[m].dev # d
    BY <2>1 DEF Replacing, PlaybackLasts, Settled
  <2>2. \A m \in Handled : req[m].dev \in Device
    BY HandledRequest
  <2> QED BY <1>4, <1>5, <2>1, <2>2 DEF RowInv, Replaced, Replacing, Recorded, Handled
<1> QED BY <1>7, <1>8 DEF RowInv

\* What Records does to the rows and to the excuses.
LEMMA RecordsEffect ==
    ASSUME TypeOK, NEW ids \in SUBSET Number, Records(ids)
    PROVE  /\ \A n \in Number : rows'[n] = rows[n] \/ n \in ids
           /\ \A n \in Number : rows[n] = 0 => rows'[n] \in {0, 1}
           /\ \A n \in Number : Recorded(n) => Recorded(n)'
           /\ \A n \in ids : Recorded(n)'
<1>1. PICK done \in SUBSET ids :
        /\ rows' = [n \in Number |->
                      IF n \in done /\ rows[n] < 2 THEN rows[n] + 1 ELSE rows[n]]
        /\ excused' = excused \cup (ids \ done)
  BY DEF Records
<1>2. \A n \in Number : rows[n] \in 0..2
  BY DEF TypeOK
<1> QED BY <1>1, <1>2 DEF Recorded

\* A report about something else records what it found, and is now replacing it.
LEMMA SwitchRows ==
    ASSUME TypeOK, RowInv, NEW n \in Number, Switch(n)
    PROVE  RowInv'
<1>0. PICK d \in Device : d = req[n].dev
  BY HandledRequest DEF Switch, At
<1> DEFINE q == [req[n] EXCEPT !.at = "insert"]
<1>1. /\ n \in Handled /\ req[n] \in Request
      /\ req[n].kind = "progress" /\ req[n].held = NoPlayback
  BY HandledRequest DEF Switch, At, RowInv, Places
<1>2. /\ q.held = NoPlayback /\ q.kind = "progress" /\ q.dev = d
      /\ q.at = "insert"
  BY <1>0, <1>1 DEF Request
<1>3. q # NoRequest
  <2>1. q \in Request
    BY <1>1 DEF Request
  <2> QED BY <2>1, NothingAssumption
<1>4. /\ req' = [req EXCEPT ![n] = q]
      /\ UNCHANGED <<active, sent, ended>>
  BY DEF Switch, Goto, log, TypeOK
<1> HIDE DEF q
<1>5. /\ Handled' = Handled
      /\ req'[n] = q
      /\ \A m \in Number \ {n} : req'[m] = req[m]
  BY <1>1, <1>3, <1>4 DEF Handled, TypeOK
<1>6. /\ switched \subseteq switched'
      /\ \A k \in Number : rows'[k] = rows[k] \/ (OnDevice(d, k) /\ k \in switched')
      /\ \A k \in Number : Recorded(k) => Recorded(k)'
      /\ \A k \in LongRow(active[d]) : Recorded(k)'
  <2>1. CASE active[d] = NoPlayback
    <3>1. UNCHANGED <<rows, excused, switched>> /\ LongRow(active[d]) = {}
      BY <1>0, <2>1 DEF Switch, LongRow, log
    <3> QED BY <3>1 DEF Recorded
  <2>2. CASE active[d] # NoPlayback
    <3>1. LongRow(active[d]) \in SUBSET Number /\ active[d].id \in Number
      BY <1>1, <2>2, ActiveEntry, LongRowType
    <3>2. Records(LongRow(active[d])) /\ switched' = switched \cup {active[d].id}
      BY <1>0, <2>2 DEF Switch
    <3>3. \A k \in LongRow(active[d]) : k = active[d].id
      BY DEF LongRow
    <3>4. \A k \in LongRow(active[d]) : OnDevice(d, k) /\ k \in switched'
      BY <2>2, <3>1, <3>2, <3>3 DEF OnDevice, Is
    <3> QED BY <3>1, <3>2, <3>4, RecordsEffect
  <2> QED BY <2>1, <2>2
<1>7. /\ \A m, k \in Number : InStop(m, k)' = InStop(m, k)
      /\ \A c \in Device, k \in Number : OnDevice(c, k)' = OnDevice(c, k)
  BY <1>1, <1>2, <1>4, <1>5 DEF InStop, OnDevice, Is, Handled
<1>8. Places'
  <2>1. \A m \in Handled' : req'[m].held # NoPlayback =>
            req'[m].kind = "stop" /\ req'[m].at = "record"
    BY <1>2, <1>5 DEF RowInv, Places, Handled
  <2> QED BY <2>1, <1>1, <1>4, <1>5, <1>6, <1>7 DEF RowInv, Places
<1>9. EarlyRows'
  BY <1>6, <1>7 DEF RowInv, EarlyRows
<1>10. Replaced'
  <2>1. ASSUME NEW m \in Handled, m # n
        PROVE  /\ Replacing(m)' = Replacing(m) /\ req'[m] = req[m]
    BY <2>1, <1>5 DEF Replacing, Handled
  <2>2. \A m \in Handled : \A k \in LongRow(active[req[m].dev]) : k \in Number
    BY HandledRequest, LongRowType DEF TypeOK
  <2>3. ASSUME NEW m \in Handled'
        PROVE  Replacing(m)' =>
                  \A k \in LongRow(active'[req'[m].dev]) : Recorded(k)'
    <3>1. CASE m = n
      BY <3>1, <1>2, <1>4, <1>5, <1>6
    <3>2. CASE m # n
      BY <3>2, <2>1, <2>2, <1>4, <1>5, <1>6 DEF RowInv, Replaced
    <3> QED BY <3>1, <3>2
  <2> QED BY <2>3 DEF Replaced
<1>11. ActivityKept'
  <2>1. ASSUME NEW m \in Handled, req[m].at = "record"
        PROVE  m \in Handled' /\ req'[m] = req[m]
    BY <2>1, <1>5 DEF Switch, At, Handled
  <2>2. \A k \in ended' : \/ Recorded(k)'
                          \/ \E m \in Handled' : /\ req'[m].at = "record"
                                                 /\ k \in LongRow(req'[m].held)
    BY <2>1, <1>4, <1>6 DEF RowInv, ActivityKept, Recorded, TypeOK
  <2> QED BY <2>2, <1>6 DEF RowInv, ActivityKept, Recorded
<1> QED BY <1>8, <1>9, <1>10, <1>11 DEF RowInv

\* A new playback has no row; the one it replaces has, or a start lost it.
LEMMA InsertRows ==
    ASSUME TypeOK, RowInv, NEW n \in Number, Insert(n)
    PROVE  RowInv'
<1>0. PICK d \in Device : d = req[n].dev
  BY HandledRequest DEF Insert, At
<1> DEFINE e == [id |-> n, key |-> req[n].key, pos |-> req[n].pos,
                 long |-> FALSE, watched |-> FALSE, quiet |-> FALSE]
<1>1. /\ n \in Handled /\ req[n] \in Request
      /\ req[n].key \in Key /\ req[n].pos \in Position
      /\ req[n].at = "insert" /\ req[n].held = NoPlayback
  BY HandledRequest DEF Insert, At, RowInv, Places
<1>2. e.id = n /\ e.long = FALSE /\ e # NoPlayback
  <2>1. e \in Entry
    BY <1>1 DEF Entry
  <2> QED BY <2>1, NothingAssumption
<1>3. /\ active' = [active EXCEPT ![d] = e]
      /\ ended' = ended \cup LongRow(active[d])
      /\ excused' = IF req[n].kind = "start" THEN excused \cup LongRow(active[d])
                                             ELSE excused
      /\ req' = [req EXCEPT ![n] = NoRequest]
      /\ UNCHANGED <<sent, rows, switched>>
  BY <1>0 DEF Insert, Answer
<1> HIDE DEF e
<1>4. /\ Handled' = Handled \ {n}
      /\ \A m \in Number \ {n} : req'[m] = req[m]
      /\ \A c \in Device \ {d} : active'[c] = active[c]
      /\ active'[d] = e
  BY <1>1, <1>3 DEF Handled, TypeOK
<1>5. /\ \A m, k \in Number : InStop(m, k)' = InStop(m, k)
      /\ \A c \in Device \ {d}, k \in Number : OnDevice(c, k)' = OnDevice(c, k)
      /\ \A k \in Number : OnDevice(d, k)' <=> k = n
  BY <1>1, <1>2, <1>4 DEF InStop, OnDevice, Is, Handled
<1>6. Places'
  <2>1. \A k \in Number : k > sent' \/ k \in Handled' =>
          (k > sent \/ k \in Handled) /\ k # n
    BY <1>1, <1>3, <1>4 DEF RowInv, Places
  <2>2. \A m \in Handled' : req'[m].held # NoPlayback =>
            req'[m].kind = "stop" /\ req'[m].at = "record"
    BY <1>4 DEF RowInv, Places, Handled
  <2>3. /\ rows[n] = 0
        /\ \A c \in Device : ~OnDevice(c, n)
        /\ \A m \in Number : ~InStop(m, n)
    BY <1>1 DEF RowInv, Places
  <2>4. ASSUME NEW k \in Number
        PROVE  /\ k > sent' => k \notin Handled'
               /\ k > sent' \/ k \in Handled' =>
                     /\ rows'[k] = 0
                     /\ \A c \in Device : ~OnDevice(c, k)'
                     /\ \A m \in Number : ~InStop(m, k)'
    BY <2>1, <1>3, <1>4, <1>5 DEF RowInv, Places
  <2>5. ASSUME NEW k \in Number
        PROVE  /\ \A c1, c2 \in Device :
                     OnDevice(c1, k)' /\ OnDevice(c2, k)' => c1 = c2
               /\ \A m1, m2 \in Number :
                     InStop(m1, k)' /\ InStop(m2, k)' => m1 = m2
               /\ \A c \in Device, m \in Number :
                     ~(OnDevice(c, k)' /\ InStop(m, k)')
    <3>1. CASE k = n
      BY <2>3, <1>5, <3>1
    <3>2. CASE k # n
      <4>1. \A c \in Device : OnDevice(c, k)' => OnDevice(c, k)
        BY <1>5, <3>2
      <4> QED BY <4>1, <1>5 DEF RowInv, Places
    <3> QED BY <3>1, <3>2
  <2> QED BY <2>2, <2>4, <2>5 DEF Places
<1>7. EarlyRows'
  <2>1. rows[n] = 0
    BY <1>1 DEF RowInv, Places
  <2>2. ASSUME NEW k \in Number, rows'[k] > 0
        PROVE  \/ k \in switched'
               \/ /\ \A c \in Device : ~OnDevice(c, k)'
                  /\ \A m \in Number : ~InStop(m, k)'
    <3>1. rows[k] > 0 /\ k # n
      BY <2>1, <2>2, <1>3
    <3>2. \A c \in Device : OnDevice(c, k)' => OnDevice(c, k)
      BY <1>5, <3>1
    <3> QED BY <3>1, <3>2, <1>3, <1>5 DEF RowInv, EarlyRows
  <2> QED BY <2>2 DEF EarlyRows
<1>8. \A k \in Number : Recorded(k) => Recorded(k)'
  BY <1>3 DEF Recorded
<1>9. \A c \in Device : \A k \in LongRow(active'[c]) :
        k \in Number /\ k \in LongRow(active[c])
  BY <1>2, <1>4, LongRowType DEF LongRow, TypeOK
<1>10. Replaced'
  <2>1. ASSUME NEW m \in Handled'
        PROVE  m \in Handled /\ req'[m] = req[m] /\ Replacing(m)' = Replacing(m)
                 /\ req[m].dev \in Device
    BY <1>4, HandledRequest DEF Replacing, Handled
  <2> QED BY <2>1, <1>8, <1>9 DEF RowInv, Replaced
<1>11. ActivityKept'
  <2>1. ASSUME NEW k \in LongRow(active[d]) PROVE Recorded(k)'
    <3>1. CASE req[n].kind = "start"
      BY <1>3, <3>1 DEF Recorded
    <3>2. CASE req[n].kind = "progress"
      BY <1>0, <1>1, <1>3, <3>2 DEF RowInv, Replaced, Replacing, Recorded
    <3> QED BY <3>1, <3>2 DEF Insert, At
  <2>2. ASSUME NEW m \in Handled, req[m].at = "record"
        PROVE  m \in Handled' /\ req'[m] = req[m]
    BY <1>1, <1>4, <2>2 DEF Handled
  <2>3. \A k \in ended' : \/ Recorded(k)'
                          \/ \E m \in Handled' : /\ req'[m].at = "record"
                                                 /\ k \in LongRow(req'[m].held)
    BY <2>1, <2>2, <1>3, <1>8 DEF RowInv, ActivityKept, Recorded, TypeOK
  <2> QED BY <2>3, <1>3 DEF RowInv, ActivityKept, Recorded
<1> QED BY <1>6, <1>7, <1>10, <1>11 DEF RowInv

\* A stop takes the playback from its device, and will record it.
LEMMA RemoveRows ==
    ASSUME TypeOK, RowInv, NEW n \in Number, Remove(n)
    PROVE  RowInv'
<1>0. PICK d \in Device : d = req[n].dev
  BY HandledRequest DEF Remove, At
<1> DEFINE q == [req[n] EXCEPT !.at = "record", !.held = active[d]]
<1>1. /\ n \in Handled /\ req[n] \in Request /\ req[n].kind = "stop"
      /\ req[n].at = "remove" /\ req[n].held = NoPlayback
  BY HandledRequest DEF Remove, At, RowInv, Places
<1>2. /\ q.held = active[d] /\ q.kind = "stop" /\ q.at = "record"
  BY <1>1 DEF Request
<1>3. q # NoRequest
  <2>1. q \in Request
    BY <1>1 DEF Request, TypeOK
  <2> QED BY <2>1, NothingAssumption
<1>4. /\ req' = [req EXCEPT ![n] = q]
      /\ active' = [active EXCEPT ![d] = NoPlayback]
      /\ ended' = ended \cup LongRow(active[d])
      /\ UNCHANGED <<sent, rows, excused, switched>>
  BY <1>0 DEF Remove, TypeOK
<1> HIDE DEF q
<1>5. /\ Handled' = Handled
      /\ req'[n] = q
      /\ \A m \in Number \ {n} : req'[m] = req[m]
      /\ active'[d] = NoPlayback
      /\ \A c \in Device \ {d} : active'[c] = active[c]
  BY <1>1, <1>3, <1>4 DEF Handled, TypeOK
<1>6. ASSUME NEW k \in Number
      PROVE  /\ InStop(n, k)' => OnDevice(d, k)
             /\ ~InStop(n, k)
             /\ ~OnDevice(d, k)'
             /\ \A m \in Number \ {n} : InStop(m, k)' <=> InStop(m, k)
             /\ \A c \in Device \ {d} : OnDevice(c, k)' <=> OnDevice(c, k)
  BY <1>1, <1>2, <1>5 DEF InStop, OnDevice, Is, Handled
<1>7. ASSUME NEW k \in Number, \A c \in Device : ~OnDevice(c, k),
             \A m \in Number : ~InStop(m, k)
      PROVE  /\ \A c \in Device : ~OnDevice(c, k)'
             /\ \A m \in Number : ~InStop(m, k)'
  BY <1>6, <1>7
<1>8. Places'
  <2>1. \A m \in Handled' : req'[m].held # NoPlayback =>
            req'[m].kind = "stop" /\ req'[m].at = "record"
    BY <1>2, <1>5 DEF RowInv, Places, Handled
  <2>2. ASSUME NEW k \in Number
        PROVE  /\ \A c1, c2 \in Device :
                     OnDevice(c1, k)' /\ OnDevice(c2, k)' => c1 = c2
               /\ \A m1, m2 \in Number :
                     InStop(m1, k)' /\ InStop(m2, k)' => m1 = m2
               /\ \A c \in Device, m \in Number :
                     ~(OnDevice(c, k)' /\ InStop(m, k)')
    BY <1>6 DEF RowInv, Places
  <2>3. ASSUME NEW k \in Number
        PROVE  /\ k > sent' => k \notin Handled'
               /\ k > sent' \/ k \in Handled' =>
                     /\ rows'[k] = 0
                     /\ \A c \in Device : ~OnDevice(c, k)'
                     /\ \A m \in Number : ~InStop(m, k)'
    BY <1>4, <1>5, <1>7 DEF RowInv, Places
  <2> QED BY <2>1, <2>2, <2>3 DEF Places
<1>9. EarlyRows'
  <2>1. ASSUME NEW k \in Number, rows'[k] > 0
        PROVE  \/ k \in switched'
               \/ /\ \A c \in Device : ~OnDevice(c, k)'
                  /\ \A m \in Number : ~InStop(m, k)'
    BY <2>1, <1>4, <1>7 DEF RowInv, EarlyRows
  <2> QED BY <2>1 DEF EarlyRows
<1>10. Replaced'
  <2>1. ASSUME NEW m \in Handled', m # n
        PROVE  /\ m \in Handled /\ req'[m] = req[m] /\ Replacing(m)' = Replacing(m)
               /\ LongRow(active'[req[m].dev]) \subseteq LongRow(active[req[m].dev])
    <3>1. m \in Handled /\ req'[m] = req[m] /\ Replacing(m)' = Replacing(m)
      BY <2>1, <1>5 DEF Replacing, Handled
    <3>2. req[m].dev \in Device
      BY <3>1, HandledRequest
    <3> QED BY <3>1, <3>2, <1>5 DEF LongRow
  <2>2. ASSUME NEW m \in Handled'
        PROVE  Replacing(m)' =>
                  \A k \in LongRow(active'[req'[m].dev]) : Recorded(k)'
    <3>1. CASE m = n
      BY <3>1, <1>2, <1>5 DEF Replacing
    <3>2. CASE m # n
      BY <3>2, <2>1, <1>4 DEF RowInv, Replaced, Recorded
    <3> QED BY <3>1, <3>2
  <2> QED BY <2>2 DEF Replaced
<1>11. ActivityKept'
  <2>1. ASSUME NEW k \in LongRow(active[d])
        PROVE  \E m \in Handled' : req'[m].at = "record" /\ k \in LongRow(req'[m].held)
    BY <1>1, <1>2, <1>5
  <2>2. ASSUME NEW m \in Handled, req[m].at = "record"
        PROVE  m \in Handled' /\ req'[m] = req[m]
    BY <1>1, <1>5, <2>2 DEF Handled
  <2>3. \A k \in ended' : \/ Recorded(k)'
                          \/ \E m \in Handled' : /\ req'[m].at = "record"
                                                 /\ k \in LongRow(req'[m].held)
    BY <2>1, <2>2, <1>4 DEF RowInv, ActivityKept, Recorded, TypeOK
  <2> QED BY <2>3, <1>4 DEF RowInv, ActivityKept, Recorded
<1> QED BY <1>8, <1>9, <1>10, <1>11 DEF RowInv

\* A row that is written once does not exceed one, unless a report about
\* something else wrote the first.
LEMMA OneRow ==
    ASSUME TypeOK, RowInv, NEW ids \in SUBSET Number, Records(ids),
           \A k \in ids : \/ \E d \in Device : OnDevice(d, k)
                          \/ \E m \in Number : InStop(m, k)
    PROVE  \A k \in Number : rows'[k] > 1 => k \in switched
<1> SUFFICES ASSUME NEW k \in Number, rows'[k] > 1 PROVE k \in switched
  OBVIOUS
<1>1. CASE k \in ids
  <2>1. rows[k] # 0
    BY RecordsEffect
  <2>2. rows[k] > 0
    BY <2>1 DEF TypeOK
  <2> QED BY <1>1, <2>2 DEF RowInv, EarlyRows
<1>2. CASE k \notin ids
  BY <1>2, RecordsEffect DEF RowInv, ActivityKept
<1> QED BY <1>1, <1>2

\* The stop records it, or the insert fails; nobody has the playback any more.
LEMMA RecordRows ==
    ASSUME TypeOK, RowInv, NEW n \in Number, Record(n)
    PROVE  RowInv'
<1> DEFINE e == req[n].held
           ids == LongRow(e)
           p == IF req[n].pos = 0 /\ e # NoPlayback THEN e.pos ELSE req[n].pos
           q == [req[n] EXCEPT !.at = "write", !.held = NoPlayback, !.pos = p]
<1>1. /\ n \in Handled /\ req[n] \in Request /\ req[n].kind = "stop"
      /\ req[n].at = "record" /\ e \in Entry \cup {NoPlayback}
      /\ req[n].pos \in Position
  BY HandledRequest DEF Record, At
<1>2. /\ q.held = NoPlayback /\ q.kind = "stop" /\ q.at = "write"
  BY <1>1 DEF Request
<1>3. q # NoRequest
  <2>1. p \in Position
    BY <1>1 DEF Entry
  <2>2. q \in Request
    BY <1>1, <2>1 DEF Request
  <2> QED BY <2>2, NothingAssumption
<1>4. /\ req' = [req EXCEPT ![n] = q]
      /\ Records(ids)
      /\ UNCHANGED <<active, sent, ended, switched>>
  BY DEF Record, TypeOK
<1>5. ids \in SUBSET Number /\ \A k \in ids : InStop(n, k)
  BY <1>1, LongRowType DEF LongRow, InStop, Is
<1>6. PICK gone \in SUBSET Number : gone = ids
  BY <1>5
<1> HIDE DEF q, ids, e
<1>7. /\ \A k \in Number : rows'[k] = rows[k] \/ InStop(n, k)
      /\ \A k \in Number : Recorded(k) => Recorded(k)'
      /\ \A k \in gone : Recorded(k)'
      /\ \A k \in Number : rows'[k] > 1 => k \in switched
  BY <1>4, <1>5, <1>6, RecordsEffect, OneRow
<1>8. /\ Handled' = Handled
      /\ req'[n] = q
      /\ \A m \in Number \ {n} : req'[m] = req[m]
  BY <1>1, <1>3, <1>4 DEF Handled, TypeOK
<1>9. ASSUME NEW k \in Number
      PROVE  /\ ~InStop(n, k)'
             /\ \A m \in Number \ {n} : InStop(m, k)' <=> InStop(m, k)
             /\ \A c \in Device : OnDevice(c, k)' <=> OnDevice(c, k)
  BY <1>1, <1>2, <1>4, <1>8 DEF InStop, OnDevice, Is, Handled
<1>10. Places'
  <2>1. \A m \in Handled' : req'[m].held # NoPlayback =>
            req'[m].kind = "stop" /\ req'[m].at = "record"
    BY <1>2, <1>8 DEF RowInv, Places, Handled
  <2>2. ASSUME NEW k \in Number
        PROVE  /\ \A c1, c2 \in Device :
                     OnDevice(c1, k)' /\ OnDevice(c2, k)' => c1 = c2
               /\ \A m1, m2 \in Number :
                     InStop(m1, k)' /\ InStop(m2, k)' => m1 = m2
               /\ \A c \in Device, m \in Number :
                     ~(OnDevice(c, k)' /\ InStop(m, k)')
    BY <1>9 DEF RowInv, Places
  <2>3. ASSUME NEW k \in Number
        PROVE  /\ k > sent' => k \notin Handled'
               /\ k > sent' \/ k \in Handled' =>
                     /\ rows'[k] = 0
                     /\ \A c \in Device : ~OnDevice(c, k)'
                     /\ \A m \in Number : ~InStop(m, k)'
    BY <1>4, <1>7, <1>8, <1>9 DEF RowInv, Places
  <2> QED BY <2>1, <2>2, <2>3 DEF Places
<1>11. EarlyRows'
  <2>1. ASSUME NEW k \in Number, rows'[k] > 0
        PROVE  \/ k \in switched'
               \/ /\ \A c \in Device : ~OnDevice(c, k)'
                  /\ \A m \in Number : ~InStop(m, k)'
    <3>1. CASE InStop(n, k)
      BY <3>1, <1>1, <1>9 DEF RowInv, Places
    <3>2. CASE ~InStop(n, k)
      BY <3>2, <2>1, <1>4, <1>7, <1>9 DEF RowInv, EarlyRows
    <3> QED BY <3>1, <3>2
  <2> QED BY <2>1 DEF EarlyRows
<1>12. Replaced'
  <2>1. ASSUME NEW m \in Handled', m # n
        PROVE  m \in Handled /\ req'[m] = req[m] /\ Replacing(m)' = Replacing(m)
                 /\ LongRow(active[req[m].dev]) \subseteq Number
    <3>1. m \in Handled /\ req'[m] = req[m] /\ Replacing(m)' = Replacing(m)
      BY <2>1, <1>8 DEF Replacing, Handled
    <3> QED BY <3>1, HandledRequest, LongRowType DEF TypeOK
  <2>2. ASSUME NEW m \in Handled'
        PROVE  Replacing(m)' =>
                  \A k \in LongRow(active'[req'[m].dev]) : Recorded(k)'
    <3>1. CASE m = n
      BY <3>1, <1>2, <1>8 DEF Replacing
    <3>2. CASE m # n
      BY <3>2, <2>1, <1>4, <1>7 DEF RowInv, Replaced
    <3> QED BY <3>1, <3>2
  <2> QED BY <2>2 DEF Replaced
<1>13. ActivityKept'
  <2>1. ASSUME NEW m \in Handled, req[m].at = "record", NEW k \in LongRow(req[m].held)
        PROVE  \/ Recorded(k)'
               \/ m \in Handled' /\ req'[m] = req[m]
    <3>1. CASE m = n
      BY <3>1, <2>1, <1>6, <1>7 DEF ids, e
    <3>2. CASE m # n
      BY <3>2, <1>8 DEF Handled
    <3> QED BY <3>1, <3>2
  <2>2. \A k \in ended' : \/ Recorded(k)'
                          \/ \E m \in Handled' : /\ req'[m].at = "record"
                                                 /\ k \in LongRow(req'[m].held)
    BY <2>1, <1>4, <1>7 DEF RowInv, ActivityKept, Recorded, TypeOK
  <2> QED BY <2>2, <1>4, <1>7 DEF ActivityKept, Recorded
<1> QED BY <1>10, <1>11, <1>12, <1>13 DEF RowInv

\* The silent playbacks are given up, and the watched among them recorded.
LEMMA StaleRows ==
    ASSUME TypeOK, RowInv, FlushStalePlaybacks
    PROVE  RowInv'
<1>1. PICK ids \in SUBSET Number : ids = {active[d].id : d \in Watched}
  BY ActiveEntry DEF Watched, Silent, Playing
<1>2. /\ Records(ids)
      /\ ended' = ended \cup ids
      /\ \A d \in Device : active'[d] = IF d \in Silent THEN NoPlayback ELSE active[d]
      /\ UNCHANGED <<sent, req, switched>>
  BY <1>1 DEF FlushStalePlaybacks
<1>3. \A k \in ids : \E d \in Silent : d \in Device /\ OnDevice(d, k)
  BY <1>1 DEF Watched, Silent, Playing, OnDevice, Is
<1>4. /\ \A k \in Number : rows'[k] = rows[k] \/ k \in ids
      /\ \A k \in Number : Recorded(k) => Recorded(k)'
      /\ \A k \in ids : Recorded(k)'
      /\ \A k \in Number : rows'[k] > 1 => k \in switched
  BY <1>2, <1>3, RecordsEffect, OneRow
<1>5. ASSUME NEW k \in Number
      PROVE  /\ \A m \in Number : InStop(m, k)' <=> InStop(m, k)
             /\ \A d \in Device : OnDevice(d, k)' => OnDevice(d, k) /\ d \notin Silent
  BY <1>2 DEF InStop, OnDevice, Is, Handled
<1>6. Handled' = Handled /\ req' = req
  BY <1>2 DEF Handled
<1>7. Places'
  <2>1. ASSUME NEW k \in Number
        PROVE  /\ \A c1, c2 \in Device :
                     OnDevice(c1, k)' /\ OnDevice(c2, k)' => c1 = c2
               /\ \A m1, m2 \in Number :
                     InStop(m1, k)' /\ InStop(m2, k)' => m1 = m2
               /\ \A c \in Device, m \in Number :
                     ~(OnDevice(c, k)' /\ InStop(m, k)')
    BY <1>5 DEF RowInv, Places
  <2>2. ASSUME NEW k \in Number, k > sent \/ k \in Handled
        PROVE  /\ rows'[k] = 0
               /\ \A c \in Device : ~OnDevice(c, k)'
               /\ \A m \in Number : ~InStop(m, k)'
    BY <2>2, <1>3, <1>4, <1>5 DEF RowInv, Places
  <2> QED BY <2>1, <2>2, <1>2, <1>6 DEF RowInv, Places
<1>8. EarlyRows'
  <2>1. ASSUME NEW k \in Number, rows'[k] > 0
        PROVE  \/ k \in switched'
               \/ /\ \A c \in Device : ~OnDevice(c, k)'
                  /\ \A m \in Number : ~InStop(m, k)'
    <3>1. CASE k \in ids
      <4>1. PICK d \in Silent : d \in Device /\ OnDevice(d, k)
        BY <3>1, <1>3
      <4> QED BY <4>1, <1>5 DEF RowInv, Places
    <3>2. CASE k \notin ids
      BY <3>2, <2>1, <1>2, <1>4, <1>5 DEF RowInv, EarlyRows
    <3> QED BY <3>1, <3>2
  <2> QED BY <2>1 DEF EarlyRows
<1>9. Replaced'
  <2>1. ASSUME NEW m \in Handled
        PROVE  /\ LongRow(active[req[m].dev]) \subseteq Number
               /\ LongRow(active'[req[m].dev]) \subseteq LongRow(active[req[m].dev])
    <3>1. req[m].dev \in Device
      BY HandledRequest
    <3> QED BY <3>1, <1>2, LongRowType DEF TypeOK, LongRow
  <2>2. \A m : Replacing(m)' = Replacing(m)
    BY <1>6 DEF Replacing
  <2> QED BY <2>1, <2>2, <1>4, <1>6 DEF RowInv, Replaced
<1>10. ActivityKept'
  <2>1. \A k \in ended' : \/ Recorded(k)'
                          \/ \E m \in Handled' : /\ req'[m].at = "record"
                                                 /\ k \in LongRow(req'[m].held)
    BY <1>2, <1>4, <1>6 DEF RowInv, ActivityKept, Recorded, TypeOK
  <2> QED BY <2>1, <1>2, <1>4 DEF ActivityKept, Recorded
<1> QED BY <1>7, <1>8, <1>9, <1>10 DEF RowInv

\* The process ends with every playback: those that lasted are excused.
LEMMA CrashRows ==
    ASSUME TypeOK, RowInv, Crash
    PROVE  RowInv'
<1> DEFINE playing == UNION {LongRow(active[d]) : d \in Device}
           stopping == {n \in Handled : req[n].at = "record"}
           lost == UNION {LongRow(req[n].held) : n \in stopping}
<1>1. /\ \A d \in Device : active'[d] = NoPlayback
      /\ Handled' = {}
      /\ ended' = ended \cup playing
      /\ excused' = excused \cup playing \cup lost
      /\ UNCHANGED <<sent, rows, switched>>
  BY DEF Crash, Handled
<1>2. \A k, d : d \in Device => ~OnDevice(d, k)'
  BY <1>1 DEF OnDevice, Is
<1>3. \A k, m : ~InStop(m, k)'
  BY <1>1 DEF InStop
<1>4. Places'
  BY <1>1, <1>2, <1>3 DEF RowInv, Places
<1>5. EarlyRows'
  BY <1>2, <1>3 DEF EarlyRows
<1>6. Replaced'
  BY <1>1 DEF Replaced
<1>7. ActivityKept'
  BY <1>1 DEF RowInv, ActivityKept
<1> QED BY <1>4, <1>5, <1>6, <1>7 DEF RowInv

\* Nothing has been played, and so nothing recorded.
LEMMA InitRows == Init => RowInv
<1> SUFFICES ASSUME Init PROVE RowInv
  OBVIOUS
<1>1. /\ Handled = {}
      /\ \A n \in Number : rows[n] = 0
      /\ \A n \in Number, d \in Device : ~OnDevice(d, n)
      /\ \A n, m \in Number : ~InStop(m, n)
  BY DEF Init, Handled, OnDevice, InStop, Is
<1>2. Places
  BY <1>1 DEF Places
<1>3. EarlyRows
  BY <1>1 DEF EarlyRows
<1>4. Replaced
  BY <1>1 DEF Replaced
<1>5. ActivityKept
  BY <1>1 DEF Init, ActivityKept
<1> QED BY <1>2, <1>3, <1>4, <1>5 DEF RowInv

\* Every step of playback keeps the rows and the playbacks together.
LEMMA NextRows == TypeOK /\ RowInv /\ [Next]_vars => RowInv'
<1> SUFFICES ASSUME TypeOK, RowInv, [Next]_vars PROVE RowInv'
  OBVIOUS
<1>1. CASE Clients
  <2>1. "stop" \in Kind
    BY DEF Kind
  <2> QED BY <1>1, <2>1, ArriveRows, QuietOthers, PlaybackAssumption DEF Clients
<1>2. CASE System
  <2>1. ASSUME NEW n \in Number, Handle(n) PROVE RowInv'
    BY <2>1, QuietHandler, SwitchRows, InsertRows, RemoveRows, RecordRows DEF Handle
  <2> QED BY <1>2, <2>1, StaleRows, LastsRows, QuietOthers DEF System
<1>3. CASE Faults
  BY <1>3, QuietHandler, QuietOthers, CrashRows DEF Faults
<1>4. CASE UNCHANGED vars
  BY <1>4, QuietOthers
<1> QED BY <1>1, <1>2, <1>3, <1>4 DEF Next

\* Whatever the order of the handlers and the tickers, a playback that lasted
\* more than five seconds leaves an activity row once it is over, and a second
\* one only when a report about something else had recorded it and left it in
\* place (OnPlaybackProgress, OnPlaybackStopped, FlushStalePlaybacks).
THEOREM ActivityRecorded == Spec => []ActivityKept
<1>1. RowInv => ActivityKept
  BY DEF RowInv
<1> QED
  BY <1>1, InitTyped, NextTyped, InitRows, NextRows, PTL DEF Spec
=============================================================================
