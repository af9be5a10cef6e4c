---------------------------- MODULE ProgressBuffer ----------------------------
(***************************************************************************)
(* The resume positions of one user: what playback reports is collected in *)
(* memory by ProgressBuffer, whose only flusher goroutine writes it to the *)
(* database every three seconds; what ends or marks an item is written at  *)
(* once.                                                                   *)
(*                                                                         *)
(* A report names an item and, if the client knows it, the media version   *)
(* that is played.  Both together are its key in the buffer.  They name a  *)
(* row as well: <<i, NoVersion>> is the row of item i in user_item_data,   *)
(* <<i, v>> that of its version v in user_media_version_data.  Of a row    *)
(* only the position is kept: the flusher never writes the other columns.  *)
(***************************************************************************)
EXTENDS Naturals

CONSTANTS
    Item,
    Version,      \* the media versions of every item
    NoVersion,    \* the client names no version
    MaxPosition,  \* bound: positions are 1..MaxPosition, 0 is the beginning
    NoPosition    \* no entry; a nil position

Position == 0..MaxPosition

ASSUME PositionAssumption ==
    /\ MaxPosition \in Nat
    /\ NoPosition \notin Position
    /\ NoVersion \notin Version

Key == Item \X (Version \cup {NoVersion})

\* The row of the item of a key, and all the rows an entry is written to.
ItemRow(k) == <<k[1], NoVersion>>
Rows(k) == {k, ItemRow(k)}

\* The keys whose entries are written to a row.
Writers == [r \in Key |-> {k \in Key : r \in Rows(k)}]

VARIABLES
    buffer,   \* ProgressBuffer.buffer
    taken,    \* the entries of the flush in progress
    resume    \* playback_position_ticks; 0 as long as there is no row

bufferVars == <<buffer, taken>>

NoEntries == [k \in Key |-> NoPosition]

BufferInit ==
    /\ buffer = NoEntries
    /\ taken = NoEntries
    /\ resume = [r \in Key |-> 0]

BufferTypeOK ==
    /\ buffer \in [Key -> Position \cup {NoPosition}]
    /\ taken \in [Key -> Position \cup {NoPosition}]
    /\ resume \in [Key -> Position]

\* The positions that some entries hold for a row.
Held(entries, r) ==
    {entries[k] : k \in Writers[r]} \ {NoPosition}

Waiting(r) == Held(buffer, r)
Moving(r) == Held(taken, r)

-----------------------------------------------------------------------------
\* Mutant: an entry that is there already is kept.
BufferProgress_KeepsFirst(k, p) ==
    /\ buffer' = [buffer EXCEPT ![k] = IF @ = NoPosition THEN p ELSE @]
    /\ UNCHANGED taken

\* A later report under the same key replaces the one that waits.
BufferProgress(k, p) ==
    /\ buffer' = [buffer EXCEPT ![k] = p]
    /\ UNCHANGED taken

\* flushOnce swaps the map under the lock; one flush at a time.
FlushTake ==
    /\ taken = NoEntries
    /\ buffer # NoEntries
    /\ taken' = buffer
    /\ buffer' = NoEntries
    /\ UNCHANGED resume

\* The rows in done get the position p.
Write(done, p) == resume' = [r \in Key |-> IF r \in done THEN p ELSE resume[r]]

\* One entry of the flush, any of those that are left: a map has no order.  Its
\* position is written to its rows whatever they say.
FlushWrite(k) ==
    /\ taken[k] # NoPosition
    /\ Write(Rows(k), taken[k])
    /\ taken' = [taken EXCEPT ![k] = NoPosition]
    /\ UNCHANGED buffer

\* The statement for the item and that for the version fail one by one, and so
\* only the rows in done are written; the errors are logged and the entry is
\* forgotten.
FlushFails(k, done) ==
    /\ taken[k] # NoPosition
    /\ Write(done, taken[k])
    /\ taken' = [taken EXCEPT ![k] = NoPosition]
    /\ UNCHANGED buffer

\* Mutant: a nil position is not coalesced.
UpsertUserItemData_Null(done, p) == Write(done, p)

\* UpsertUserItemData, and Upsert for the row of a version; NoPosition stands
\* for nil.
UpsertUserItemData(done, p) ==
    IF p = NoPosition THEN UNCHANGED resume ELSE Write(done, p)

\* Shutdown is never called: a process that ends leaves nothing but the tables.
BufferLost == buffer' = NoEntries /\ taken' = NoEntries
=============================================================================
