----------------------------- MODULE AuditIndex -----------------------------
(***************************************************************************)
(* The console's index of an audit log (AuditLogIndex of                   *)
(* fomo/web/audit_index.py), which reads the lines after its cursor while  *)
(* the writer appends to the file and rotates it.                          *)
(***************************************************************************)
EXTENDS NdjsonLog

CONSTANTS
    KeyOf,          \* [Lines -> its eventId or signalId, or NoKey]
    NoKey

VARIABLES
    index,          \* the database: [rows, cursor, counted]
    sync,           \* a running sync: [at, size, announced]
    forgotten,      \* history: lines whose rows were pruned
    overlapped      \* history: a rotation happened while a sync was running

ivars == <<index, sync, forgotten, overlapped>>

NoCursor == [offset |-> -1, gen |-> 0, writer |-> 0]
NoSync   == [at |-> "idle", size |-> 0, announced |-> 0]

IndexInit ==
    /\ index = [rows |-> {}, cursor |-> NoCursor, counted |-> 0]
    /\ sync = NoSync /\ forgotten = {} /\ overlapped = FALSE

-----------------------------------------------------------------------------
(* sync: the size of the file, the marker, the lines after the cursor.       *)

SyncSize ==
    /\ sync.at = "idle"
    /\ sync' = [NoSync EXCEPT !.at = "identity", !.size = Len(text)]
    /\ UNCHANGED <<index, forgotten, overlapped>>

\* fewer bytes than were read, or another generation of the writer
Rotated(c, size, announced) == size < c.offset \/ c.writer # announced

\* generations of the index are its own, so that offsets of different ones never meet
SyncIdentity ==
    /\ sync.at = "identity"
    /\ LET c == index.cursor
           announced == marker.gen
           cursor == CASE c = NoCursor -> [offset |-> 0, gen |-> announced, writer |-> announced]
                       [] c # NoCursor /\ Rotated(c, sync.size, announced) ->
                            [offset |-> 0, gen |-> Max({c.gen + 1, announced}), writer |-> announced]
                       [] OTHER -> c
       IN  /\ index' = [index EXCEPT !.cursor = IF c = NoCursor /\ sync.size > 0 THEN @ ELSE cursor]
           /\ sync' = IF sync.size > cursor.offset THEN [sync EXCEPT !.at = "read", !.announced = announced] ELSE NoSync
    /\ UNCHANGED <<forgotten, overlapped>>

\* two lines of one event
SameKey(l, k) == KeyOf[l] # NoKey /\ KeyOf[l] = KeyOf[k]

PlaceTaken(rows, row) == \E r \in rows : r.gen = row.gen /\ r.end = row.end

\* INSERT OR IGNORE, line after line: one row for an event, one for a place in a generation
Inserted(rows, read) ==
    rows \cup {read[i] : i \in {n \in DOMAIN read :
        /\ ~PlaceTaken(rows, read[n])
        /\ \A r \in rows : ~SameKey(r.line, read[n].line)
        /\ \A m \in 1..(n - 1) : SameKey(read[m].line, read[n].line) => PlaceTaken(rows, read[m])}}

\* a mutant: every line that was read is counted
EveryLine(rows, read) == Len(read)

\* the metrics count the rows that were inserted
Counts(rows, read) == Cardinality(Inserted(rows, read)) - Cardinality(rows)

\* one transaction: rows, metrics and the cursor; the first sync has no cursor yet
SyncRead ==
    /\ sync.at = "read"
    /\ LET c == IF index.cursor = NoCursor THEN [offset |-> 0, gen |-> sync.announced, writer |-> sync.announced]
                ELSE index.cursor
           read == [i \in 1..Max({0, Len(text) - c.offset}) |->
                      [line |-> text[c.offset + i], gen |-> c.gen, end |-> c.offset + i]]
       IN  index' = [rows    |-> Inserted(index.rows, read),
                     cursor  |-> [c EXCEPT !.offset = @ + Len(read)],
                     counted |-> index.counted + Counts(index.rows, read)]
    /\ sync' = NoSync
    /\ UNCHANGED <<forgotten, overlapped>>

\* _prune_retention at the end of a sync, once an hour, with the metrics made anew
SyncPrune ==
    /\ sync.at = "idle"
    /\ LET old == {r \in index.rows : born[r.line] < today - Keep}
       IN  /\ old # {}
           /\ index' = [index EXCEPT !.rows = @ \ old, !.counted = Cardinality(index.rows \ old)]
           /\ forgotten' = forgotten \cup {r.line : r \in old}
    /\ UNCHANGED <<sync, overlapped>>

\* the console ends between two transactions
SyncStops ==
    /\ sync.at # "idle"
    /\ sync' = NoSync
    /\ UNCHANGED <<index, forgotten, overlapped>>

IndexNext == SyncSize \/ SyncIdentity \/ SyncRead \/ SyncPrune \/ SyncStops

\* a step of the writer beside the index
Beside ==
    /\ overlapped' = (overlapped \/ (sync.at # "idle" /\ text' = <<>> /\ text # <<>>))
    /\ UNCHANGED <<index, sync, forgotten>>

-----------------------------------------------------------------------------
(* Properties.                                                               *)

\* a sync that began now would not read a line
UpToDate == index.cursor.offset = Len(text) /\ ~Rotated(index.cursor, Len(text), marker.gen)

Indexed(l) == \E k \in forgotten \cup {r.line : r \in index.rows} : k = l \/ SameKey(k, l)

\* When a sync would find nothing to do, every line of the file has its row, however the
\* file was rotated meanwhile; a line has one row and is counted once.  A rotation whose
\* marker was never written may hide lines, and one that overlaps a sync may show a line
\* without an event id twice (AuditLogIndex.sync).
IndexFollowsLog ==
    /\ UpToDate /\ ~unmarked =>
         \A l \in ToSet(text) : Indexed(l)
    /\ index.counted = Cardinality(index.rows)
    /\ \A r, q \in index.rows : r.line = q.line /\ r # q => overlapped

\* The log keeps what was appended and the console finds it (append_ndjson, AuditLogIndex).
LogIsIndexed == RecordIsKept /\ IndexFollowsLog
=============================================================================
