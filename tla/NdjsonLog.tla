------------------------------ MODULE NdjsonLog ------------------------------
(***************************************************************************)
(* An append-only NDJSON file that is rotated by day.  The writer is       *)
(* AsyncAuditWriter with append_ndjson (fomo/audit.py), or the queue of    *)
(* sidecar/fast-shadow.mjs, which does the same steps but keeps the day    *)
(* and the generation in memory (onNode).  A line is written in one piece  *)
(* and a byte offset is the number of lines before it.                     *)
(***************************************************************************)
EXTENDS Integers, Sequences, FiniteSets, FiniteSetsExt, SequencesExt

CONSTANTS
    MaxLines,       \* bound: the lines are 1..MaxLines, in the order they are enqueued
    Keep,           \* retention in days
    MaxQueue,       \* max_queue
    MaxDay,         \* bound: the days are 0..MaxDay
    MaxTurns,       \* bound: how often the day changes
    MaxStops        \* bound: crashes, restarts and failed file operations

ASSUME LogAssumption == {MaxLines, Keep, MaxQueue, MaxDay, MaxTurns, MaxStops} \subseteq Nat

VARIABLES
    today, turns, stops,
    text,           \* the file
    archives,       \* set of [name, lines, on], the .gz files
    marker,         \* .rotation.json, or Nowhere
    legacy,         \* .active-day, or -1
    queue,
    writer,         \* [at: the step, day: activeDay, gen, now: its today]
    born,           \* [Lines -> the day of a line, or -1]
    written,        \* history: lines whose append was done
    expired,        \* history: lines of archives past their retention
    unmarked        \* history: a rotation ended between its truncation and its marker

Lines == 1..MaxLines
file  == <<text, archives, marker, legacy>>
lvars == <<today, turns, stops, file, queue, writer, born, written, expired, unmarked>>

Nowhere == [day |-> -1, gen |-> 0]
Idle    == [at |-> "idle", day |-> -1, gen |-> 0, now |-> -1]

LogInit ==
    /\ today = 0 /\ turns = 0 /\ stops = 0
    /\ text = <<>> /\ archives = {} /\ marker = Nowhere /\ legacy = -1
    /\ queue = <<>> /\ writer = Idle
    /\ born = [l \in Lines |-> -1]
    /\ written = {} /\ expired = {} /\ unmarked = FALSE

\* the clock of the machine may be set back
Turn ==
    /\ turns < MaxTurns
    /\ \E d \in 0..MaxDay : d # today /\ today' = d
    /\ turns' = turns + 1
    /\ UNCHANGED <<stops, file, queue, writer, born, written, expired, unmarked>>

-----------------------------------------------------------------------------
(* The steps of one record.                                                  *)

\* a full queue refuses the record (AuditBackpressureError), which changes nothing
Enqueue(l) ==
    /\ born[l] = -1 /\ \A k \in 1..(l - 1) : born[k] # -1
    /\ Len(queue) < MaxQueue
    /\ queue' = Append(queue, l)
    /\ born' = [born EXCEPT ![l] = today]
    /\ UNCHANGED <<today, turns, stops, file, writer, written, expired, unmarked>>

\* the rotation marker, overruled by an older program's marker of the day
Marked == [day |-> IF legacy # -1 THEN legacy ELSE IF marker # Nowhere THEN marker.day ELSE today,
           gen |-> marker.gen]

\* the node queue reads its markers once, and the older one only where the new one is missing
Remembered == IF writer.day # -1 THEN [day |-> writer.day, gen |-> writer.gen]
              ELSE IF marker # Nowhere THEN marker
              ELSE Marked

Begin(onNode) ==
    /\ writer.at = "idle" /\ queue # <<>>
    /\ LET m == IF onNode THEN Remembered ELSE Marked
       IN  writer' = [at  |-> CASE m.day # today /\ text # <<>> -> "archive"
                                [] onNode /\ m.day = today      -> "append"
                                [] OTHER                        -> "mark",
                      day |-> m.day, gen |-> m.gen, now |-> today]
    /\ UNCHANGED <<today, turns, stops, file, queue, born, written, expired, unmarked>>

\* the name of an archive: the day its lines were begun on and their generation
ArchiveName == <<writer.day, writer.gen>>

\* os.replace: an archive of the same name is gone
Archive ==
    /\ writer.at = "archive"
    /\ archives' = {a \in archives : a.name # ArchiveName}
                     \cup {[name |-> ArchiveName, lines |-> ToSet(text), on |-> today]}
    /\ writer' = [writer EXCEPT !.at = "truncate"]
    /\ UNCHANGED <<today, turns, stops, text, marker, legacy, queue, born, written, expired, unmarked>>

Truncate ==
    /\ writer.at = "truncate"
    /\ text' = <<>>
    /\ writer' = [writer EXCEPT !.at = "mark", !.gen = @ + 1]
    /\ UNCHANGED <<today, turns, stops, archives, marker, legacy, queue, born, written, expired, unmarked>>

Mark ==
    /\ writer.at = "mark"
    /\ marker' = [day |-> writer.now, gen |-> writer.gen]
    /\ writer' = [writer EXCEPT !.at = "legacy"]
    /\ UNCHANGED <<today, turns, stops, text, archives, legacy, queue, born, written, expired, unmarked>>

\* by the time of its file
Outdated(a) == today - a.on > Keep

\* archives past the retention are unlinked: by the thread after each record, by the
\* node queue after a change of the day
Prune ==
    /\ archives' = {a \in archives : ~Outdated(a)}
    /\ expired' = expired \cup UNION {a.lines : a \in {x \in archives : today - x.on > Keep}}

MarkLegacy(onNode) ==
    /\ writer.at = "legacy"
    /\ legacy' = writer.now
    /\ writer' = [writer EXCEPT !.at = "append", !.day = writer.now]
    /\ IF onNode THEN Prune ELSE UNCHANGED <<archives, expired>>
    /\ UNCHANGED <<today, turns, stops, text, marker, queue, born, written, unmarked>>

AppendLine(onNode) ==
    /\ writer.at = "append"
    /\ text' = Append(text, Head(queue))
    /\ written' = written \cup {Head(queue)}
    /\ queue' = Tail(queue)
    /\ writer' = IF onNode THEN [writer EXCEPT !.at = "idle"] ELSE Idle
    /\ IF onNode THEN UNCHANGED <<archives, expired>> ELSE Prune
    /\ UNCHANGED <<today, turns, stops, marker, legacy, born, unmarked>>

-----------------------------------------------------------------------------
(* What goes wrong.                                                          *)

Stopped == stops < MaxStops /\ stops' = stops + 1

\* a rotation has truncated the file and its marker is not written
Forgets == unmarked' = (unmarked \/ writer.gen > marker.gen)

\* a file operation fails: the thread begins with the record again, the node queue
\* rejects the record and keeps the generation it has counted
Fail(onNode) ==
    /\ writer.at # "idle" /\ Stopped
    /\ IF onNode
       THEN queue' = Tail(queue) /\ writer' = [writer EXCEPT !.at = "idle"]
       ELSE writer' = Idle /\ UNCHANGED queue
    /\ Forgets
    /\ UNCHANGED <<today, turns, file, born, written, expired>>

\* close waits for the queue until its deadline and gives up what is left, a crash at once
Close ==
    /\ Stopped
    /\ queue' = <<>> /\ writer' = Idle /\ Forgets
    /\ UNCHANGED <<today, turns, file, born, written, expired>>

LogNext(onNode) ==
    \/ \E l \in Lines : Enqueue(l)
    \/ Turn \/ Begin(onNode) \/ Archive \/ Truncate \/ Mark \/ MarkLegacy(onNode)
    \/ AppendLine(onNode) \/ Fail(onNode) \/ Close

-----------------------------------------------------------------------------
(* Properties.                                                               *)

\* A record that was appended is in the file or in an archive until its retention is over,
\* although the day may go back and files cannot be written, unless a rotation
\* ended between its truncation and its marker (append_ndjson).
RecordIsKept ==
    written \subseteq ToSet(text) \cup (UNION {a.lines : a \in archives}) \cup expired
      \/ unmarked
=============================================================================
