----------------------------- MODULE Leaderboard -----------------------------
(***************************************************************************)
(* The hourly snapshots of the ranking and the files made from them        *)
(* (LeaderboardArchive of fomo/intelligence/leaderboard.py), captured by   *)
(* the thread of the watcher (leaderboard_scheduler.py) and by the script  *)
(* of the task planner (scripts/leaderboard_cycle.py).  Slots number the   *)
(* hours; a ranking is the set of its users.                               *)
(***************************************************************************)
EXTENDS Integers, FiniteSets, FiniteSetsExt

CONSTANTS
    Rankings,       \* what the service may answer; every answer has a valid entry, or the capture fails
    Unwritten,      \* no file
    SlotsADay,
    FirstHour,      \* the hour of the day of slot 0
    MaxSlot,        \* bound: the slots
    MaxCuts         \* bound: crashes and failed file writes

ASSUME BoardAssumption ==
    /\ SlotsADay \in Nat \ {0} /\ FirstHour \in Nat /\ MaxSlot \in Nat
    /\ Unwritten \notin [members : SUBSET UNION Rankings, final : BOOLEAN]

VARIABLES
    hour,           \* the current slot
    snapshots,      \* [Slots -> [status, id, users]]
    hourly,         \* [Slots -> users or Unwritten]
    daily,          \* [Days -> [members, final] or Unwritten]
    capture,        \* [Workers -> [at, slot, users, ending]]: ending is the day to finalize, or -1
    lastSlot,       \* last_slot of the scheduler's thread, or -1
    cuts,
    incomplete,     \* history: a capture ended after its commit, before its files were written
    twoSlots        \* history: a slot was captured, or had its failure recorded, beside a capture of another

boardVars == <<hour, snapshots, hourly, daily, capture, lastSlot, cuts, incomplete, twoSlots>>

Workers == {"scheduler", "script"}
Slots   == 0..MaxSlot
Day(s)  == (FirstHour + s) \div SlotsADay
Days    == {Day(s) : s \in Slots}

NotCapturing == [at |-> "idle", slot |-> -1, users |-> {}, ending |-> -1]

BoardInit ==
    /\ hour = 0
    /\ snapshots = [s \in Slots |-> [status |-> "none", id |-> 0, users |-> {}]]
    /\ hourly = [s \in Slots |-> Unwritten] /\ daily = [d \in Days |-> Unwritten]
    /\ capture = [w \in Workers |-> NotCapturing]
    /\ lastSlot = -1 /\ cuts = 0 /\ incomplete = FALSE /\ twoSlots = FALSE

board == <<snapshots, hourly, daily>>

Successes == {s \in Slots : snapshots[s].status = "success"}
NewId == Max({snapshots[s].id : s \in Slots}) + 1

\* every user of a day's snapshots
Participants(day) == UNION {snapshots[s].users : s \in {x \in Successes : Day(x) = day}}

-----------------------------------------------------------------------------
(* One capture.                                                              *)

\* the thread begins once in an hour, the script whenever it is started
Fetch(w) ==
    /\ capture[w].at = "idle"
    /\ w = "scheduler" => lastSlot # hour
    /\ capture' = [capture EXCEPT ![w].at = "fetch"]
    /\ lastSlot' = IF w = "scheduler" THEN hour ELSE lastSlot
    /\ UNCHANGED <<hour, board, cuts, incomplete, twoSlots>>

\* the day of the latest success
LatestDay ==
    IF Successes = {} THEN -1
    ELSE Day(CHOOSE s \in Successes : \A o \in Successes : snapshots[o].id <= snapshots[s].id)

\* the other worker is at another slot than the current one
BesideAnother(w) == \E o \in Workers \ {w} : capture[o].slot \notin {-1, hour}

\* the slot and the day of the latest success are read before the transaction
ReadSlot(w, users) ==
    /\ capture[w].at = "fetch"
    /\ capture' = [capture EXCEPT ![w] = [at |-> "commit", slot |-> hour, users |-> users,
                                          ending |-> IF LatestDay = Day(hour) THEN -1 ELSE LatestDay]]
    /\ twoSlots' = (twoSlots \/ BesideAnother(w))
    /\ UNCHANGED <<hour, board, lastSlot, cuts, incomplete>>

AlreadyCaptured(s) == snapshots[s].status = "success"

Commit(w) ==
    LET c == capture[w]
        s == c.slot
    IN  /\ c.at = "commit"
        /\ IF AlreadyCaptured(s)
           THEN capture' = [capture EXCEPT ![w] = NotCapturing] /\ UNCHANGED snapshots
           ELSE /\ snapshots' = [snapshots EXCEPT ![s] =
                     [status |-> "success", id |-> IF @.id = 0 THEN NewId ELSE @.id, users |-> c.users]]
                /\ capture' = [capture EXCEPT ![w].at = "hourly"]
        /\ UNCHANGED <<hour, hourly, daily, lastSlot, cuts, incomplete, twoSlots>>

WriteHourly(w) ==
    /\ capture[w].at = "hourly"
    /\ hourly' = [hourly EXCEPT ![capture[w].slot] = capture[w].users]
    /\ capture' = [capture EXCEPT ![w].at = IF capture[w].ending = -1 THEN "daily" ELSE "finalize"]
    /\ UNCHANGED <<hour, snapshots, daily, lastSlot, cuts, incomplete, twoSlots>>

\* export_day
Exported(day, final) == daily' = [daily EXCEPT ![day] = [members |-> Participants(day), final |-> final]]

Finalize(w) ==
    /\ capture[w].at = "finalize"
    /\ Exported(capture[w].ending, TRUE)
    /\ capture' = [capture EXCEPT ![w].at = "daily"]
    /\ UNCHANGED <<hour, snapshots, hourly, lastSlot, cuts, incomplete, twoSlots>>

WriteDaily(w) ==
    /\ capture[w].at = "daily"
    /\ Exported(Day(capture[w].slot), FALSE)
    /\ capture' = [capture EXCEPT ![w] = NotCapturing]
    /\ UNCHANGED <<hour, snapshots, hourly, lastSlot, cuts, incomplete, twoSlots>>

-----------------------------------------------------------------------------
(* Failures.                                                                 *)

\* a mutant: the failure replaces what the slot has
ReplacedByFailure(row) == [status |-> "failed", id |-> IF row.id = 0 THEN NewId ELSE row.id, users |-> {}]

\* record_failure: a slot that has a success keeps it
WithFailure(row) ==
    IF row.status = "none" THEN [status |-> "failed", id |-> NewId, users |-> {}] ELSE row

HasCommitted(w) == capture[w].at \in {"hourly", "finalize", "daily"}

\* an exception of the request, of an answer without entries, of the database or of a
\* file; the failure is recorded under the hour it is
CaptureFails(w) ==
    /\ capture[w].at # "idle"
    /\ capture[w].at # "fetch" => cuts < MaxCuts
    /\ cuts' = IF capture[w].at = "fetch" THEN cuts ELSE cuts + 1
    /\ snapshots' = [snapshots EXCEPT ![hour] = WithFailure(@)]
    /\ incomplete' = (incomplete \/ HasCommitted(w))
    /\ twoSlots' = (twoSlots \/ BesideAnother(w))
    /\ capture' = [capture EXCEPT ![w] = NotCapturing]
    /\ UNCHANGED <<hour, hourly, daily, lastSlot>>

CaptureCrashes(w) ==
    /\ cuts < MaxCuts /\ cuts' = cuts + 1
    /\ capture' = [capture EXCEPT ![w] = NotCapturing]
    /\ lastSlot' = IF w = "scheduler" THEN -1 ELSE lastSlot
    /\ incomplete' = (incomplete \/ HasCommitted(w))
    /\ UNCHANGED <<hour, board, twoSlots>>

NextHour ==
    /\ hour < MaxSlot
    /\ hour' = hour + 1
    /\ UNCHANGED <<board, capture, lastSlot, cuts, incomplete, twoSlots>>

BoardNext ==
    \/ NextHour
    \/ \E w \in Workers :
         \/ Fetch(w) \/ Commit(w) \/ WriteHourly(w) \/ Finalize(w) \/ WriteDaily(w)
         \/ CaptureFails(w) \/ CaptureCrashes(w)
         \/ \E users \in Rankings : ReadSlot(w, users)

-----------------------------------------------------------------------------
(* Properties.                                                               *)

\* When no capture is running, the files say what the store says: an hour's file its
\* snapshot, a day's file all participants of the day, and a day before the last one that
\* was captured is final, whichever of the two workers captured it and however often they
\* failed, unless one ended between its commit and its files or two hours were captured,
\* or one was and another recorded as failed, at the same time: then the ids of the rows
\* are not in the order of the hours, and a day may be taken for the latest that is not
\* (LeaderboardArchive.capture, record_failure).
FilesFollowStore ==
    (\A w \in Workers : capture[w].at = "idle") /\ ~incomplete /\ ~twoSlots =>
        /\ \A s \in Slots : hourly[s] = IF s \in Successes THEN snapshots[s].users ELSE Unwritten
        /\ \A d \in Days : LET captured == \E s \in Successes : Day(s) = d
                           IN  /\ captured <=> daily[d] # Unwritten
                               /\ captured => /\ daily[d].members = Participants(d)
                                              /\ daily[d].final <=> \E s \in Successes : Day(s) > d
=============================================================================
