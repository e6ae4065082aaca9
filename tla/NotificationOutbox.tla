------------------------- MODULE NotificationOutbox -------------------------
(***************************************************************************)
(* The notification outbox (fomo/app.py): one row per event and channel,   *)
(* drained by the worker thread.  A message leaves for an external         *)
(* platform before the row that says so is committed, and the answer of    *)
(* the platform may be lost, so a message may arrive more than once; the   *)
(* thread or the process may end between any two steps.                    *)
(***************************************************************************)
EXTENDS Naturals, FiniteSets

CONSTANTS
    Events,         \* the events to be notified
    Channels,       \* telegram, feishu, generic_webhook and console
    Console,        \* the channel used when no other is enabled
    NoRow,          \* the thread works on no row
    BatchLimit,     \* rows one drain takes
    MaxRetries,     \* failures after which a row is dead
    MaxCrashes      \* bound: interruptions of thread or process the model explores

ASSUME OutboxAssumption ==
    /\ IsFiniteSet(Events)
    /\ IsFiniteSet(Channels)
    /\ Console \in Channels
    /\ NoRow \notin Events \X Channels
    /\ BatchLimit \in Nat \ {0}
    /\ MaxRetries \in Nat \ {0}
    /\ MaxCrashes \in Nat

Rows == Events \X Channels

VARIABLES
    \* the world
    old,            \* events past notifications.max_event_age_seconds
    enabled,        \* the channels the configuration enables
    delivered,      \* copies of a row's message that have reached its platform
    \* state database
    status,         \* notification_outbox.status ("absent": no row)
    attempts,       \* notification_outbox.attempts
    waiting,        \* rows whose next_attempt_at lies in the future
    arrival,        \* notification_outbox.created_at, as a rank (rows stored together share it)
    \* volatile
    pc,             \* where the worker thread is
    batch,          \* rows of the current drain still to be taken
    cur,            \* the row in hand
    \* bound
    crashes

world  == <<old, enabled, delivered>>
outbox == <<status, attempts, waiting, arrival>>
thread == <<pc, batch, cur>>
vars   == <<world, outbox, thread, crashes>>

InHand == {"sending", "sent", "failed"}

TypeOK ==
    /\ old \subseteq Events
    /\ enabled \subseteq Channels \ {Console}
    /\ delivered \in [Rows -> Nat]
    /\ status \in [Rows -> {"absent", "pending", "retry", "sent", "dead",
                            "suppressed_disabled", "suppressed_stale"}]
    /\ attempts \in [Rows -> Nat]
    /\ waiting \subseteq Rows
    /\ arrival \in [Rows -> Nat]
    /\ pc \in InHand \cup {"idle", "drain", "stopped"}
    /\ batch \subseteq Rows
    /\ cur \in Rows \cup {NoRow}
    /\ pc \in InHand => cur \in Rows
    /\ crashes \in 0..MaxCrashes

Init ==
    /\ old = {}
    /\ enabled \in SUBSET (Channels \ {Console})
    /\ delivered = [r \in Rows |-> 0]
    /\ status = [r \in Rows |-> "absent"]
    /\ attempts = [r \in Rows |-> 0]
    /\ waiting = {}
    /\ arrival = [r \in Rows |-> 0]
    /\ pc = "idle"
    /\ batch = {}
    /\ cur = NoRow
    /\ crashes = 0

-----------------------------------------------------------------------------
(* Time and intake.                                                        *)

GrowOld(e) ==
    /\ e \notin old
    /\ old' = old \cup {e}
    /\ UNCHANGED <<enabled, delivered, outbox, thread, crashes>>

BackoffElapses(r) ==
    /\ r \in waiting
    /\ waiting' = waiting \ {r}
    /\ UNCHANGED <<world, status, attempts, arrival, thread, crashes>>

\* notification_channels: the enabled ones, or the console.
Targets == IF enabled = {} THEN {Console} ELSE enabled

Stored == Cardinality({r \in Rows : status[r] # "absent"})

\* The main thread stores a row per channel; rows the event already has are left alone, so an
\* event that is enqueued again under another configuration gains the new channels only.
Enqueue(e) ==
    LET fresh == {r \in {e} \X Targets : status[r] = "absent"} IN
    /\ e \notin old
    /\ fresh # {}
    /\ status' = [r \in Rows |-> IF r \in fresh THEN "pending" ELSE status[r]]
    /\ arrival' = [r \in Rows |-> IF r \in fresh THEN Stored + 1 ELSE arrival[r]]
    /\ UNCHANGED <<world, attempts, waiting, thread, crashes>>

-----------------------------------------------------------------------------
(* The worker thread.                                                      *)

\* Mutant of Due: rows to be retried are not read.
Due_PendingOnly == {r \in Rows : status[r] = "pending" /\ r \notin waiting}

Due == {r \in Rows : status[r] \in {"pending", "retry"} /\ r \notin waiting}

Before(r, q) == arrival[r] < arrival[q]

\* The oldest due rows; among rows stored together any come first.
StartDrain ==
    /\ pc = "idle"
    /\ \E b \in SUBSET Due :
          /\ Cardinality(b) = BatchLimit \/ (b = Due /\ Cardinality(b) < BatchLimit)
          /\ \A r \in b, q \in Due \ b : ~Before(q, r)
          /\ batch' = b
    /\ pc' = "drain"
    /\ UNCHANGED <<world, outbox, cur, crashes>>

FirstInBatch(r) ==
    /\ pc = "drain"
    /\ r \in batch
    /\ \A q \in batch : ~Before(q, r)
    /\ batch' = batch \ {r}

Wanted(c) == c = Console \/ c \in enabled

\* A channel may have been switched off, and the event grown old, since the row was stored.
SuppressDisabled(r) ==
    /\ FirstInBatch(r)
    /\ ~Wanted(r[2])
    /\ status' = [status EXCEPT ![r] = "suppressed_disabled"]
    /\ attempts' = [attempts EXCEPT ![r] = @ + 1]
    /\ UNCHANGED <<world, waiting, arrival, pc, cur, crashes>>

SuppressStale(r) ==
    /\ FirstInBatch(r)
    /\ Wanted(r[2])
    /\ r[1] \in old
    /\ status' = [status EXCEPT ![r] = "suppressed_stale"]
    /\ attempts' = [attempts EXCEPT ![r] = @ + 1]
    /\ UNCHANGED <<world, waiting, arrival, pc, cur, crashes>>

Load(r) == pc' = "sending" /\ cur' = r

TakeRow(r) ==
    /\ FirstInBatch(r)
    /\ Wanted(r[2])
    /\ r[1] \notin old
    /\ Load(r)
    /\ UNCHANGED <<world, outbox, crashes>>

EndDrain ==
    /\ pc = "drain"
    /\ batch = {}
    /\ pc' = "idle"
    /\ UNCHANGED <<world, outbox, batch, cur, crashes>>

Arrive == delivered' = [delivered EXCEPT ![cur] = @ + 1]

\* The platform accepts the message.
Send ==
    /\ pc = "sending"
    /\ Arrive
    /\ pc' = "sent"
    /\ UNCHANGED <<old, enabled, outbox, batch, cur, crashes>>

\* Mutant of SendFails: an HTTP error answer raises nothing.
SendFails_Unnoticed ==
    /\ pc = "sending"
    /\ pc' = "sent"
    /\ UNCHANGED <<world, outbox, batch, cur, crashes>>

\* Translating, rendering or posting raises, or the platform refuses.
SendFails ==
    /\ pc = "sending"
    /\ pc' = "failed"
    /\ UNCHANGED <<world, outbox, batch, cur, crashes>>

\* The platform has the message but its answer is lost.
AnswerLost ==
    /\ pc = "sending"
    /\ Arrive
    /\ pc' = "failed"
    /\ UNCHANGED <<old, enabled, outbox, batch, cur, crashes>>

Attempted(r) == attempts[r] + 1

CommitSent ==
    /\ pc = "sent"
    /\ status' = [status EXCEPT ![cur] = "sent"]
    /\ attempts' = [attempts EXCEPT ![cur] = Attempted(cur)]
    /\ pc' = "drain"
    /\ cur' = NoRow
    /\ UNCHANGED <<world, waiting, arrival, batch, crashes>>

CommitFailed ==
    /\ pc = "failed"
    /\ attempts' = [attempts EXCEPT ![cur] = Attempted(cur)]
    /\ \/ /\ Attempted(cur) < MaxRetries
          /\ status' = [status EXCEPT ![cur] = "retry"]
          /\ waiting' = waiting \cup {cur}
       \/ /\ Attempted(cur) >= MaxRetries
          /\ status' = [status EXCEPT ![cur] = "dead"]
          /\ UNCHANGED waiting
    /\ pc' = "drain"
    /\ cur' = NoRow
    /\ UNCHANGED <<world, arrival, batch, crashes>>

\* Reading, decoding and committing are not guarded: when one raises the thread ends.
ThreadDies ==
    /\ pc # "stopped"
    /\ crashes < MaxCrashes
    /\ crashes' = crashes + 1
    /\ pc' = "stopped"
    /\ batch' = {}
    /\ cur' = NoRow
    /\ UNCHANGED <<world, outbox>>

\* The process dies, or is stopped, and is started, perhaps under another configuration.
Restart ==
    /\ \/ pc = "stopped" /\ UNCHANGED crashes
       \/ pc # "stopped" /\ crashes < MaxCrashes /\ crashes' = crashes + 1
    /\ enabled' \in SUBSET (Channels \ {Console})
    /\ pc' = "idle"
    /\ batch' = {}
    /\ cur' = NoRow
    /\ UNCHANGED <<old, delivered, outbox>>

-----------------------------------------------------------------------------
Suppress == \E r \in Rows : SuppressDisabled(r) \/ SuppressStale(r)

Work == StartDrain \/ Suppress \/ (\E r \in Rows : TakeRow(r)) \/ EndDrain
        \/ Send \/ SendFails \/ AnswerLost \/ CommitSent \/ CommitFailed

Next ==
    \/ \E e \in Events : GrowOld(e) \/ Enqueue(e)
    \/ \E r \in Rows : BackoffElapses(r)
    \/ Work
    \/ ThreadDies
    \/ Restart

\* The thread keeps draining and backoffs end; nobody restarts a thread that has died.
Fairness ==
    /\ WF_vars(Work)
    /\ \A r \in Rows : WF_vars(BackoffElapses(r))

Spec == Init /\ [][Next]_vars /\ Fairness

-----------------------------------------------------------------------------
(* Properties.                                                             *)

\* README.md:13: the record that a message was sent is made after the platform has accepted
\* it; no interruption or lost answer leads to a row that is 'sent' and never arrived.
SentWasDelivered == \A r \in Rows : status[r] = "sent" => delivered[r] > 0

\* A message arrives once per counted attempt, except where an interruption fell between its
\* arrival and the commit: the attempts bound the repetitions a reader of the channel sees.
DuplicatesExplained ==
    \A r \in Rows :
        delivered[r] <= attempts[r] + crashes + (IF pc \in {"sent", "failed"} /\ cur = r THEN 1 ELSE 0)

\* The rows and the platforms agree, from both sides: nothing is sent that did not arrive and
\* nothing arrives more often than the rows explain.
DeliveriesExplained == SentWasDelivered /\ DuplicatesExplained

\* What makes both inductive: the message in hand has arrived before its row is committed as
\* sent, and the row in hand and those of the batch are still to be sent.
Pursuit ==
    /\ pc \in InHand => status[cur] \in {"pending", "retry"} /\ cur \notin batch
    /\ pc = "sent" => delivered[cur] > 0
    /\ pc \in InHand => Wanted(cur[2])
    /\ \A r \in batch : status[r] \in {"pending", "retry"}

\* A message that was recorded as sent, given up or suppressed is not sent again, whatever
\* happens to the event's rows for other channels, to the process, or to the configuration.
NeverResent ==
    [][\A r \in Rows : delivered'[r] # delivered[r] => status[r] \in {"pending", "retry"}]_vars

\* A channel that was switched off receives nothing, rows queued before included.
DisabledStaysSilent ==
    [][\A r \in Rows : delivered'[r] # delivered[r] => r[2] \in enabled \cup {Console}]_vars

\* Every stored message is eventually sent, given up or suppressed, as long as the thread
\* lives: a channel that keeps failing holds up neither its own rows nor the others'.
EveryNotificationSettles ==
    \A r \in Rows :
        (status[r] \in {"pending", "retry"}) ~> (status[r] \notin {"pending", "retry"} \/ pc = "stopped")
=============================================================================
