------------------------------ MODULE FastPath ------------------------------
(***************************************************************************)
(* The watcher's main thread (fomo/app.py): signals are stored in a        *)
(* durable inbox, each one is taken through the latency-sensitive copy     *)
(* decision, the paper ledger and the two outboxes, and only then its      *)
(* inbox row is completed.  Every step commits on its own, in one of two   *)
(* SQLite databases, so the process may fail or be killed between any two  *)
(* of them and the row is then processed again from the beginning.         *)
(*                                                                         *)
(* Time is abstracted to what the code compares it with: an event is       *)
(* "fresh" (young enough for the copy gate, 5 s), "recent" (young enough   *)
(* to be notified, 300 s) or "old".                                        *)
(***************************************************************************)
EXTENDS Naturals, FiniteSets

CONSTANTS
    Events,         \* the signals a run may meet, by event id
    NoEvent,        \* the main thread is working on no event
    Kind,           \* what an event is: a "buy", a "sell" or clear, or a "thesis"
    Keys,           \* paper positions: (KOL, chain, token)
    Key,            \* the position an event is about
    Located,        \* events that name a token and a network
    Priced,         \* events that carry an execution price
    SidecarEvents,  \* events read from the sidecar file; the others come by REST
    CopyEnabled,    \* copy_trading.enabled with mode "paper"
    FullExit,       \* portfolio.paper_exit_mode = full_on_first_sell
    StartModes,     \* how the process may be started: TRUE is --once, FALSE the daemon
    BatchLimit,     \* rows one pass takes from the inbox
    MaxRetries,     \* failures after which a row is dead
    MaxCrashes      \* bound: crashes the model explores

ASSUME EventsAssumption ==
    /\ IsFiniteSet(Events)
    /\ NoEvent \notin Events
    /\ Kind \in [Events -> {"buy", "sell", "thesis"}]
    /\ Key \in [Events -> Keys]
    /\ Located \subseteq Events
    /\ Priced \subseteq Events
    /\ SidecarEvents \subseteq Events

ASSUME ConfigAssumption ==
    /\ CopyEnabled \in BOOLEAN
    /\ FullExit \in BOOLEAN
    /\ StartModes \subseteq BOOLEAN
    /\ StartModes # {}
    /\ BatchLimit \in Nat \ {0}
    /\ MaxRetries \in Nat \ {0}
    /\ MaxCrashes \in Nat

VARIABLES
    \* the world
    age,            \* how old an event is
    \* state database
    inbox,          \* event_inbox.status ("absent": no row)
    attempts,       \* event_inbox.attempts
    waiting,        \* rows whose next_attempt_at lies in the future
    arrival,        \* event_inbox.created_at, as a rank
    baselined,      \* ids marked sent by the first REST poll
    initialized,    \* kv account_feed_initialized
    marks,          \* ids with a sent row 'paper:<id>'
    noted,          \* ids with notification_outbox rows
    posted,         \* post_trade_outbox.status
    \* portfolio database
    ledger,         \* portfolio_events.status of an id
    fills,          \* portfolio_fills rows an id has caused
    open,           \* positions that are open
    \* volatile state of the process
    pc,             \* where the main thread is
    once,           \* the process was started with --once
    window,         \* items of the feed answer still to be handled
    batch,          \* rows of the current pass still to be taken
    completed,      \* --once: rows waiting for their analysis
    cur,            \* the event in hand
    decision,       \* the paper decision on it
    \* bound
    crashes

world    == <<age>>
database == <<inbox, attempts, waiting, arrival, baselined, initialized, marks, noted, posted>>
book     == <<ledger, fills, open>>
process  == <<pc, once, window, batch, completed, cur, decision>>
vars     == <<world, database, book, process, crashes>>

Steps == {"decide", "apply", "mark", "notify", "handoff", "analyse", "complete", "advance"}

TypeOK ==
    /\ age \in [Events -> {"fresh", "recent", "old"}]
    /\ inbox \in [Events -> {"absent", "pending", "retry", "done", "dead"}]
    /\ attempts \in [Events -> Nat]
    /\ waiting \subseteq Events
    /\ arrival \in [Events -> Nat]
    /\ baselined \subseteq Events
    /\ initialized \in BOOLEAN
    /\ marks \subseteq Events
    /\ noted \subseteq Events
    /\ posted \in [Events -> {"absent", "pending", "done"}]
    /\ ledger \in [Events -> {"none", "filled", "ignored"}]
    /\ fills \in [Events -> Nat]
    /\ open \subseteq Keys
    /\ pc \in Steps \cup {"top", "feed", "ready", "batch", "post", "exited"}
    /\ once \in BOOLEAN
    /\ window \subseteq Events
    /\ batch \subseteq Events
    /\ completed \subseteq Events
    /\ cur \in Events \cup {NoEvent}
    /\ pc \in Steps => cur \in Events
    /\ decision \in {"none", "accepted", "rejected", "sell_requested", "ignored_sell_policy"}
    /\ crashes \in 0..MaxCrashes

Init ==
    /\ age = [e \in Events |-> "fresh"]
    /\ inbox = [e \in Events |-> "absent"]
    /\ attempts = [e \in Events |-> 0]
    /\ waiting = {}
    /\ arrival = [e \in Events |-> 0]
    /\ baselined = {}
    /\ initialized = FALSE
    /\ marks = {}
    /\ noted = {}
    /\ posted = [e \in Events |-> "absent"]
    /\ ledger = [e \in Events |-> "none"]
    /\ fills = [e \in Events |-> 0]
    /\ open = {}
    /\ pc = "exited"
    /\ once = FALSE
    /\ window = {}
    /\ batch = {}
    /\ completed = {}
    /\ cur = NoEvent
    /\ decision = "none"
    /\ crashes = 0

-----------------------------------------------------------------------------
(* Time.                                                                   *)

GrowOld(e) ==
    /\ \/ age[e] = "fresh"  /\ age' = [age EXCEPT ![e] = "recent"]
       \/ age[e] = "recent" /\ age' = [age EXCEPT ![e] = "old"]
    /\ UNCHANGED <<database, book, process, crashes>>

\* next_attempt_at of a row is reached.
BackoffElapses(e) ==
    /\ e \in waiting
    /\ waiting' = waiting \ {e}
    /\ UNCHANGED <<world, inbox, attempts, arrival, baselined, initialized, marks, noted,
                   posted, book, process, crashes>>

-----------------------------------------------------------------------------
(* Intake: the top of the loop.                                            *)

\* INSERT OR IGNORE: the first report of an id creates the row, later ones do nothing.
Enqueue(e) ==
    IF inbox[e] = "absent"
    THEN /\ inbox' = [inbox EXCEPT ![e] = "pending"]
         /\ arrival' = [arrival EXCEPT ![e] = Cardinality({f \in Events : inbox[f] # "absent"}) + 1]
    ELSE UNCHANGED <<inbox, arrival>>

ReadSidecarLine(e) ==
    /\ pc = "top"
    /\ e \in SidecarEvents
    /\ inbox[e] = "absent"
    /\ Enqueue(e)
    /\ UNCHANGED <<world, attempts, waiting, baselined, initialized, marks, noted, posted,
                   book, process, crashes>>

\* The REST feed answers with some recent events: new ones appear, old ones scroll out.
FetchFeed ==
    /\ pc = "top"
    /\ window' \in SUBSET (Events \ SidecarEvents)
    /\ pc' = "feed"
    /\ UNCHANGED <<world, database, book, once, batch, completed, cur, decision, crashes>>

\* Before the baseline is complete an item is marked sent, afterwards it is enqueued.
FeedItem(e) ==
    /\ pc = "feed"
    /\ e \in window
    /\ window' = window \ {e}
    /\ \/ ~initialized /\ baselined' = baselined \cup {e} /\ UNCHANGED <<inbox, arrival>>
       \/ initialized /\ Enqueue(e) /\ UNCHANGED baselined
    /\ UNCHANGED <<world, attempts, waiting, initialized, marks, noted, posted, book,
                   pc, once, batch, completed, cur, decision, crashes>>

FeedDone ==
    /\ pc = "feed"
    /\ window = {}
    /\ initialized' = TRUE
    /\ pc' = "ready"
    /\ UNCHANGED <<world, inbox, attempts, waiting, arrival, baselined, marks, noted, posted,
                   book, once, window, batch, completed, cur, decision, crashes>>

-----------------------------------------------------------------------------
(* One pass over the inbox.                                                *)

Due == {e \in Events : inbox[e] \in {"pending", "retry"} /\ e \notin waiting}

Before(e, f) == arrival[e] < arrival[f]

\* Mutant of First: the rows are taken in any order.
First_AnyOrder(S) == S

First(S) == {e \in S : \A f \in S : ~Before(f, e)}

\* The oldest due rows; a poll that is not due or fails goes straight to the pass.
StartBatch ==
    /\ pc \in {"top", "ready"}
    /\ batch' = {e \in Due : Cardinality({f \in Due : Before(f, e)}) < BatchLimit}
    /\ completed' = {}
    /\ pc' = "batch"
    /\ UNCHANGED <<world, database, book, once, window, cur, decision, crashes>>

TakeRow(e) ==
    /\ pc = "batch"
    /\ e \in First(batch)
    /\ batch' = batch \ {e}
    /\ cur' = e
    /\ pc' = "decide"
    /\ UNCHANGED <<world, database, book, once, window, completed, decision, crashes>>

\* The whole burst has been handed off; --once now analyses it, the daemon loops.
EndBatch ==
    /\ pc = "batch"
    /\ batch = {}
    /\ pc' = IF once THEN "post" ELSE "top"
    /\ UNCHANGED <<world, database, book, once, window, batch, completed, cur, decision, crashes>>

-----------------------------------------------------------------------------
(* The copy decision (paper_copy_trade).                                   *)

IsTrade(e) == Kind[e] \in {"buy", "sell"}

\* Mutant of NeedsDecision: only the first attempt decides.
NeedsDecision_FirstAttempt(e) ==
    CopyEnabled /\ IsTrade(e) /\ e \notin marks /\ ledger[e] = "none" /\ attempts[e] = 0

\* No decision is made twice, and none when copying is off or the event is no trade.
NeedsDecision(e) ==
    /\ CopyEnabled
    /\ IsTrade(e)
    /\ e \notin marks
    /\ ledger[e] = "none"

\* Mutant of MayBuy: the age gate is dropped.
MayBuy_AnyAge(e) == e \in Located

\* The gates a buy must pass: age, token; the exposure limits may reject it as well.
MayBuy(e) == age[e] = "fresh" /\ e \in Located

PaperDecision(e, d) ==
    \/ /\ ~NeedsDecision(e)
       /\ d = "none"
    \/ /\ NeedsDecision(e)
       /\ Kind[e] = "sell"
       /\ d = IF FullExit THEN "sell_requested" ELSE "ignored_sell_policy"
    \/ /\ NeedsDecision(e)
       /\ Kind[e] = "buy"
       /\ d \in {"accepted", "rejected"}
       /\ d = "accepted" => MayBuy(e)

Decide ==
    /\ pc = "decide"
    /\ \E d \in {"none", "accepted", "rejected", "sell_requested", "ignored_sell_policy"} :
          PaperDecision(cur, d) /\ decision' = d
    /\ pc' = "apply"
    /\ UNCHANGED <<world, database, book, once, window, batch, completed, cur, crashes>>

-----------------------------------------------------------------------------
(* The ledger transaction (PortfolioLedger.apply_event).                   *)

\* Only trades with a token are recorded, and an id is recorded once.
IsNewToLedger(e) == IsTrade(e) /\ e \in Located /\ ledger[e] = "none"

\* What the ledger executes.  A sell without a decision (copying is off) sells everything.
Executes(e) ==
    /\ e \in Priced
    /\ \/ Kind[e] = "buy"  /\ decision = "accepted"
       \/ Kind[e] = "sell" /\ Key[e] \in open /\ decision \in {"none", "sell_requested"}

\* Mutant of EventRow: the row of a fill is left to a transaction of its own.
EventRow_Later(e, status) == ledger' = IF status = "filled" THEN ledger ELSE [ledger EXCEPT ![e] = status]

\* The row that makes the id known is committed with the fill.
EventRow(e, status) == ledger' = [ledger EXCEPT ![e] = status]

Apply ==
    /\ pc = "apply"
    /\ \/ /\ ~IsNewToLedger(cur)
          /\ UNCHANGED book
       \/ /\ IsNewToLedger(cur)
          /\ Executes(cur)
          /\ EventRow(cur, "filled")
          /\ fills' = [fills EXCEPT ![cur] = @ + 1]
          /\ open' = IF Kind[cur] = "buy" THEN open \cup {Key[cur]} ELSE open \ {Key[cur]}
       \/ /\ IsNewToLedger(cur)
          /\ ~Executes(cur)
          /\ EventRow(cur, "ignored")
          /\ UNCHANGED <<fills, open>>
    /\ pc' = "mark"
    /\ UNCHANGED <<world, database, once, window, batch, completed, cur, decision, crashes>>

\* The market monitor's exit rules close a position on their own thread.
MonitorExit(k) ==
    /\ pc # "exited"
    /\ ~once
    /\ k \in open
    /\ open' = open \ {k}
    /\ UNCHANGED <<world, database, ledger, fills, process, crashes>>

-----------------------------------------------------------------------------
(* Marks, outboxes and completion.                                         *)

MarkDecision ==
    /\ pc = "mark"
    /\ marks' = IF decision = "none" THEN marks ELSE marks \cup {cur}
    /\ pc' = "notify"
    /\ UNCHANGED <<world, inbox, attempts, waiting, arrival, baselined, initialized, noted,
                   posted, book, once, window, batch, completed, cur, decision, crashes>>

WorthANotice(e) == age[e] # "old"

\* One row per channel in one transaction; nothing for an event older than 300 s.
Notify ==
    /\ pc = "notify"
    /\ noted' = IF WorthANotice(cur) THEN noted \cup {cur} ELSE noted
    /\ pc' = "handoff"
    /\ UNCHANGED <<world, inbox, attempts, waiting, arrival, baselined, initialized, marks,
                   posted, book, once, window, batch, completed, cur, decision, crashes>>

\* The analysis is handed to the outbox; --once keeps the row for its second phase.
HandOff ==
    /\ pc = "handoff"
    /\ posted' = [posted EXCEPT ![cur] = IF @ = "absent" THEN "pending" ELSE @]
    /\ decision' = "none"
    /\ \/ ~once /\ pc' = "complete" /\ UNCHANGED <<completed, cur>>
       \/ once /\ pc' = "batch" /\ completed' = completed \cup {cur} /\ cur' = NoEvent
    /\ UNCHANGED <<world, inbox, attempts, waiting, arrival, baselined, initialized, marks,
                   noted, book, once, window, batch, crashes>>

TakeCompleted(e) ==
    /\ pc = "post"
    /\ e \in First(completed)
    /\ completed' = completed \ {e}
    /\ cur' = e
    /\ pc' = "analyse"
    /\ UNCHANGED <<world, database, book, once, window, batch, decision, crashes>>

\* --once: the analysis runs in line and completes its outbox row.
Analyse ==
    /\ pc = "analyse"
    /\ posted' = [posted EXCEPT ![cur] = "done"]
    /\ pc' = "complete"
    /\ UNCHANGED <<world, inbox, attempts, waiting, arrival, baselined, initialized, marks,
                   noted, book, once, window, batch, completed, cur, decision, crashes>>

NextRow == IF once THEN "post" ELSE "batch"

\* complete_event commits 'done'; a sidecar row then advances the committed offset.
Complete ==
    /\ pc = "complete"
    /\ inbox' = [inbox EXCEPT ![cur] = "done"]
    /\ \/ cur \in SidecarEvents /\ pc' = "advance" /\ UNCHANGED cur
       \/ cur \notin SidecarEvents /\ pc' = NextRow /\ cur' = NoEvent
    /\ UNCHANGED <<world, attempts, waiting, arrival, baselined, initialized, marks, noted,
                   posted, book, once, window, batch, completed, decision, crashes>>

AdvanceOffset ==
    /\ pc = "advance"
    /\ pc' = NextRow
    /\ cur' = NoEvent
    /\ UNCHANGED <<world, database, book, once, window, batch, completed, decision, crashes>>

EndPost ==
    /\ pc = "post"
    /\ completed = {}
    /\ pc' = "exited"
    /\ UNCHANGED <<world, database, book, once, window, batch, completed, cur, decision, crashes>>

\* Mutant of Failures: the failure is not counted.
Failures_NotCounted(e) == attempts[e]

\* The failures of a row, the present one included.
Failures(e) == attempts[e] + 1

\* Any step on a row may raise before it commits: the row is kept for a retry, or is dead.
\* A failed cursor advance does this to a row that is already done.
FailRow ==
    /\ pc \in Steps
    /\ attempts' = [attempts EXCEPT ![cur] = Failures(cur)]
    /\ \/ /\ Failures(cur) < MaxRetries
          /\ inbox' = [inbox EXCEPT ![cur] = "retry"]
          /\ waiting' = waiting \cup {cur}
       \/ /\ Failures(cur) >= MaxRetries
          /\ inbox' = [inbox EXCEPT ![cur] = "dead"]
          /\ UNCHANGED waiting
    /\ pc' = IF once /\ pc \in {"analyse", "complete", "advance"} THEN "post" ELSE "batch"
    /\ cur' = NoEvent
    /\ decision' = "none"
    /\ UNCHANGED <<world, arrival, baselined, initialized, marks, noted, posted, book, once,
                   window, batch, completed, crashes>>

-----------------------------------------------------------------------------
(* The rest of the process.                                                *)

Boot ==
    /\ pc = "exited"
    /\ pc' = "top"
    /\ once' \in StartModes
    /\ UNCHANGED <<world, database, book, window, batch, completed, cur, decision, crashes>>

\* The process dies: everything that is not in a database is gone.
Crash ==
    /\ pc # "exited"
    /\ crashes < MaxCrashes
    /\ crashes' = crashes + 1
    /\ pc' = "exited"
    /\ window' = {}
    /\ batch' = {}
    /\ completed' = {}
    /\ cur' = NoEvent
    /\ decision' = "none"
    /\ UNCHANGED <<world, database, book, once>>

-----------------------------------------------------------------------------
RowStep == Decide \/ Apply \/ MarkDecision \/ Notify \/ HandOff \/ Analyse
           \/ Complete \/ AdvanceOffset

LoopStep == FetchFeed \/ FeedDone \/ StartBatch \/ EndBatch \/ EndPost
            \/ \E e \in Events : FeedItem(e) \/ TakeRow(e) \/ TakeCompleted(e)

Next ==
    \/ \E e \in Events : GrowOld(e) \/ BackoffElapses(e) \/ ReadSidecarLine(e)
    \/ \E k \in Keys : MonitorExit(k)
    \/ RowStep
    \/ LoopStep
    \/ FailRow
    \/ Boot
    \/ Crash

\* The loop runs forever, backoffs end, and a process that stopped is started again.
Fairness ==
    /\ WF_vars(RowStep \/ LoopStep \/ FailRow)
    /\ WF_vars(Boot)
    /\ \A e \in Events : WF_vars(BackoffElapses(e))

Spec == Init /\ [][Next]_vars /\ Fairness

-----------------------------------------------------------------------------
(* Properties.                                                             *)

\* One signal moves the paper book at most once, however often its row is retried after a
\* failure or a crash between the ledger commit and the inbox commit.
AtMostOneFill == \A e \in Events : fills[e] <= 1

\* The 'paper:' mark is never durable before the ledger's own record of the event: a retry
\* that saw the mark alone would skip the decision and then apply the event undecided.
MarkFollowsLedger == \A e \in marks : e \in Located => ledger[e] # "none"

Recorded(e)  == IsTrade(e) /\ e \in Located => ledger[e] # "none"
Announced(e) == e \in noted \/ age[e] = "old"
HandedOff(e) == posted[e] # "absent"

\* A row is completed only when nothing is left to do for its event: the ledger has it if it
\* is a trade, the analysis outbox has it, and the notification outbox has it unless the
\* event was already too old to be worth a message.
DoneIsComplete ==
    \A e \in Events : inbox[e] = "done" => Recorded(e) /\ Announced(e) /\ HandedOff(e)

\* The five databases tell one story of an event, whatever interrupted its handling: it moved
\* the book once, is not marked before it did, and is not done before everything is.
DatabasesAgree == AtMostOneFill /\ MarkFollowsLedger /\ DoneIsComplete

\* What makes the three invariants inductive: the ledger row is what a fill is counted by, a
\* decision belongs to the trade in hand, and how far the thread has come with a row says
\* which databases already know its event.
Progress ==
    /\ \A e \in Events : fills[e] = IF ledger[e] = "filled" THEN 1 ELSE 0
    /\ decision # "none" => pc \in {"apply", "mark", "notify", "handoff"} /\ IsTrade(cur)
    /\ pc = "apply" /\ CopyEnabled /\ IsNewToLedger(cur) => decision # "none"
    /\ \A e \in marks : IsTrade(e) /\ Recorded(e)
    /\ pc \in Steps \ {"decide", "apply"} => Recorded(cur)
    /\ pc \in {"handoff", "analyse", "complete", "advance"} => Announced(cur)
    /\ pc \in {"analyse", "complete", "advance"} => HandedOff(cur)
    /\ \A e \in completed : Recorded(e) /\ Announced(e) /\ HandedOff(e)

\* With copying enabled no sell is executed undecided, in particular not when its row is
\* retried: an undecided sell liquidates the whole position.
NoUndecidedSell ==
    [][\A e \in Events : CopyEnabled /\ Kind[e] = "sell" /\ fills'[e] # fills[e]
          => cur = e /\ decision = "sell_requested"]_vars

\* A buy that is stale and not in the thread's hand stays unexecuted forever: neither a retry
\* nor a restart can execute a signal the copy gate would now refuse.
StaleNeverBought ==
    \A e \in Events : Kind[e] = "buy" =>
        []((age[e] # "fresh" /\ cur # e /\ ledger[e] # "filled")
           => [](ledger[e] # "filled"))

\* Arrival priority: no event is taken while one that arrived before it has not had its
\* first attempt, whatever retries, batches and crashes came before.
ArrivalPriority ==
    [][\A e \in Events : pc = "batch" /\ pc' = "decide" /\ cur' = e
          => \A f \in Events : Before(f, e) /\ inbox[f] = "pending" => f \in completed]_vars

\* Every stored signal is eventually completed or given up: no failure, crash or backlog
\* leaves a row behind forever.
EverySignalSettles ==
    \A e \in Events : (inbox[e] \in {"pending", "retry"}) ~> (inbox[e] \in {"done", "dead"})

\* No run checks this one, which TLC refutes (README.md, section 5).
\* README.md: the first start only builds a baseline, so that history is not taken for
\* new messages.  An item that was baselined is never notified.
BaselineNeverNotified == baselined \cap noted = {}
=============================================================================
