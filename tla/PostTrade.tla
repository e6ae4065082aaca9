----------------------------- MODULE PostTrade -----------------------------
(***************************************************************************)
(* The analysis outbox (fomo/app.py): every signal the fast path hands off *)
(* is taken through four steps, profile, risk, journal and risk audit, by  *)
(* the worker thread of the daemon or in line by a --once process.  A step *)
(* is an effect on another store followed by its mark in the state         *)
(* database; only the risk step commits both in one transaction.  The row  *)
(* may fail, and the process may die, between any two commits; the next    *)
(* attempt skips the steps that are marked.                                *)
(***************************************************************************)
EXTENDS Naturals, FiniteSets

CONSTANTS
    Events,         \* the signals handed off
    NoEvent,        \* the thread works on no row
    Verdicts,       \* what the risk engine may say of a trade
    Trades,         \* events the risk engine has a verdict on; it has none on the others
    BatchLimit,     \* rows one drain takes
    MaxRetries,     \* failures after which a row is dead
    MaxCrashes,     \* bound: crashes, of the process or of the thread, the model explores
    MaxInline       \* bound: rows the model lets --once processes take

ASSUME PostTradeAssumption ==
    /\ IsFiniteSet(Events)
    /\ NoEvent \notin Events
    /\ Trades \subseteq Events
    /\ "none" \notin Verdicts
    /\ BatchLimit \in Nat \ {0}
    /\ MaxRetries \in Nat \ {0}
    /\ MaxCrashes \in Nat
    /\ MaxInline \in Nat

VARIABLES
    \* state database
    status,         \* post_trade_outbox.status ("absent": no row)
    attempts,       \* post_trade_outbox.attempts
    waiting,        \* rows whose next_attempt_at lies in the future
    arrival,        \* post_trade_outbox.created_at, as a rank
    marked,         \* steps of an event whose post_trade_steps row is 'done'
    verdict,        \* risk_decisions and the payload of the risk step
    \* other stores
    profiled,       \* events in the wallet-intelligence database
    journal,        \* execution_intents: the verdict the intent was recorded with
    audit,          \* lines in risk-decisions.ndjson
    audited,        \* the verdicts on those lines
    \* volatile
    step,           \* the step in hand
    phase,          \* before its "effect" or before its "mark"
    batch,          \* rows of the current drain still to be taken
    cur,            \* the event in hand
    inline,         \* a --once process works on it
    opinion,        \* risk_decision in memory
    \* bounds
    crashes,
    inlined

outbox  == <<status, attempts, waiting, arrival>>
results == <<marked, verdict, profiled, journal, audit, audited>>
thread  == <<step, phase, batch, cur, inline, opinion>>
vars    == <<outbox, results, thread, crashes, inlined>>

Steps == {"intelligence", "risk", "journal", "risk_audit"}

\* The step that follows, and where a row ends.
After == [s \in Steps |->
            CASE s = "intelligence" -> "risk"
              [] s = "risk"         -> "journal"
              [] s = "journal"      -> "risk_audit"
              [] s = "risk_audit"   -> "complete"]

TypeOK ==
    /\ status \in [Events -> {"absent", "pending", "retry", "done", "dead"}]
    /\ attempts \in [Events -> Nat]
    /\ waiting \subseteq Events
    /\ arrival \in [Events -> Nat]
    /\ marked \in [Events -> SUBSET Steps]
    /\ verdict \in [Events -> Verdicts \cup {"none"}]
    /\ profiled \subseteq Events
    /\ journal \in [Events -> Verdicts \cup {"none"}]
    /\ audit \in [Events -> Nat]
    /\ audited \in [Events -> SUBSET Verdicts]
    /\ step \in Steps \cup {"idle", "drain", "complete", "stopped"}
    /\ phase \in {"effect", "mark"}
    /\ batch \subseteq Events
    /\ cur \in Events \cup {NoEvent}
    /\ step \in Steps \cup {"complete"} => cur \in Events
    /\ inline \in BOOLEAN
    /\ opinion \in Verdicts \cup {"none"}
    /\ crashes \in 0..MaxCrashes
    /\ inlined \in 0..MaxInline

Init ==
    /\ status = [e \in Events |-> "absent"]
    /\ attempts = [e \in Events |-> 0]
    /\ waiting = {}
    /\ arrival = [e \in Events |-> 0]
    /\ marked = [e \in Events |-> {}]
    /\ verdict = [e \in Events |-> "none"]
    /\ profiled = {}
    /\ journal = [e \in Events |-> "none"]
    /\ audit = [e \in Events |-> 0]
    /\ audited = [e \in Events |-> {}]
    /\ step = "idle"
    /\ phase = "effect"
    /\ batch = {}
    /\ cur = NoEvent
    /\ inline = FALSE
    /\ opinion = "none"
    /\ crashes = 0
    /\ inlined = 0

-----------------------------------------------------------------------------
(* The queue.                                                              *)

\* The fast path hands an event off; a second hand-off is ignored.
HandOff(e) ==
    /\ status[e] = "absent"
    /\ status' = [status EXCEPT ![e] = "pending"]
    /\ arrival' = [arrival EXCEPT ![e] = Cardinality({f \in Events : status[f] # "absent"}) + 1]
    /\ UNCHANGED <<attempts, waiting, results, thread, crashes, inlined>>

BackoffElapses(e) ==
    /\ e \in waiting
    /\ waiting' = waiting \ {e}
    /\ UNCHANGED <<status, attempts, arrival, results, thread, crashes, inlined>>

\* Mutant of Due: rows to be retried are not read.
Due_PendingOnly == {e \in Events : status[e] = "pending" /\ e \notin waiting}

Due == {e \in Events : status[e] \in {"pending", "retry"} /\ e \notin waiting}

Before(e, f) == arrival[e] < arrival[f]

\* The worker reads its oldest due rows.
StartDrain ==
    /\ step = "idle"
    /\ batch' = {e \in Due : Cardinality({f \in Due : Before(f, e)}) < BatchLimit}
    /\ step' = "drain"
    /\ UNCHANGED <<outbox, results, phase, cur, inline, opinion, crashes, inlined>>

Take(e) ==
    /\ step' = "intelligence"
    /\ phase' = "effect"
    /\ cur' = e
    /\ opinion' = "none"

TakeRow(e) ==
    /\ step = "drain"
    /\ e \in batch
    /\ \A f \in batch : ~Before(f, e)
    /\ batch' = batch \ {e}
    /\ Take(e)
    /\ UNCHANGED <<outbox, results, inline, crashes, inlined>>

EndDrain ==
    /\ step = "drain"
    /\ batch = {}
    /\ step' = "idle"
    /\ UNCHANGED <<outbox, results, phase, batch, cur, inline, opinion, crashes, inlined>>

\* A --once process, which runs instead of the daemon, analyses a row it has handed off.
TakeInline(e) ==
    /\ step = "idle"
    /\ inlined < MaxInline
    /\ inlined' = inlined + 1
    /\ status[e] # "absent"
    /\ inline' = TRUE
    /\ Take(e)
    /\ UNCHANGED <<outbox, results, batch, crashes>>

-----------------------------------------------------------------------------
(* The steps of process_post_trade_event.                                  *)

ToMark == phase' = "mark" /\ UNCHANGED <<step, cur, batch, inline>>

ToNext == step' = After[step] /\ phase' = "effect" /\ UNCHANGED <<cur, batch, inline>>

Resumed == IF step = "risk" THEN verdict[cur] ELSE opinion

\* A marked step is skipped; that of the risk step yields the stored decision.
SkipStep ==
    /\ step \in Steps
    /\ phase = "effect"
    /\ step \in marked[cur]
    /\ opinion' = Resumed
    /\ ToNext
    /\ UNCHANGED <<outbox, results, crashes, inlined>>

Begin(s) == step = s /\ phase = "effect" /\ s \notin marked[cur]

\* The profile ignores an event it already has.
Profile ==
    /\ Begin("intelligence")
    /\ profiled' = profiled \cup {cur}
    /\ ToMark
    /\ UNCHANGED <<outbox, marked, verdict, journal, audit, audited, opinion, crashes, inlined>>

\* The verdict depends on the exposure and on a policy that is reloaded when its file changes.
Evaluate ==
    /\ Begin("risk")
    /\ \E v \in IF cur \in Trades THEN Verdicts ELSE {"none"} : opinion' = v
    /\ ToMark
    /\ UNCHANGED <<outbox, results, crashes, inlined>>

\* The journal keeps the first intent of an event.
Journal ==
    /\ Begin("journal")
    /\ journal' = IF opinion # "none" /\ journal[cur] = "none"
                  THEN [journal EXCEPT ![cur] = opinion]
                  ELSE journal
    /\ ToMark
    /\ UNCHANGED <<outbox, marked, verdict, profiled, audit, audited, opinion, crashes, inlined>>

\* A line is appended for every call with a decision.
AppendAudit ==
    /\ Begin("risk_audit")
    /\ IF opinion # "none"
       THEN /\ audit' = [audit EXCEPT ![cur] = @ + 1]
            /\ audited' = [audited EXCEPT ![cur] = @ \cup {opinion}]
       ELSE UNCHANGED <<audit, audited>>
    /\ ToMark
    /\ UNCHANGED <<outbox, marked, verdict, profiled, journal, opinion, crashes, inlined>>

\* Mutant of RiskCommit: the step is marked, the decision is not stored with it.
RiskCommit_MarkOnly == verdict

\* complete_risk_step stores the decision in the transaction that marks the step.
RiskCommit == IF step = "risk" THEN [verdict EXCEPT ![cur] = opinion] ELSE verdict

MarkStep ==
    /\ step \in Steps
    /\ phase = "mark"
    /\ marked' = [marked EXCEPT ![cur] = @ \cup {step}]
    /\ verdict' = RiskCommit
    /\ ToNext
    /\ UNCHANGED <<outbox, profiled, journal, audit, audited, opinion, crashes, inlined>>

-----------------------------------------------------------------------------
(* The end of a row.                                                       *)

Release ==
    /\ step' = IF inline THEN "idle" ELSE "drain"
    /\ phase' = "effect"
    /\ cur' = NoEvent
    /\ inline' = FALSE
    /\ opinion' = "none"
    /\ UNCHANGED batch

CompleteRow ==
    /\ step = "complete"
    /\ status' = [status EXCEPT ![cur] = "done"]
    /\ Release
    /\ UNCHANGED <<attempts, waiting, arrival, results, crashes, inlined>>

\* Mutant of Failures: the failure is not counted.
Failures_NotCounted(e) == attempts[e]

Failures(e) == attempts[e] + 1

\* An effect or a mark raises: the worker schedules a retry or gives the row up.
FailRow ==
    /\ step \in Steps
    /\ ~inline
    /\ attempts' = [attempts EXCEPT ![cur] = Failures(cur)]
    /\ \/ /\ Failures(cur) < MaxRetries
          /\ status' = [status EXCEPT ![cur] = "retry"]
          /\ waiting' = waiting \cup {cur}
       \/ /\ Failures(cur) >= MaxRetries
          /\ status' = [status EXCEPT ![cur] = "dead"]
          /\ UNCHANGED waiting
    /\ Release
    /\ UNCHANGED <<arrival, results, crashes, inlined>>

\* In line a failure is counted against the inbox row (module FastPath), not here.
FailInline ==
    /\ step \in Steps \cup {"complete"}
    /\ inline
    /\ Release
    /\ UNCHANGED <<outbox, results, crashes, inlined>>

\* The worker's own reads and writes of the outbox are not guarded: when one raises, or a row
\* cannot be decoded, the thread ends while the process goes on without it.
ThreadDies ==
    /\ step # "stopped"
    /\ ~inline
    /\ crashes < MaxCrashes
    /\ crashes' = crashes + 1
    /\ step' = "stopped"
    /\ phase' = "effect"
    /\ batch' = {}
    /\ cur' = NoEvent
    /\ opinion' = "none"
    /\ UNCHANGED <<outbox, results, inline, inlined>>

\* The process dies, or is stopped, and is started again, perhaps because its thread had ended.
Restart ==
    /\ \/ step = "stopped" /\ UNCHANGED crashes
       \/ step # "stopped" /\ crashes < MaxCrashes /\ crashes' = crashes + 1
    /\ step' = "idle"
    /\ phase' = "effect"
    /\ batch' = {}
    /\ cur' = NoEvent
    /\ inline' = FALSE
    /\ opinion' = "none"
    /\ UNCHANGED <<outbox, results, inlined>>

-----------------------------------------------------------------------------
Effect == Profile \/ Evaluate \/ Journal \/ AppendAudit

Work == SkipStep \/ Effect \/ MarkStep \/ CompleteRow \/ FailRow \/ FailInline
        \/ StartDrain \/ EndDrain \/ \E e \in Events : TakeRow(e)

Next ==
    \/ \E e \in Events : HandOff(e) \/ BackoffElapses(e) \/ TakeInline(e)
    \/ Work
    \/ ThreadDies
    \/ Restart

\* The thread keeps draining and backoffs end; nobody restarts a thread that has died.
Fairness ==
    /\ WF_vars(Work)
    /\ \A e \in Events : WF_vars(BackoffElapses(e))

Spec == Init /\ [][Next]_vars /\ Fairness

-----------------------------------------------------------------------------
(* Properties.                                                             *)

\* All records of an event's risk decision agree: whatever is in the journal or on an audit
\* line is the decision stored with the risk step, although an attempt that was cut short
\* may have evaluated the event differently.
OneVerdict ==
    \A e \in Events :
        /\ journal[e] \in {"none", verdict[e]}
        /\ audited[e] \subseteq {verdict[e]}

\* A completed row has had all four steps, with their effects, in whatever attempts, threads
\* and processes they were done.
DoneIsAnalysed ==
    \A e \in Events : status[e] = "done" =>
        /\ marked[e] = Steps
        /\ e \in profiled
        /\ e \in Trades => journal[e] # "none" /\ journal[e] = verdict[e] /\ audit[e] > 0

\* An analysis is one piece although its attempts are not: every record of an event carries
\* one verdict, and a completed row has had all of it.
AnalysisIsWhole == OneVerdict /\ DoneIsAnalysed

\* What makes OneVerdict and DoneIsAnalysed inductive.  A mark vouches for its effect and for
\* the marks before it; ahead of the risk mark no store knows of a decision.
Marks ==
    \A e \in Events :
        /\ "risk" \in marked[e] => "intelligence" \in marked[e]
        /\ "journal" \in marked[e] => "risk" \in marked[e]
        /\ "risk_audit" \in marked[e] => "journal" \in marked[e]
        /\ "intelligence" \in marked[e] => e \in profiled
        /\ "risk" \in marked[e] /\ e \in Trades => verdict[e] # "none"
        /\ "risk" \notin marked[e] =>
              verdict[e] = "none" /\ journal[e] = "none" /\ audited[e] = {}
        /\ "journal" \in marked[e] => journal[e] = verdict[e]
        /\ "risk_audit" \in marked[e] /\ verdict[e] # "none" => audit[e] > 0

\* The row in hand: the steps behind the thread are marked, the one whose mark is due has
\* taken effect, and past the risk step the thread holds the stored decision.
InHand ==
    /\ phase = "mark" => step \in Steps
    /\ step \in {"risk", "journal", "risk_audit", "complete"} => "intelligence" \in marked[cur]
    /\ step \in {"journal", "risk_audit", "complete"} =>
          "risk" \in marked[cur] /\ opinion = verdict[cur]
    /\ step \in {"risk_audit", "complete"} => "journal" \in marked[cur]
    /\ step = "complete" => "risk_audit" \in marked[cur]
    /\ phase = "mark" => step \notin marked[cur]
    /\ phase = "mark" /\ step = "intelligence" => cur \in profiled
    /\ phase = "mark" /\ step = "risk" /\ cur \in Trades => opinion # "none"
    /\ phase = "mark" /\ step = "journal" => journal[cur] = opinion
    /\ phase = "mark" /\ step = "risk_audit" /\ opinion # "none" => audit[cur] > 0

\* The decision stored for an event never changes, so that a consumer may have acted on it.
VerdictIsFinal ==
    [][\A e \in Events : verdict[e] # "none" => verdict'[e] = verdict[e]]_vars

\* An extra audit line is the trace of an attempt that ended between the line and its mark.
AuditRepeatsExplained == \A e \in Events : audit[e] <= 1 + attempts[e] + crashes + inlined

\* Every hand-off is eventually analysed or given up, as long as the worker thread lives.
EveryHandOffSettles ==
    \A e \in Events :
        (status[e] \in {"pending", "retry"}) ~> (status[e] \in {"done", "dead"} \/ step = "stopped")

\* No run checks this one, which TLC refutes (README.md, section 5).
\* app.py:1260 calls the steps "restart-safe, independently idempotent": then the audit
\* archive holds a decision once.
AuditedOnce == \A e \in Events : audit[e] <= 1
=============================================================================
