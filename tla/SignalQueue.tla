----------------------------- MODULE SignalQueue -----------------------------
(***************************************************************************)
(* The durable queue between the signal sources and the execution service: *)
(* DurableSignalQueue, shared by the Node push ingress and the wallet      *)
(* bridge, and the ExecutionService that consumes it.                      *)
(*                                                                         *)
(* A step is one transaction of the queue or of the journal.  Leases end   *)
(* when the clock says so, whatever their owner is doing.  run_forever     *)
(* ends at the first exception, so that a service that raises is a dead    *)
(* process: its lock and its claims stay behind until their leases end,    *)
(* and the process that is started in its place has a new owner id.  The   *)
(* executor is reduced to its two commits that the queue's rows depend on, *)
(* the reservation and the broadcast attempt; module Execution has it all. *)
(***************************************************************************)
EXTENDS Integers, Sequences

CONSTANTS
    Signals,        \* source-namespaced signal ids
    Services,       \* processes that run an ExecutionService
    Nobody,         \* no owner: free, or the lease has ended
    Gone,           \* the owner id of a process that is dead
    NoSignal,
    LiveArmed,      \* execution_control.live_armed
    MaxMishaps      \* bound: deaths of a service, and leases that end under a live one

ASSUME SignalQueueAssumption ==
    /\ Nobody \notin Services /\ Gone \notin Services /\ Gone # Nobody
    /\ NoSignal \notin Signals
    /\ LiveArmed \in BOOLEAN
    /\ MaxMishaps \in Nat

VARIABLES
    rows,           \* the signals of the table in the order of their sequence numbers
    status,         \* of a row
    claimant,       \* whose unexpired lease is on the row
    lock,           \* whose unexpired lease is on the service lock
    fenced,         \* journal: signals whose source was reorged
    breaker,        \* journal: the circuit breaker is tripped
    recorded,       \* journal: signals with an execution job
    attempted,      \* journal: signals whose broadcast attempt is committed
    step,           \* what the service does next
    cur,            \* the signal it is at
    verdict,        \* the terminal status it has decided on
    mishaps

table   == <<rows, status, claimant, lock>>
journal == <<fenced, breaker, recorded, attempted>>
service == <<step, cur, verdict>>
qvars   == <<table, journal, service, mishaps>>

Terminal == {"processed", "dropped", "blocked"}
Owners   == Services \cup {Nobody, Gone}

QTypeOK ==
    /\ rows \in Seq(Signals)
    /\ \A m, n \in DOMAIN rows : rows[m] = rows[n] => m = n
    /\ status \in [Signals -> Terminal \cup {"absent", "queued", "claimed"}]
    /\ \A i \in Signals : status[i] # "absent" <=> \E n \in DOMAIN rows : rows[n] = i
    /\ claimant \in [Signals -> Owners]
    /\ \A i \in Signals : claimant[i] # Nobody => status[i] = "claimed"
    /\ lock \in Owners
    /\ fenced \subseteq Signals /\ breaker \in BOOLEAN
    /\ recorded \subseteq Signals /\ attempted \subseteq Signals
    /\ step \in [Services -> {"idle", "claim", "check", "control", "reserve", "submit", "finish"}]
    /\ cur \in [Services -> Signals \cup {NoSignal}]
    /\ verdict \in [Services -> Terminal \cup {"none"}]
    /\ \A s \in Services :
          /\ cur[s] = NoSignal <=> step[s] \in {"idle", "claim"}
          /\ verdict[s] = "none" <=> step[s] # "finish"
    /\ mishaps \in 0..MaxMishaps

QInit ==
    /\ rows = <<>>
    /\ status = [i \in Signals |-> "absent"]
    /\ claimant = [i \in Signals |-> Nobody]
    /\ lock = Nobody
    /\ fenced = {} /\ breaker = FALSE /\ recorded = {} /\ attempted = {}
    /\ step = [s \in Services |-> "idle"]
    /\ cur = [s \in Services |-> NoSignal]
    /\ verdict = [s \in Services |-> "none"]
    /\ mishaps = 0

-----------------------------------------------------------------------------
(* The sources.                                                            *)

\* INSERT OR IGNORE: a signal that is in the table already, in whatever status, stays as it is.
Enqueue(i) ==
    /\ IF status[i] = "absent"
       THEN rows' = Append(rows, i) /\ status' = [status EXCEPT ![i] = "queued"]
       ELSE UNCHANGED <<rows, status>>
    /\ UNCHANGED <<claimant, lock>>

\* Only a row that nobody has claimed is cancelled.
CancelReorged(i) ==
    /\ status' = [status EXCEPT ![i] = IF @ = "queued" THEN "dropped" ELSE @]
    /\ UNCHANGED <<rows, claimant, lock>>

RecordSourceReorg(i) ==
    /\ fenced' = fenced \cup {i}
    /\ breaker' = TRUE
    /\ UNCHANGED <<recorded, attempted>>

-----------------------------------------------------------------------------
(* The leases.                                                             *)

Mishap == mishaps < MaxMishaps /\ mishaps' = mishaps + 1

\* The lock of a dead process, or of one that is slower than its lease.
LockExpires ==
    /\ lock # Nobody
    /\ lock' = Nobody
    /\ IF lock = Gone THEN UNCHANGED mishaps ELSE Mishap
    /\ UNCHANGED <<rows, status, claimant, journal, service>>

\* A claim is taken after the lock is renewed and for as long: it never ends first.
ClaimExpires(i) ==
    /\ claimant[i] # Nobody
    /\ claimant[i] \in Services => lock # claimant[i]
    /\ claimant' = [claimant EXCEPT ![i] = Nobody]
    /\ UNCHANGED <<rows, status, lock, journal, service, mishaps>>

-----------------------------------------------------------------------------
(* The service.                                                            *)

Goto(s, next) ==
    /\ step' = [step EXCEPT ![s] = next]
    /\ UNCHANGED <<cur, verdict>>

Decide(s, decision) ==
    /\ step' = [step EXCEPT ![s] = "finish"]
    /\ verdict' = [verdict EXCEPT ![s] = decision]
    /\ UNCHANGED cur

LetGo(s) ==
    /\ step' = [step EXCEPT ![s] = "idle"]
    /\ cur' = [cur EXCEPT ![s] = NoSignal]
    /\ verdict' = [verdict EXCEPT ![s] = "none"]

\* The process ends: run_forever catches no exception.
Raise(s) ==
    /\ LetGo(s)
    /\ lock' = IF lock = s THEN Gone ELSE lock
    /\ claimant' = [i \in Signals |-> IF claimant[i] = s THEN Gone ELSE claimant[i]]
    /\ UNCHANGED <<rows, status>>

\* It is killed, or a call of it fails.
Die(s) ==
    /\ step[s] # "idle"
    /\ Mishap
    /\ Raise(s)
    /\ UNCHANGED journal

\* A service that finds another's lease raises, to no effect.
AcquireService(s) ==
    /\ step[s] = "idle"
    /\ lock \in {Nobody, s}
    /\ lock' = s
    /\ Goto(s, "claim")
    /\ UNCHANGED <<rows, status, claimant, journal>>

\* Mutant of Claimable: a row that was claimed once is never handed out again.
Claimable_Once(i) == status[i] = "queued"

\* Queued, or claimed by somebody whose lease has ended.
Claimable(i) == status[i] = "queued" \/ (status[i] = "claimed" /\ claimant[i] = Nobody)

\* The first claimable row; without the lock it raises.
Claim(s) ==
    /\ step[s] = "claim"
    /\ \/ lock # s /\ Raise(s)
       \/ lock = s /\ (\A i \in Signals : ~Claimable(i)) /\ LetGo(s) /\ UNCHANGED table
       \/ \E n \in DOMAIN rows :
             /\ lock = s
             /\ Claimable(rows[n]) /\ \A m \in 1..(n - 1) : ~Claimable(rows[m])
             /\ status' = [status EXCEPT ![rows[n]] = "claimed"]
             /\ claimant' = [claimant EXCEPT ![rows[n]] = s]
             /\ cur' = [cur EXCEPT ![s] = rows[n]]
             /\ step' = [step EXCEPT ![s] = "check"]
             /\ UNCHANGED <<rows, lock, verdict>>
    /\ UNCHANGED journal

\* An invalid, late or rejected signal is dropped, and one whose source was reorged.
Check(s) ==
    /\ step[s] = "check"
    /\ Decide(s, "dropped") \/ (cur[s] \notin fenced /\ Goto(s, "control"))
    /\ UNCHANGED <<table, journal>>

ReadControl(s) ==
    /\ step[s] = "control"
    /\ IF LiveArmed /\ ~breaker THEN Goto(s, "reserve") ELSE Decide(s, "blocked")
    /\ UNCHANGED <<table, journal>>

\* Mutant of Reserve: the reservation does not look for the job of an earlier delivery.
Reserve_NotUnique(s) ==
    /\ step[s] = "reserve"
    /\ \/ (cur[s] \in fenced \/ breaker) /\ Raise(s) /\ UNCHANGED recorded
       \/ cur[s] \notin fenced /\ recorded' = recorded \cup {cur[s]} /\ Goto(s, "submit") /\ UNCHANGED table
    /\ UNCHANGED <<fenced, breaker, attempted>>

\* The control row is read once more, and reserve_intent refuses a fenced signal; one that has
\* a job already is not executed again.
Reserve(s) ==
    /\ step[s] = "reserve"
    /\ \/ (cur[s] \in fenced \/ breaker) /\ Raise(s) /\ UNCHANGED recorded
       \/ /\ cur[s] \in recorded \ fenced
          /\ Decide(s, "processed")
          /\ UNCHANGED <<table, recorded>>
       \/ /\ cur[s] \notin recorded \cup fenced
          /\ recorded' = recorded \cup {cur[s]}
          /\ Goto(s, "submit")
          /\ UNCHANGED table
    /\ UNCHANGED <<fenced, breaker, attempted>>

\* The one attempt of a job is committed before the bytes are sent, unless the signal is
\* fenced by then; preparation may fail before, and the answer may not come after.
Submit(s) ==
    /\ step[s] = "submit"
    /\ \/ /\ cur[s] \notin fenced \cup attempted /\ ~breaker
          /\ attempted' = attempted \cup {cur[s]}
          /\ (Decide(s, "processed") /\ UNCHANGED table) \/ Raise(s)
       \/ Raise(s) /\ UNCHANGED attempted
    /\ UNCHANGED <<fenced, breaker, recorded>>

Holds(s) == claimant[cur[s]] = s /\ lock = s

\* "queue claim lost" is raised when the row or the lock is another's or nobody's.
Finish(s) ==
    /\ step[s] = "finish"
    /\ \/ /\ Holds(s)
          /\ status' = [status EXCEPT ![cur[s]] = verdict[s]]
          /\ claimant' = [claimant EXCEPT ![cur[s]] = Nobody]
          /\ LetGo(s)
          /\ UNCHANGED <<rows, lock>>
       \/ ~Holds(s) /\ Raise(s)
    /\ UNCHANGED journal

ResetBreaker ==
    /\ breaker
    /\ breaker' = FALSE
    /\ UNCHANGED <<table, service, fenced, recorded, attempted, mishaps>>

-----------------------------------------------------------------------------
Serve(s) ==
    /\ \/ AcquireService(s) \/ Claim(s) \/ Check(s) \/ ReadControl(s)
       \/ Reserve(s) \/ Submit(s) \/ Finish(s)
    /\ UNCHANGED mishaps

Queue ==
    \/ \E s \in Services : Serve(s) \/ Die(s)
    \/ LockExpires
    \/ \E i \in Signals : ClaimExpires(i)
    \/ ResetBreaker

\* The sources, as far as the queue can tell: a signal comes, comes again, is taken back.
Source(i) ==
    /\ \/ status[i] = "absent" /\ Enqueue(i) /\ UNCHANGED journal
       \/ RecordSourceReorg(i) /\ UNCHANGED table
       \/ i \in fenced /\ CancelReorged(i) /\ UNCHANGED journal
    /\ UNCHANGED <<service, mishaps>>

QNext == Queue \/ \E i \in Signals : Source(i)

QSpec == QInit /\ [][QNext]_qvars

\* A service that has died is started again, the clock runs, and reverts and the operator's
\* resets do not keep tripping and closing the breaker for ever.
FairQSpec ==
    /\ QSpec
    /\ <>[][breaker' = breaker]_qvars
    /\ \A s \in Services : WF_qvars(Serve(s))
    /\ WF_qvars(LockExpires)
    /\ \A i \in Signals : WF_qvars(ClaimExpires(i))

-----------------------------------------------------------------------------
(* Properties.                                                             *)

\* A decision is final: no later delivery, cancellation, slow service or repeated enqueue
\* changes the status of a row that has been decided.
DecisionIsFinal ==
    [][\A i \in Signals : status[i] \in Terminal => status'[i] = status[i]]_qvars

\* Two services never execute the same signal at once, though either may be at it after its
\* lease has ended without its noticing.
OneExecutorPerSignal ==
    \A s, t \in Services :
        step[s] = "submit" /\ step[t] = "submit" /\ s # t => cur[s] # cur[t]

\* No claim strands its signal: whatever dies at it, some service decides it.
EveryClaimDecided ==
    \A i \in Signals : status[i] = "claimed" ~> status[i] \in Terminal
=============================================================================
