-------------------------- MODULE ExecutionJournal --------------------------
(***************************************************************************)
(* The execution journal (fomo/execution/journal.py) and the nonce leases  *)
(* kept in the same database (chain_managers.py): one operator per         *)
(* transaction, with the conditions under which it does not raise as its   *)
(* guard.  JNext lets any caller apply any transaction in any order (but   *)
(* transition_job only for Preparation): what JSpec promises does not      *)
(* depend on the callers' discipline.                                      *)
(*                                                                         *)
(* A signal and the one intent made from it have the same identity.  The   *)
(* signed bytes of an intent, hence its transaction hash, provider and     *)
(* digest, are those of the one executor that signed them.                 *)
(***************************************************************************)
EXTENDS Integers, FiniteSets, FiniteSetsExt

CONSTANTS
    Intents,        \* the intents, by signal
    Amount,         \* requested_usd_micros of an intent
    Balances,       \* the balance snapshots an operator may store
    NoSnapshot,     \* no balance snapshot has been stored
    NoNonce,        \* the intent holds no nonce lease
    LiveArmed       \* execution_control.live_armed: FALSE in the shipped schema

ASSUME JournalAssumption ==
    /\ IsFiniteSet(Intents)
    /\ Amount \in [Intents -> Nat]
    /\ Balances \subseteq Nat
    /\ NoSnapshot \notin Nat
    /\ NoNonce \notin Nat
    /\ LiveArmed \in BOOLEAN

VARIABLES
    job,            \* execution_jobs.state ("none": no row)
    hashed,         \* execution_jobs.tx_hash is set
    available,      \* capital_accounts.available_usd_micros
    reserved,       \* capital_accounts.reserved_usd_micros
    hold,           \* execution_reservations.status
    lease,          \* execution_evm_nonces.nonce
    bound,          \* the lease carries the hash of a signed transaction
    attempted,      \* execution_broadcast_attempts
    fenced,         \* execution_source_reorg_fences
    breaker         \* execution_control.circuit_breaker_tripped

capital == <<available, reserved, hold>>
nonces  == <<lease, bound>>
jvars   == <<job, hashed, capital, nonces, attempted, fenced, breaker>>

\* The states that the executor asks transition_job for; no caller asks for another one.
Preparation == {"quoted", "simulated", "built", "signed"}

\* What fail_unsubmitted_job takes for unsubmitted.
Unsubmitted == Preparation \cup {"reserved"}

\* What recoverable_broadcasts returns (no caller makes a job "replaced").
Recoverable == {i \in Intents : hashed[i] /\ job[i] \in {"submitted", "broadcast", "reorged"}}

JTypeOK ==
    /\ job \in [Intents -> Unsubmitted \cup {"none", "submitted", "broadcast", "confirmed",
                                             "failed", "reorged"}]
    /\ hashed \in [Intents -> BOOLEAN]
    /\ available \in Nat \cup {NoSnapshot}
    /\ reserved \in Nat
    /\ hold \in [Intents -> {"none", "active", "released"}]
    /\ lease \in [Intents -> Nat \cup {NoNonce}]
    /\ bound \in [Intents -> BOOLEAN]
    /\ attempted \subseteq Intents
    /\ fenced \subseteq Intents
    /\ breaker \in BOOLEAN

JInit ==
    /\ job = [i \in Intents |-> "none"]
    /\ hashed = [i \in Intents |-> FALSE]
    /\ available = NoSnapshot
    /\ reserved = 0
    /\ hold = [i \in Intents |-> "none"]
    /\ lease = [i \in Intents |-> NoNonce]
    /\ bound = [i \in Intents |-> FALSE]
    /\ attempted = {}
    /\ fenced = {}
    /\ breaker = TRUE

ControlReady == LiveArmed /\ ~breaker

-----------------------------------------------------------------------------
(* Capital and reservations.                                               *)

SetCapitalSnapshot(a) ==
    /\ available' = a
    /\ UNCHANGED <<job, hashed, reserved, hold, nonces, attempted, fenced, breaker>>

\* Otherwise reserve_intent raises or, for a signal that is known, returns its existing job.
MayReserve(i) ==
    /\ i \notin fenced
    /\ job[i] = "none"
    /\ available # NoSnapshot
    /\ Amount[i] <= available - reserved

ReserveIntent(i) ==
    /\ MayReserve(i)
    /\ job' = [job EXCEPT ![i] = "reserved"]
    /\ reserved' = reserved + Amount[i]
    /\ hold' = [hold EXCEPT ![i] = "active"]
    /\ UNCHANGED <<hashed, available, nonces, attempted, fenced, breaker>>

\* JOB_TRANSITIONS.
JobTransitions ==
    LET ended == {"failed", "expired"} IN
    [reserved  |-> {"quoted", "dropped"} \cup ended,
     quoted    |-> {"simulated", "dropped"} \cup ended,
     simulated |-> {"built", "dropped"} \cup ended,
     built     |-> {"signed"} \cup ended,
     signed    |-> {"submitted"} \cup ended,
     submitted |-> {"broadcast", "replaced", "dropped"} \cup ended,
     broadcast |-> {"confirmed", "replaced", "dropped", "reorged"} \cup ended,
     confirmed |-> {"reorged"},
     replaced  |-> {"broadcast", "confirmed"} \cup ended,
     reorged   |-> {"broadcast", "failed", "dropped"},
     failed    |-> {}, dropped |-> {}, expired |-> {}]

\* A request for the state the job is in already changes nothing.
TransitionJob(i, to) ==
    /\ to \notin {"submitted", "broadcast"}
    /\ job[i] \in DOMAIN JobTransitions
    /\ to \in JobTransitions[job[i]]
    /\ job' = [job EXCEPT ![i] = to]
    /\ UNCHANGED <<hashed, capital, nonces, attempted, fenced, breaker>>

\* The reservation is released and its amount is given back, or the transaction raises.
GiveBack(i) ==
    /\ hold[i] = "active"
    /\ reserved >= Amount[i]
    /\ reserved' = reserved - Amount[i]
    /\ hold' = [hold EXCEPT ![i] = "released"]
    /\ UNCHANGED available

\* Only what has provably not left the machine may be given back.
MayRelease(i) ==
    /\ job[i] \in Unsubmitted
    /\ ~hashed[i]
    /\ i \notin attempted
    /\ ~bound[i]

FailUnsubmittedJob(i) ==
    /\ MayRelease(i)
    /\ GiveBack(i)
    /\ lease' = [lease EXCEPT ![i] = NoNonce]
    /\ job' = [job EXCEPT ![i] = "failed"]
    /\ UNCHANGED <<hashed, bound, attempted, fenced, breaker>>

-----------------------------------------------------------------------------
(* Nonce leases (EvmNonceManager).                                         *)

Leases == {lease[j] : j \in {k \in Intents : lease[k] # NoNonce}}

\* The node's pending count, or one past the highest local lease.
NextNonce(n, pending) ==
    /\ n >= pending
    /\ \A m \in Leases : n > m
    /\ n = pending \/ n - 1 \in Leases

\* The pending count was read from the node before the transaction.
AcquireNonce(i, pending) ==
    /\ job[i] = "quoted"
    /\ lease[i] = NoNonce
    /\ \E n \in {pending} \cup {m + 1 : m \in Leases} :
          /\ NextNonce(n, pending)
          /\ lease' = [lease EXCEPT ![i] = n]
    /\ UNCHANGED <<job, hashed, capital, bound, attempted, fenced, breaker>>

MarkUsed(i) ==
    /\ lease[i] # NoNonce
    /\ bound' = [bound EXCEPT ![i] = TRUE]
    /\ UNCHANGED <<job, hashed, capital, lease, attempted, fenced, breaker>>

-----------------------------------------------------------------------------
(* Submission.                                                             *)

ClaimSubmission(i) ==
    /\ ~hashed[i]
    /\ job[i] = "signed"
    /\ i \notin fenced
    /\ hashed' = [hashed EXCEPT ![i] = TRUE]
    /\ job' = [job EXCEPT ![i] = "submitted"]
    /\ UNCHANGED <<capital, nonces, attempted, fenced, breaker>>

\* Mutant of MayAttempt: the fence is looked at when the submission is claimed, not here.
MayAttempt_Fenced(i) == ControlReady /\ job[i] = "submitted" /\ hashed[i] /\ i \notin attempted

MayAttempt(i) ==
    /\ i \notin fenced
    /\ ControlReady
    /\ job[i] = "submitted"
    /\ hashed[i]
    /\ i \notin attempted

\* One attempt only, committed before the network call.
ClaimBroadcastAttempt(i) ==
    /\ MayAttempt(i)
    /\ attempted' = attempted \cup {i}
    /\ UNCHANGED <<job, hashed, capital, nonces, fenced, breaker>>

PersistBroadcast(i) ==
    /\ hashed[i]
    /\ job[i] = "submitted"
    /\ job' = [job EXCEPT ![i] = "broadcast"]
    /\ UNCHANGED <<hashed, capital, nonces, attempted, fenced, breaker>>

-----------------------------------------------------------------------------
(* Receipts, reorgs and control.                                           *)

\* The states in which reconcile_job_receipt accepts a receipt.  A job that is confirmed is
\* not in the recovery's list any more, but a caller may still report its reorg.
Accepts(i, r) ==
    /\ hashed[i]
    /\ \/ r = "reorged" /\ job[i] \in {"submitted", "broadcast", "confirmed"}
       \/ r \in {"confirmed", "failed"} /\ job[i] \in {"submitted", "broadcast", "reorged"}

\* Mutant of ReconcileJobReceipt: a reorg releases the reservation as a failure does.
ReconcileJobReceipt_ReorgReleases(i, r) ==
    /\ Accepts(i, r)
    /\ job' = [job EXCEPT ![i] = r]
    /\ IF r \in {"failed", "reorged"} THEN GiveBack(i) ELSE UNCHANGED capital
    /\ UNCHANGED <<hashed, nonces, attempted, fenced, breaker>>

\* A finalized failure releases the reservation; a confirmation and a reorg keep it.
ReconcileJobReceipt(i, r) ==
    /\ Accepts(i, r)
    /\ job' = [job EXCEPT ![i] = r]
    /\ IF r = "failed" THEN GiveBack(i) ELSE UNCHANGED capital
    /\ UNCHANGED <<hashed, nonces, attempted, fenced, breaker>>

RecordSourceReorg(i) ==
    /\ fenced' = fenced \cup {i}
    /\ breaker' = TRUE
    /\ UNCHANGED <<job, hashed, capital, nonces, attempted>>

\* The operator closes the circuit again; no code does.
ResetBreaker ==
    /\ breaker
    /\ breaker' = FALSE
    /\ UNCHANGED <<job, hashed, capital, nonces, attempted, fenced>>

-----------------------------------------------------------------------------
JNext ==
    \/ \E a \in Balances : SetCapitalSnapshot(a)
    \/ \E i \in Intents :
          \/ ReserveIntent(i)
          \/ \E to \in Preparation : TransitionJob(i, to)
          \/ FailUnsubmittedJob(i)
          \/ \E pending \in 0..Cardinality(Intents) : AcquireNonce(i, pending)
          \/ MarkUsed(i)
          \/ ClaimSubmission(i)
          \/ ClaimBroadcastAttempt(i)
          \/ PersistBroadcast(i)
          \/ \E r \in {"confirmed", "failed", "reorged"} : ReconcileJobReceipt(i, r)
          \/ RecordSourceReorg(i)
    \/ ResetBreaker

JSpec == JInit /\ [][JNext]_jvars

-----------------------------------------------------------------------------
(* What the journal promises to any caller.                                *)

\* The reserved amount is the sum of the active reservations: no order of transactions loses
\* money or gives it back twice.
ReservedIsHeld ==
    reserved = MapThenSumSet(LAMBDA i : Amount[i], {i \in Intents : hold[i] = "active"})

\* Two intents never hold the same nonce, although the pending count may be stale and leases
\* are released for reuse.
NoncesDistinct ==
    \A i, j \in Intents : i # j /\ lease[i] # NoNonce => lease[i] # lease[j]

\* Money stays held from the reservation until the intent has failed: in particular while a
\* transaction may be on its way, confirmed or orphaned by a reorg.
HeldUntilFailed ==
    \A i \in Intents :
        /\ hold[i] = "active" <=> job[i] \notin {"none", "failed"}
        /\ hold[i] = "released" <=> job[i] = "failed"

\* A durable attempt presupposes the committed transaction hash.
AttemptIsPrecommitted == \A i \in attempted : hashed[i]

\* A committed hash and a committed attempt are never withdrawn, a nonce that a signed
\* transaction carries is never leased again, and a job that has failed stays failed.
EvidenceStays ==
    [][\A i \in Intents :
         /\ hashed[i] => hashed'[i]
         /\ i \in attempted => i \in attempted'
         /\ bound[i] => bound'[i] /\ lease'[i] = lease[i]
         /\ job[i] = "failed" => job'[i] = "failed"]_jvars

\* What makes these inductive: the hash is set exactly by the submission, and only a lease
\* can be bound.
Identity ==
    \A i \in Intents :
        /\ hashed[i] => job[i] \notin Unsubmitted \cup {"none"}
        /\ job[i] \in {"submitted", "broadcast", "confirmed", "reorged"} => hashed[i]
        /\ bound[i] => lease[i] # NoNonce
        /\ lease[i] # NoNonce => job[i] \notin {"none", "reserved"}
=============================================================================
