----------------------------- MODULE Execution -----------------------------
(***************************************************************************)
(* Live execution behind its hard lock: executors (ExecutionService and    *)
(* ExecutionCoordinator) over the journal of ExecutionJournal, the wallet's *)
(* chain, and the receipt recovery.                                        *)
(*                                                                         *)
(* A step is what happens between two commits or network answers.  Any     *)
(* idle executor may be handed any signal at any time, again as well: the  *)
(* queue delivers at least once, and its service lease of 30 s may end     *)
(* while an executor is at work, so that two executors run.  An executor   *)
(* that raises or crashes is idle again: the process is replaced.          *)
(***************************************************************************)
EXTENDS ExecutionJournal

CONSTANTS
    Executors,
    NoIntent,       \* the executor is idle
    MaxCrashes,     \* bound: crashes of an executor in the middle of its work
    MaxReorgs       \* bound: reorgs of the wallet's chain

ASSUME ExecutionAssumption ==
    /\ NoIntent \notin Intents
    /\ MaxCrashes \in Nat
    /\ MaxReorgs \in Nat

VARIABLES
    pc,             \* what the executor does next
    cur,            \* the intent it is at
    seen,           \* the pending count it has read from its node
    tx,             \* the chain's view of the intent's transaction
    final,          \* transactions in finalized blocks
    orphaned,       \* transactions that were in a block of an abandoned fork
    report,         \* the receipt that the recovery has read and not yet applied
    sends,          \* how often the bytes of an intent were handed to a node (history)
    crashes, reorgs

work  == <<pc, cur, seen>>
chain == <<tx, final, orphaned>>
xvars == <<jvars, work, chain, report, sends, crashes, reorgs>>

\* Where a failure still leads to fail_unsubmitted_job.
Revocable == {"quote", "count", "lease", "simulate", "build", "sign", "bind", "claim"}
NoReport == [intent |-> NoIntent, status |-> "pending"]

XTypeOK ==
    /\ JTypeOK
    /\ pc \in [Executors -> Revocable \cup {"idle", "reserve", "cleanup", "attempt", "send", "persist"}]
    /\ cur \in [Executors -> Intents \cup {NoIntent}]
    /\ \A s \in Executors : cur[s] = NoIntent <=> pc[s] = "idle"
    /\ seen \in [Executors -> 0..Cardinality(Intents)]
    /\ tx \in [Intents -> {"none", "pool", "ok", "bad"}]
    /\ final \subseteq Intents /\ orphaned \subseteq Intents
    /\ report \in [intent : Intents, status : {"confirmed", "failed", "reorged"}] \cup {NoReport}
    /\ sends \in [Intents -> Nat]
    /\ crashes \in 0..MaxCrashes /\ reorgs \in 0..MaxReorgs

XInit ==
    /\ JInit
    /\ pc = [s \in Executors |-> "idle"]
    /\ cur = [s \in Executors |-> NoIntent]
    /\ seen = [s \in Executors |-> 0]
    /\ tx = [i \in Intents |-> "none"]
    /\ final = {} /\ orphaned = {}
    /\ report = NoReport
    /\ sends = [i \in Intents |-> 0]
    /\ crashes = 0 /\ reorgs = 0

Goto(s, step) ==
    /\ pc' = [pc EXCEPT ![s] = step]
    /\ UNCHANGED <<cur, seen>>

\* The call returns or raises: the executor's memory is gone.
Done(s) ==
    /\ pc' = [pc EXCEPT ![s] = "idle"]
    /\ cur' = [cur EXCEPT ![s] = NoIntent]
    /\ seen' = [seen EXCEPT ![s] = 0]

Outside == <<chain, report, sends, crashes, reorgs>>

-----------------------------------------------------------------------------
(* From the signal to the signed transaction.                              *)

\* process_one and execute look at the fence and at the control before they reserve.
Deliver(s, i) ==
    /\ pc[s] = "idle"
    /\ i \notin fenced
    /\ ControlReady
    /\ pc' = [pc EXCEPT ![s] = "reserve"]
    /\ cur' = [cur EXCEPT ![s] = i]
    /\ UNCHANGED <<seen, jvars, Outside>>

\* A signal that was reserved before is never continued by a later delivery.
Reserve(s) ==
    LET i == cur[s] IN
    /\ pc[s] = "reserve"
    /\ \/ ReserveIntent(i) /\ Goto(s, "quote")
       \/ ~MayReserve(i) /\ UNCHANGED jvars /\ Done(s)
    /\ UNCHANGED Outside

Prepared == [quote |-> "quoted", simulate |-> "simulated", build |-> "built", sign |-> "signed"]
After == [quote |-> "count", simulate |-> "build", build |-> "sign", sign |-> "bind"]

Prepare(s) ==
    /\ pc[s] \in DOMAIN Prepared
    /\ TransitionJob(cur[s], Prepared[pc[s]])
    /\ Goto(s, After[pc[s]])
    /\ UNCHANGED Outside

\* The nonces of the wallet's transactions that the chain knows.
Occupied == {lease[i] : i \in {j \in Intents : tx[j] # "none"}}

\* The node asked may lag behind.
ReadPendingCount(s) ==
    /\ pc[s] = "count"
    /\ \E n \in 0..Cardinality(Intents) :
          /\ \A m \in 0..(n - 1) : m \in Occupied
          /\ seen' = [seen EXCEPT ![s] = n]
    /\ pc' = [pc EXCEPT ![s] = "lease"]
    /\ UNCHANGED <<cur, jvars, Outside>>

Lease(s) ==
    /\ pc[s] = "lease"
    /\ AcquireNonce(cur[s], seen[s])
    /\ Goto(s, "simulate")
    /\ UNCHANGED Outside

Bind(s) ==
    /\ pc[s] = "bind"
    /\ MarkUsed(cur[s])
    /\ Goto(s, "claim")
    /\ UNCHANGED Outside

Claim(s) ==
    /\ pc[s] = "claim"
    /\ ClaimSubmission(cur[s])
    /\ Goto(s, "attempt")
    /\ UNCHANGED Outside

\* Any step before the claim is committed may raise: no quote, a failed simulation, a
\* refused scope, a locked database, a source reorg at the claim.
Raise(s) ==
    /\ pc[s] \in Revocable
    /\ Goto(s, "cleanup")
    /\ UNCHANGED <<jvars, Outside>>

\* Mutant of CleanUp: the money is given back beside the journal's transaction.
CleanUp_ByHand(s) ==
    /\ pc[s] = "cleanup"
    /\ GiveBack(cur[s])
    /\ Done(s)
    /\ UNCHANGED <<job, hashed, nonces, attempted, fenced, breaker, Outside>>

\* fail_unsubmitted_job refuses what may have left the machine; the executor passes over that.
CleanUp(s) ==
    /\ pc[s] = "cleanup"
    /\ \/ FailUnsubmittedJob(cur[s])
       \/ ~MayRelease(cur[s]) /\ UNCHANGED jvars
    /\ Done(s)
    /\ UNCHANGED Outside

-----------------------------------------------------------------------------
(* The broadcast: attempt, send, persist.                                  *)

Attempt(s) ==
    /\ pc[s] = "attempt"
    /\ \/ ClaimBroadcastAttempt(cur[s]) /\ Goto(s, "send")
       \/ ~MayAttempt(cur[s]) /\ UNCHANGED jvars /\ Done(s)
    /\ UNCHANGED Outside

\* Mutant of NoAnswer: the transport asks the next endpoint, as for every other method.
NoAnswer_Failover(s) == Goto(s, "send")

\* ONE_SHOT_METHODS: a send that was not answered is not tried at the next endpoint.
NoAnswer(s) == Done(s)

\* The node takes the transaction or not, and its answer arrives or not.
Send(s) ==
    LET i == cur[s] IN
    /\ pc[s] = "send"
    /\ sends' = [sends EXCEPT ![i] = @ + 1]
    /\ \/ tx[i] = "none" /\ tx' = [tx EXCEPT ![i] = "pool"] /\ (Goto(s, "persist") \/ NoAnswer(s))
       \/ tx' = tx /\ NoAnswer(s)
    /\ UNCHANGED <<jvars, final, orphaned, report, crashes, reorgs>>

\* The recovery may have been faster.
Persist(s) ==
    /\ pc[s] = "persist"
    /\ \/ PersistBroadcast(cur[s])
       \/ job[cur[s]] # "submitted" /\ UNCHANGED jvars
    /\ Done(s)
    /\ UNCHANGED Outside

Crash(s) ==
    /\ pc[s] # "idle"
    /\ crashes < MaxCrashes
    /\ crashes' = crashes + 1
    /\ Done(s)
    /\ UNCHANGED <<jvars, chain, report, sends, reorgs>>

-----------------------------------------------------------------------------
(* The wallet's chain.                                                     *)

Mined(i) == tx[i] \in {"ok", "bad"}
InNonceOrder(i, S) == \A n \in 0..(lease[i] - 1) : \E j \in S : lease[j] = n

Mine(i) ==
    /\ tx[i] = "pool"
    /\ InNonceOrder(i, {j \in Intents : Mined(j)})
    /\ \E outcome \in {"ok", "bad"} : tx' = [tx EXCEPT ![i] = outcome]
    /\ UNCHANGED <<jvars, work, final, orphaned, report, sends, crashes, reorgs>>

Finalize(i) ==
    /\ Mined(i) /\ i \notin final
    /\ InNonceOrder(i, final)
    /\ final' = final \cup {i}
    /\ UNCHANGED <<jvars, work, tx, orphaned, report, sends, crashes, reorgs>>

\* The blocks from the one of transaction i on are abandoned.
ChainReorg(i) ==
    LET away == {j \in Intents \ final : Mined(j) /\ lease[j] >= lease[i]} IN
    /\ reorgs < MaxReorgs
    /\ Mined(i) /\ i \notin final
    /\ reorgs' = reorgs + 1
    /\ tx' = [j \in Intents |-> IF j \in away THEN "pool" ELSE tx[j]]
    /\ orphaned' = orphaned \cup away
    /\ UNCHANGED <<jvars, work, final, report, sends, crashes>>

-----------------------------------------------------------------------------
(* The receipt recovery, the source's reorgs and the operator.             *)

\* Mutant of Receipt: a receipt in a block counts before the block is final.
Receipt_Unfinalized(i, status) ==
    \/ status = "confirmed" /\ tx[i] = "ok"
    \/ status = "failed" /\ tx[i] = "bad"
    \/ status = "reorged" /\ i \in orphaned

\* What the tracker may answer: a finalized outcome, or that the block it was told of is not
\* the one at that height.
Receipt(i, status) ==
    \/ status = "confirmed" /\ i \in final /\ tx[i] = "ok"
    \/ status = "failed" /\ i \in final /\ tx[i] = "bad"
    \/ status = "reorged" /\ i \in orphaned

Look(i) ==
    /\ report = NoReport
    /\ i \in Recoverable
    /\ \E status \in {"confirmed", "failed", "reorged"} :
          /\ Receipt(i, status)
          /\ report' = [intent |-> i, status |-> status]
    /\ UNCHANGED <<jvars, work, chain, sends, crashes, reorgs>>

\* What has been read may be out of date by now; a receipt that is refused is read again.
Reconcile ==
    /\ report # NoReport
    /\ \/ ReconcileJobReceipt(report.intent, report.status)
       \/ ~Accepts(report.intent, report.status) /\ UNCHANGED jvars
    /\ report' = NoReport
    /\ UNCHANGED <<work, chain, sends, crashes, reorgs>>

SourceReorg(i) == i \notin fenced /\ RecordSourceReorg(i) /\ UNCHANGED <<work, Outside>>

Operator ==
    /\ ResetBreaker \/ \E a \in Balances : SetCapitalSnapshot(a)
    /\ UNCHANGED <<work, Outside>>

-----------------------------------------------------------------------------
Execute(s) ==
    \/ Reserve(s) \/ Prepare(s) \/ ReadPendingCount(s) \/ Lease(s) \/ Bind(s) \/ Claim(s)
    \/ Raise(s) \/ CleanUp(s) \/ Attempt(s) \/ Send(s) \/ Persist(s)

ChainStep == \E i \in Intents : Mine(i) \/ Finalize(i) \/ ChainReorg(i)

Recovery == Reconcile \/ \E i \in Intents : Look(i)

XNext ==
    \/ \E s \in Executors : Execute(s) \/ Crash(s) \/ \E i \in Intents : Deliver(s, i)
    \/ ChainStep
    \/ Recovery
    \/ \E i \in Intents : SourceReorg(i)
    \/ Operator

XSpec == XInit /\ [][XNext]_xvars

\* Executors that run make progress, signals keep coming, and the recovery keeps polling.
FairXSpec ==
    /\ XSpec
    /\ \A s \in Executors :
          WF_xvars(Execute(s)) /\ \A i \in Intents : SF_xvars(Deliver(s, i))
    /\ WF_xvars(Recovery)

-----------------------------------------------------------------------------
(* Safety.                                                                 *)

\* The signed bytes of an intent are handed to a node at most once: over crashes, lost
\* answers, repeated deliveries and two executors at once.
SentOnce == \A i \in Intents : sends[i] <= 1

\* Money is held as long as a transaction that a node took may still spend it: until it has
\* failed in a finalized block.
MoneyStaysWithTransaction ==
    \A i \in Intents : tx[i] # "none" => hold[i] = "active" \/ (i \in final /\ tx[i] = "bad")

\* Two transactions of the wallet never compete for one nonce, though leases are reused.
SentNoncesDistinct ==
    \A i, j \in Intents :
        tx[i] # "none" /\ tx[j] # "none" /\ i # j => bound[i] /\ lease[i] # lease[j]

\* An intent has one transaction at most, and a nonce one intent's.
OneTransactionEach == SentOnce /\ SentNoncesDistinct

\* A job that ended after its attempt ended as the finalized chain says, whatever was read
\* before a reorg and applied after it.
EndsAsFinalized ==
    \A i \in Intents :
        /\ job[i] = "confirmed" => i \in final /\ tx[i] = "ok"
        /\ job[i] = "failed" /\ i \in attempted => i \in final /\ tx[i] = "bad"

\* A signal whose source was reorged before the durable attempt is never sent afterwards.
RevertedSignalNotSent ==
    [][\A i \in Intents :
         i \in fenced /\ i \notin attempted => sends'[i] = sends[i] /\ i \notin attempted']_xvars

-----------------------------------------------------------------------------
\* No run checks this one, which TLC refutes (README.md, section 5).
\* What LIVE_EXECUTION_CHECKLIST.md:20 says: an unsubmitted nonce lease is safely reclaimed
\* (after a restart, too).
UnsubmittedLeaseReclaimed ==
    \A i \in Intents : (lease[i] # NoNonce /\ ~bound[i]) ~> (lease[i] = NoNonce \/ bound[i])
=============================================================================
