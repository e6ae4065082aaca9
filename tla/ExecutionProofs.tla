-------------------------- MODULE ExecutionProofs --------------------------
(***************************************************************************)
(* Proofs about the journal of ExecutionJournal, for every set of intents, *)
(* all amounts and balances and any order of its transactions; and about   *)
(* Execution, for any number of executors, intents, crashes and reorgs: it *)
(* implements the journal's specification, and what the journal promises   *)
(* carries over to what reaches the chain.                                 *)
(***************************************************************************)
EXTENDS Execution, FiniteSetTheorems, TLAPS

-----------------------------------------------------------------------------
(* The journal.                                                              *)

USE DEF Unsubmitted, Preparation, capital, nonces

Safe == NoncesDistinct /\ HeldUntilFailed /\ AttemptIsPrecommitted /\ Identity

LEMMA JTypeOKInitially == JInit => JTypeOK
BY DEF JInit, JTypeOK

\* A transition that the executor asks for ends in the state it asked for.
LEMMA PreparationOnly ==
    ASSUME NEW i \in Intents, NEW to \in Preparation, TransitionJob(i, to)
    PROVE  job[i] \in Unsubmitted
BY DEF TransitionJob, JobTransitions

\* A granted nonce is a natural number above every lease.
LEMMA GrantedNonce ==
    ASSUME JTypeOK, NEW i \in Intents, NEW pending \in Nat, AcquireNonce(i, pending)
    PROVE  \E n \in Nat : /\ lease' = [lease EXCEPT ![i] = n]
                          /\ \A j \in Intents : lease[j] # NoNonce => n > lease[j]
<1>1. PICK n \in {pending} \cup {m + 1 : m \in Leases} :
          NextNonce(n, pending) /\ lease' = [lease EXCEPT ![i] = n]
  BY DEF AcquireNonce
<1>2. \A m \in Leases : m \in Nat
  BY DEF Leases, JTypeOK
<1>3. n \in Nat
  BY <1>1, <1>2
<1>4. QED
  BY <1>1, <1>3 DEF NextNonce, Leases

LEMMA JTypeOKStep == JTypeOK /\ [JNext]_jvars => JTypeOK'
<1> SUFFICES ASSUME JTypeOK, [JNext]_jvars PROVE JTypeOK'
  OBVIOUS
<1> USE JournalAssumption DEF JTypeOK
<1>1. ASSUME NEW a \in Balances, SetCapitalSnapshot(a) PROVE JTypeOK'
  BY <1>1 DEF SetCapitalSnapshot
<1>2. ASSUME NEW i \in Intents, ReserveIntent(i) PROVE JTypeOK'
  BY <1>2 DEF ReserveIntent, MayReserve
<1>3. ASSUME NEW i \in Intents, NEW to \in Preparation, TransitionJob(i, to) PROVE JTypeOK'
  BY <1>3 DEF TransitionJob
<1>4. ASSUME NEW i \in Intents, FailUnsubmittedJob(i) PROVE JTypeOK'
  BY <1>4 DEF FailUnsubmittedJob, GiveBack
<1>5. ASSUME NEW i \in Intents, NEW pending \in 0..Cardinality(Intents), AcquireNonce(i, pending)
      PROVE  JTypeOK'
  <2>1. lease' \in [Intents -> Nat \cup {NoNonce}]
    BY <1>5, GrantedNonce
  <2>2. QED
    BY <1>5, <2>1 DEF AcquireNonce
<1>6. ASSUME NEW i \in Intents, MarkUsed(i) PROVE JTypeOK'
  BY <1>6 DEF MarkUsed
<1>7. ASSUME NEW i \in Intents, ClaimSubmission(i) \/ PersistBroadcast(i) PROVE JTypeOK'
  BY <1>7 DEF ClaimSubmission, PersistBroadcast
<1>8. ASSUME NEW i \in Intents, ClaimBroadcastAttempt(i) PROVE JTypeOK'
  BY <1>8 DEF ClaimBroadcastAttempt
<1>9. ASSUME NEW i \in Intents, NEW r \in {"confirmed", "failed", "reorged"}, ReconcileJobReceipt(i, r)
      PROVE  JTypeOK'
  BY <1>9 DEF ReconcileJobReceipt, GiveBack
<1>10. ASSUME NEW i \in Intents, RecordSourceReorg(i) PROVE JTypeOK'
  BY <1>10 DEF RecordSourceReorg
<1>11. CASE ResetBreaker
  BY <1>11 DEF ResetBreaker
<1>12. CASE UNCHANGED jvars
  BY <1>12 DEF jvars
<1>13. QED
  BY <1>1, <1>2, <1>3, <1>4, <1>5, <1>6, <1>7, <1>8, <1>9, <1>10, <1>11, <1>12 DEF JNext

\* Every variable of the journal keeps its type; in particular the reserved amount never
\* falls below zero.
THEOREM Typing == JSpec => []JTypeOK
BY JTypeOKInitially, JTypeOKStep, PTL DEF JSpec

LEMMA SafeInitially == JInit => Safe
BY DEF JInit, Safe, NoncesDistinct, HeldUntilFailed, AttemptIsPrecommitted, Identity

LEMMA SafeStep == JTypeOK /\ Safe /\ [JNext]_jvars => Safe'
<1> SUFFICES ASSUME JTypeOK, Safe, [JNext]_jvars PROVE Safe'
  OBVIOUS
<1> USE JournalAssumption
    DEF JTypeOK, Safe, NoncesDistinct, HeldUntilFailed, AttemptIsPrecommitted, Identity
<1>1. ASSUME NEW a \in Balances, SetCapitalSnapshot(a) PROVE Safe'
  BY <1>1 DEF SetCapitalSnapshot
<1>2. ASSUME NEW i \in Intents, ReserveIntent(i) PROVE Safe'
  BY <1>2 DEF ReserveIntent, MayReserve
<1>3. ASSUME NEW i \in Intents, NEW to \in Preparation, TransitionJob(i, to) PROVE Safe'
  <2> DEFINE rest == <<hashed, capital, nonces, attempted, fenced, breaker>>
  <2>1. /\ job' = [job EXCEPT ![i] = to] /\ to \in Preparation
        /\ job[i] \in Unsubmitted
        /\ UNCHANGED rest
    BY <1>3, PreparationOnly DEF TransitionJob
  <2>2. NoncesDistinct' /\ AttemptIsPrecommitted'
    BY <2>1 DEF rest, nonces
  <2>3. HeldUntilFailed'
    BY <2>1 DEF rest, capital, Unsubmitted, Preparation
  <2>4. Identity'
    BY <2>1 DEF rest, nonces, Unsubmitted, Preparation
  <2>5. QED
    BY <2>2, <2>3, <2>4
<1>4. ASSUME NEW i \in Intents, FailUnsubmittedJob(i) PROVE Safe'
  BY <1>4 DEF FailUnsubmittedJob, GiveBack, MayRelease
<1>5. ASSUME NEW i \in Intents, NEW pending \in 0..Cardinality(Intents), AcquireNonce(i, pending)
      PROVE  Safe'
  <2>1. PICK n \in Nat : /\ lease' = [lease EXCEPT ![i] = n]
                         /\ \A j \in Intents : lease[j] # NoNonce => n > lease[j]
    BY <1>5, GrantedNonce, FS_CardinalityType
  <2>2. NoncesDistinct'
    BY <1>5, <2>1 DEF AcquireNonce
  <2>3. QED
    BY <1>5, <2>1, <2>2 DEF AcquireNonce
<1>6. ASSUME NEW i \in Intents, MarkUsed(i) PROVE Safe'
  BY <1>6 DEF MarkUsed
<1>7. ASSUME NEW i \in Intents, ClaimSubmission(i) \/ PersistBroadcast(i) PROVE Safe'
  BY <1>7 DEF ClaimSubmission, PersistBroadcast
<1>8. ASSUME NEW i \in Intents, ClaimBroadcastAttempt(i) PROVE Safe'
  BY <1>8 DEF ClaimBroadcastAttempt, MayAttempt
<1>9. ASSUME NEW i \in Intents, NEW r \in {"confirmed", "failed", "reorged"}, ReconcileJobReceipt(i, r)
      PROVE  Safe'
  <2>1. CASE r = "failed"
    BY <1>9, <2>1 DEF ReconcileJobReceipt, GiveBack, Accepts
  <2>2. CASE r # "failed"
    BY <1>9, <2>2 DEF ReconcileJobReceipt, Accepts
  <2>3. QED
    BY <2>1, <2>2
<1>10. ASSUME NEW i \in Intents, RecordSourceReorg(i) PROVE Safe'
  BY <1>10 DEF RecordSourceReorg
<1>11. CASE ResetBreaker
  BY <1>11 DEF ResetBreaker
<1>12. CASE UNCHANGED jvars
  BY <1>12 DEF jvars
<1>13. QED
  BY <1>1, <1>2, <1>3, <1>4, <1>5, <1>6, <1>7, <1>8, <1>9, <1>10, <1>11, <1>12 DEF JNext

\* The four invariants hold together: the state of a job decides what it holds.
THEOREM Inductive == JSpec => [](JTypeOK /\ Safe)
<1>1. JInit => JTypeOK /\ Safe
  BY JTypeOKInitially, SafeInitially
<1>2. JTypeOK /\ Safe /\ [JNext]_jvars => (JTypeOK /\ Safe)'
  BY JTypeOKStep, SafeStep
<1>3. QED
  BY <1>1, <1>2, PTL DEF JSpec

\* No two intents ever hold the same nonce, however stale the pending count was.
THEOREM NoncesNeverShared == JSpec => []NoncesDistinct
<1>1. JTypeOK /\ Safe => NoncesDistinct
  BY DEF Safe
<1>2. QED
  BY <1>1, Inductive, PTL

\* Capital is held from the reservation until the intent has failed.
THEOREM CapitalStaysHeld == JSpec => []HeldUntilFailed
<1>1. JTypeOK /\ Safe => HeldUntilFailed
  BY DEF Safe
<1>2. QED
  BY <1>1, Inductive, PTL

\* Every attempt to broadcast follows a committed transaction hash.
THEOREM AttemptsFollowHashes == JSpec => []AttemptIsPrecommitted
<1>1. JTypeOK /\ Safe => AttemptIsPrecommitted
  BY DEF Safe
<1>2. QED
  BY <1>1, Inductive, PTL

\* The evidence that a transaction may be on its way is never withdrawn.
THEOREM EvidenceIsKept == JSpec => EvidenceStays
<1> DEFINE Kept(i) ==
      /\ hashed[i] => hashed'[i]
      /\ i \in attempted => i \in attempted'
      /\ bound[i] => bound'[i] /\ lease'[i] = lease[i]
      /\ job[i] = "failed" => job'[i] = "failed"
<1>1. ASSUME JTypeOK, Safe, [JNext]_jvars, NEW i \in Intents PROVE Kept(i)
  <2> USE <1>1 DEF JTypeOK, Safe, Identity
  <2>1. ASSUME NEW j \in Intents, NEW to \in Preparation, TransitionJob(j, to) PROVE Kept(i)
    BY <2>1, PreparationOnly DEF TransitionJob
  <2>2. ASSUME NEW j \in Intents,
               \/ ReserveIntent(j) \/ ClaimSubmission(j) \/ PersistBroadcast(j)
               \/ MarkUsed(j) \/ ClaimBroadcastAttempt(j) \/ RecordSourceReorg(j)
        PROVE  Kept(i)
    BY <2>2 DEF ReserveIntent, MayReserve, ClaimSubmission, PersistBroadcast, MarkUsed,
                ClaimBroadcastAttempt, RecordSourceReorg
  <2>3. ASSUME NEW j \in Intents, FailUnsubmittedJob(j) PROVE Kept(i)
    BY <2>3 DEF FailUnsubmittedJob, MayRelease
  <2>4. ASSUME NEW j \in Intents, NEW pending \in 0..Cardinality(Intents), AcquireNonce(j, pending)
        PROVE  Kept(i)
    BY <2>4 DEF AcquireNonce
  <2>5. ASSUME NEW j \in Intents, NEW r \in {"confirmed", "failed", "reorged"}, ReconcileJobReceipt(j, r)
        PROVE  Kept(i)
    BY <2>5 DEF ReconcileJobReceipt, Accepts
  <2>6. ASSUME NEW a \in Balances, SetCapitalSnapshot(a) PROVE Kept(i)
    BY <2>6 DEF SetCapitalSnapshot
  <2>7. CASE ResetBreaker \/ UNCHANGED jvars
    BY <2>7 DEF ResetBreaker, jvars
  <2>8. QED
    BY <2>1, <2>2, <2>3, <2>4, <2>5, <2>6, <2>7 DEF JNext
<1>2. JTypeOK /\ Safe /\ [JNext]_jvars => [\A i \in Intents : Kept(i)]_jvars
  BY <1>1
<1>3. QED
  BY <1>2, Inductive, PTL DEF JSpec, EvidenceStays
-----------------------------------------------------------------------------
(* The executors, the recovery and the chain.                                *)

USE DEF work, chain, Outside, Revocable

Working(s) == pc[s] \notin {"idle", "reserve"}

\* At most one executor is at an intent beyond its reservation.
Owned ==
    /\ \A s \in Executors : Working(s) => job[cur[s]] # "none"
    /\ \A s, t \in Executors : s # t /\ Working(s) /\ Working(t) => cur[s] # cur[t]

\* The send follows the attempt, and the chain knows only what was sent.
Sending ==
    /\ \A i \in Intents : i \notin attempted => sends[i] = 0
    /\ \A s \in Executors : pc[s] = "send" => cur[s] \in attempted /\ sends[cur[s]] = 0
    /\ \A i \in Intents : sends[i] = 0 => tx[i] = "none"

\* What is submitted carries a bound lease.
Bounded ==
    /\ \A s \in Executors : pc[s] = "claim" => bound[cur[s]]
    /\ \A i \in Intents : hashed[i] => bound[i]

\* A finalized block stays, so a report of one stays true however late it is applied.
Truth ==
    /\ \A i \in final : Mined(i)
    /\ report.status = "confirmed" => report.intent \in final /\ tx[report.intent] = "ok"
    /\ report.status = "failed" => report.intent \in final /\ tx[report.intent] = "bad"

XInv == Safe /\ Owned /\ Sending /\ SentOnce /\ Bounded /\ Truth /\ EndsAsFinalized

LEMMA NoReportPending == NoReport.status = "pending" /\ NoReport.intent = NoIntent
BY DEF NoReport

LEMMA XInitially == XInit => XTypeOK /\ XInv
<1> SUFFICES ASSUME XInit PROVE XTypeOK /\ XInv
  OBVIOUS
<1>1. JTypeOK /\ Safe
  BY JTypeOKInitially, SafeInitially DEF XInit
<1>2. Cardinality(Intents) \in Nat
  BY JournalAssumption, FS_CardinalityType
<1>3. crashes \in 0..MaxCrashes /\ reorgs \in 0..MaxReorgs
  BY ExecutionAssumption DEF XInit
<1>4. XTypeOK
  BY <1>1, <1>2, <1>3 DEF XTypeOK, XInit
<1>5. Owned /\ Sending /\ SentOnce /\ Bounded /\ Truth /\ EndsAsFinalized
  BY NoReportPending DEF XInit, JInit, Owned, Working, Sending, SentOnce, Bounded, Truth, EndsAsFinalized
<1>6. QED
  BY <1>1, <1>4, <1>5 DEF XInv

\* An executor that is not idle has an intent.
LEMMA AtWork ==
    ASSUME XTypeOK, NEW s \in Executors, pc[s] # "idle"
    PROVE  cur[s] \in Intents
BY DEF XTypeOK

-----------------------------------------------------------------------------
\* Every step of the execution is a transaction of the journal or leaves it alone.
LEMMA StepImplements == XTypeOK /\ [XNext]_xvars => [JNext]_jvars
<1> SUFFICES ASSUME XTypeOK, [XNext]_xvars PROVE [JNext]_jvars
  OBVIOUS
<1>1. ASSUME NEW s \in Executors, Execute(s) PROVE [JNext]_jvars
  <2>1. pc[s] # "idle"
    BY <1>1 DEF Execute, Reserve, Prepare, Prepared, ReadPendingCount, Lease, Bind, Claim, Raise,
                CleanUp, Attempt, Send, Persist
  <2>2. cur[s] \in Intents
    BY <2>1, AtWork
  <2>3. CASE Reserve(s)
    BY <2>2, <2>3 DEF Reserve, JNext
  <2>4. CASE Prepare(s)
    <3>1. Prepared[pc[s]] \in Preparation
      BY <2>4 DEF Prepare, Prepared
    <3>2. QED
      BY <2>2, <2>4, <3>1 DEF Prepare, JNext
  <2>5. CASE Lease(s)
    <3>1. seen[s] \in 0..Cardinality(Intents)
      BY DEF XTypeOK
    <3>2. QED
      BY <2>2, <2>5, <3>1 DEF Lease, JNext
  <2>6. CASE Bind(s) \/ Claim(s)
    BY <2>2, <2>6 DEF Bind, Claim, JNext
  <2>7. CASE CleanUp(s) \/ Attempt(s) \/ Persist(s)
    BY <2>2, <2>7 DEF CleanUp, Attempt, Persist, JNext
  <2>8. CASE ReadPendingCount(s) \/ Raise(s) \/ Send(s)
    BY <2>8 DEF ReadPendingCount, Raise, Send
  <2>9. QED
    BY <1>1, <2>3, <2>4, <2>5, <2>6, <2>7, <2>8 DEF Execute
<1>2. ASSUME NEW s \in Executors, NEW i \in Intents, Deliver(s, i) PROVE [JNext]_jvars
  BY <1>2 DEF Deliver
<1>3. ASSUME NEW s \in Executors, Crash(s) PROVE [JNext]_jvars
  BY <1>3 DEF Crash
<1>4. CASE ChainStep
  BY <1>4 DEF ChainStep, Mine, Finalize, ChainReorg
<1>5. CASE Recovery
  <2>1. CASE Reconcile
    <3>1. report.intent \in Intents /\ report.status \in {"confirmed", "failed", "reorged"}
      BY <2>1 DEF Reconcile, XTypeOK
    <3>2. QED
      BY <2>1, <3>1 DEF Reconcile, JNext
  <2>2. ASSUME NEW i \in Intents, Look(i) PROVE [JNext]_jvars
    BY <2>2 DEF Look
  <2>3. QED
    BY <1>5, <2>1, <2>2 DEF Recovery
<1>6. ASSUME NEW i \in Intents, SourceReorg(i) PROVE [JNext]_jvars
  BY <1>6 DEF SourceReorg, JNext
<1>7. CASE Operator
  BY <1>7 DEF Operator, JNext
<1>8. CASE UNCHANGED xvars
  BY <1>8 DEF xvars
<1>9. QED
  BY <1>1, <1>2, <1>3, <1>4, <1>5, <1>6, <1>7, <1>8 DEF XNext

-----------------------------------------------------------------------------
LEMMA XTypeOKStep == XTypeOK /\ [XNext]_xvars => XTypeOK'
<1> SUFFICES ASSUME XTypeOK, [XNext]_xvars PROVE XTypeOK'
  OBVIOUS
<1>1. JTypeOK'
  BY StepImplements, JTypeOKStep DEF XTypeOK
<1> USE <1>1, ExecutionAssumption DEF XTypeOK, Goto, Done
<1>2. ASSUME NEW s \in Executors, Execute(s) PROVE XTypeOK'
  <2>1. pc[s] # "idle"
    BY <1>2 DEF Execute, Reserve, Prepare, Prepared, ReadPendingCount, Lease, Bind, Claim, Raise,
                CleanUp, Attempt, Send, Persist
  <2>2. 0 \in 0..Cardinality(Intents)
    BY JournalAssumption, FS_CardinalityType
  <2>3. CASE Reserve(s)
    BY <2>1, <2>2, <2>3 DEF Reserve
  <2>4. CASE Prepare(s)
    BY <2>1, <2>4 DEF Prepare, Prepared, After
  <2>5. CASE ReadPendingCount(s)
    BY <2>1, <2>5 DEF ReadPendingCount
  <2>6. CASE Lease(s) \/ Bind(s) \/ Claim(s) \/ Raise(s)
    BY <2>1, <2>6 DEF Lease, Bind, Claim, Raise
  <2>7. CASE CleanUp(s) \/ Attempt(s) \/ Persist(s)
    BY <2>1, <2>2, <2>7 DEF CleanUp, Attempt, Persist
  <2>8. CASE Send(s)
    <3>1. cur[s] \in Intents
      BY <2>1
    <3>2. sends' \in [Intents -> Nat] /\ tx' \in [Intents -> {"none", "pool", "ok", "bad"}]
      BY <2>8, <3>1 DEF Send
    <3>3. QED
      BY <2>1, <2>2, <2>8, <3>2 DEF Send, NoAnswer
  <2>9. QED
    BY <1>2, <2>3, <2>4, <2>5, <2>6, <2>7, <2>8 DEF Execute
<1>3. ASSUME NEW s \in Executors, Crash(s) PROVE XTypeOK'
  <2>1. crashes' \in 0..MaxCrashes
    BY <1>3 DEF Crash
  <2>2. 0 \in 0..Cardinality(Intents)
    BY JournalAssumption, FS_CardinalityType
  <2>3. QED
    BY <1>3, <2>1, <2>2 DEF Crash
<1>4. ASSUME NEW s \in Executors, NEW i \in Intents, Deliver(s, i) PROVE XTypeOK'
  BY <1>4 DEF Deliver
<1>5. ASSUME NEW i \in Intents, Mine(i) \/ Finalize(i) PROVE XTypeOK'
  BY <1>5 DEF Mine, Finalize
<1>6. ASSUME NEW i \in Intents, ChainReorg(i) PROVE XTypeOK'
  <2>1. reorgs' \in 0..MaxReorgs
    BY <1>6 DEF ChainReorg
  <2>2. QED
    BY <1>6, <2>1 DEF ChainReorg
<1>7. CASE Recovery
  BY <1>7 DEF Recovery, Reconcile, Look
<1>8. ASSUME NEW i \in Intents, SourceReorg(i) PROVE XTypeOK'
  BY <1>8 DEF SourceReorg
<1>9. CASE Operator
  BY <1>9 DEF Operator
<1>10. CASE UNCHANGED xvars
  BY <1>10 DEF xvars
<1>11. QED
  BY <1>2, <1>3, <1>4, <1>5, <1>6, <1>7, <1>8, <1>9, <1>10 DEF XNext, ChainStep

\* Every variable of the execution keeps its type.
THEOREM XTyping == XSpec => []XTypeOK
<1>1. XInit => XTypeOK
  BY XInitially
<1>2. QED
  BY <1>1, XTypeOKStep, PTL DEF XSpec

\* The execution implements the journal's specification: whatever the journal promises to any
\* caller holds here.
THEOREM ImplementsJournal == XSpec => JSpec
<1>1. XInit => JInit
  BY DEF XInit
<1>2. QED
  BY <1>1, StepImplements, XTyping, PTL DEF XSpec, JSpec

-----------------------------------------------------------------------------
\* Where the executors are after a step: one that worked still holds its intent, the others
\* have not moved, and only a reservation makes one work.
LEMMA Moves ==
    ASSUME XTypeOK, [XNext]_xvars, NEW s \in Executors, Working(s)'
    PROVE  /\ cur'[s] = cur[s]
           /\ Working(s) \/ (Reserve(s) /\ ReserveIntent(cur[s]))
<1> USE DEF XTypeOK, Working, Goto, Done
<1>1. ASSUME NEW t \in Executors, Execute(t)
      PROVE  cur'[s] = cur[s] /\ (Working(s) \/ (Reserve(s) /\ ReserveIntent(cur[s])))
  <2>1. CASE Reserve(t)
    BY <2>1 DEF Reserve
  <2>2. CASE Prepare(t) \/ ReadPendingCount(t) \/ Lease(t) \/ Bind(t) \/ Claim(t) \/ Raise(t)
    BY <2>2 DEF Prepare, Prepared, After, ReadPendingCount, Lease, Bind, Claim, Raise
  <2>3. CASE CleanUp(t) \/ Attempt(t) \/ Send(t) \/ Persist(t)
    BY <2>3 DEF CleanUp, Attempt, Send, NoAnswer, Persist
  <2>4. QED
    BY <1>1, <2>1, <2>2, <2>3 DEF Execute
<1>2. ASSUME NEW t \in Executors, Crash(t) PROVE cur'[s] = cur[s] /\ Working(s)
  BY <1>2 DEF Crash
<1>3. ASSUME NEW t \in Executors, NEW i \in Intents, Deliver(t, i) PROVE cur'[s] = cur[s] /\ Working(s)
  BY <1>3 DEF Deliver
<1>4. CASE UNCHANGED work
  BY <1>4
<1>5. ChainStep \/ Recovery \/ Operator \/ UNCHANGED xvars => UNCHANGED work
  BY DEF ChainStep, Mine, Finalize, ChainReorg, Recovery, Reconcile, Look, Operator, xvars
<1>6. ASSUME NEW i \in Intents, SourceReorg(i) PROVE UNCHANGED work
  BY <1>6 DEF SourceReorg
<1>7. QED
  BY <1>1, <1>2, <1>3, <1>4, <1>5, <1>6 DEF XNext

\* A job is never forgotten.
LEMMA JobsStay ==
    ASSUME JTypeOK, [JNext]_jvars, NEW i \in Intents, job[i] # "none"
    PROVE  job'[i] # "none"
<1> USE DEF JTypeOK
<1>1. ASSUME NEW j \in Intents, NEW to \in Preparation, TransitionJob(j, to) PROVE job'[i] # "none"
  BY <1>1 DEF TransitionJob
<1>2. ASSUME NEW j \in Intents, NEW r \in {"confirmed", "failed", "reorged"}, ReconcileJobReceipt(j, r)
      PROVE  job'[i] # "none"
  BY <1>2 DEF ReconcileJobReceipt
<1>3. ASSUME NEW j \in Intents, \/ ReserveIntent(j) \/ FailUnsubmittedJob(j) \/ ClaimSubmission(j)
                                \/ PersistBroadcast(j)
      PROVE  job'[i] # "none"
  BY <1>3 DEF ReserveIntent, FailUnsubmittedJob, ClaimSubmission, PersistBroadcast
<1>4. CASE UNCHANGED job
  BY <1>4
<1>5. ASSUME NEW j \in Intents, NEW n \in 0..Cardinality(Intents),
             AcquireNonce(j, n)
      PROVE  UNCHANGED job
  BY <1>5 DEF AcquireNonce
<1>6. ASSUME NEW j \in Intents, MarkUsed(j) \/ ClaimBroadcastAttempt(j) \/ RecordSourceReorg(j)
      PROVE  UNCHANGED job
  BY <1>6 DEF MarkUsed, ClaimBroadcastAttempt, RecordSourceReorg
<1>7. ASSUME NEW a \in Balances, SetCapitalSnapshot(a) PROVE UNCHANGED job
  BY <1>7 DEF SetCapitalSnapshot
<1>8. ResetBreaker \/ UNCHANGED jvars => UNCHANGED job
  BY DEF ResetBreaker, jvars
<1>9. QED
  BY <1>1, <1>2, <1>3, <1>4, <1>5, <1>6, <1>7, <1>8 DEF JNext

LEMMA OwnedStep == XTypeOK /\ Owned /\ [XNext]_xvars => Owned'
<1> SUFFICES ASSUME XTypeOK, Owned, [XNext]_xvars PROVE Owned'
  OBVIOUS
<1>1. [JNext]_jvars /\ JTypeOK
  BY StepImplements DEF XTypeOK
<1>2. ASSUME NEW s \in Executors, Working(s)' PROVE job'[cur'[s]] # "none"
  <2>1. cur'[s] = cur[s] /\ (Working(s) \/ (Reserve(s) /\ ReserveIntent(cur[s])))
    BY <1>2, Moves
  <2>2. CASE Working(s)
    BY <1>1, <2>1, <2>2, JobsStay, AtWork DEF Owned, Working
  <2>3. CASE Reserve(s) /\ ReserveIntent(cur[s])
    BY <1>1, <2>1, <2>3, AtWork DEF Reserve, ReserveIntent, JTypeOK
  <2>4. QED
    BY <2>1, <2>2, <2>3
<1>3. ASSUME NEW s \in Executors, NEW t \in Executors, s # t, Working(s)', Working(t)'
      PROVE  cur'[s] # cur'[t]
  <2>1. /\ cur'[s] = cur[s] /\ (Working(s) \/ (Reserve(s) /\ ReserveIntent(cur[s])))
        /\ cur'[t] = cur[t] /\ (Working(t) \/ (Reserve(t) /\ ReserveIntent(cur[t])))
    BY <1>3, Moves
  <2>2. ~(Reserve(s) /\ ReserveIntent(cur[s]) /\ Reserve(t) /\ ReserveIntent(cur[t]))
    BY <1>3, AtWork DEF Reserve, ReserveIntent, Goto, Done, XTypeOK, jvars, MayReserve, JTypeOK
  <2>3. QED
    BY <1>3, <2>1, <2>2 DEF Owned, ReserveIntent, MayReserve
<1>4. QED
  BY <1>2, <1>3 DEF Owned

-----------------------------------------------------------------------------
\* Only the executor that has claimed the attempt sends, and it sends once.
LEMMA SendingStep ==
    XTypeOK /\ Owned /\ Sending /\ SentOnce /\ [XNext]_xvars => Sending' /\ SentOnce'
<1> SUFFICES ASSUME XTypeOK, Owned, Sending, SentOnce, [XNext]_xvars PROVE Sending' /\ SentOnce'
  OBVIOUS
<1> USE DEF XTypeOK, JTypeOK, Sending, SentOnce, Goto, Done
<1>1. ASSUME NEW s \in Executors, Execute(s) PROVE Sending' /\ SentOnce'
  <2>1. CASE Reserve(s) \/ Prepare(s) \/ ReadPendingCount(s) \/ Lease(s)
    BY <2>1 DEF Reserve, Prepare, Prepared, After, ReadPendingCount, Lease, ReserveIntent,
                TransitionJob, AcquireNonce, jvars
  <2>2. CASE Bind(s) \/ Claim(s) \/ Raise(s) \/ CleanUp(s) \/ Persist(s)
    BY <2>2 DEF Bind, Claim, Raise, CleanUp, Persist, MarkUsed, ClaimSubmission,
                FailUnsubmittedJob, PersistBroadcast, jvars
  <2>3. CASE Attempt(s)
    BY <2>3, AtWork DEF Attempt, ClaimBroadcastAttempt, MayAttempt, jvars
  <2>4. CASE Send(s)
    <3>1. cur[s] \in Intents /\ sends[cur[s]] = 0 /\ cur[s] \in attempted
      BY <2>4 DEF Send
    <3>2. \A t \in Executors : pc'[t] = "send" => t # s /\ pc[t] = "send" /\ cur'[t] = cur[t]
      BY <2>4 DEF Send, NoAnswer
    <3>3. \A t \in Executors : pc'[t] = "send" => cur[t] # cur[s]
      BY <2>4, <3>2 DEF Send, Owned, Working
    <3>4. SentOnce'
      BY <2>4, <3>1 DEF Send
    <3>5. attempted' = attempted
      BY <2>4 DEF Send, jvars
    <3>6. \A i \in Intents : (i \notin attempted => sends'[i] = 0) /\ (sends'[i] = 0 => tx'[i] = "none")
      BY <2>4, <3>1 DEF Send
    <3>7. \A t \in Executors : pc'[t] = "send" => cur'[t] \in attempted /\ sends'[cur'[t]] = 0
      BY <2>4, <3>2, <3>3 DEF Send
    <3>8. QED
      BY <3>4, <3>5, <3>6, <3>7
  <2>5. QED
    BY <1>1, <2>1, <2>2, <2>3, <2>4 DEF Execute
<1>2. ASSUME NEW s \in Executors, Crash(s) PROVE Sending' /\ SentOnce'
  BY <1>2 DEF Crash, jvars
<1>3. ASSUME NEW s \in Executors, NEW i \in Intents, Deliver(s, i) PROVE Sending' /\ SentOnce'
  BY <1>3 DEF Deliver, jvars
<1>4. ASSUME NEW i \in Intents, Mine(i) \/ Finalize(i) \/ ChainReorg(i) PROVE Sending' /\ SentOnce'
  BY <1>4 DEF Mine, Finalize, ChainReorg, Mined, jvars
<1>5. CASE Recovery
  BY <1>5 DEF Recovery, Reconcile, ReconcileJobReceipt, Look, jvars
<1>6. ASSUME NEW i \in Intents, SourceReorg(i) PROVE Sending' /\ SentOnce'
  BY <1>6 DEF SourceReorg, RecordSourceReorg
<1>7. CASE Operator
  BY <1>7 DEF Operator, ResetBreaker, SetCapitalSnapshot
<1>8. CASE UNCHANGED xvars
  BY <1>8 DEF xvars, jvars
<1>9. QED
  BY <1>1, <1>2, <1>3, <1>4, <1>5, <1>6, <1>7, <1>8 DEF XNext, ChainStep

\* The lease is bound before the submission is claimed, and stays bound.
LEMMA BoundedStep == XTypeOK /\ Bounded /\ [XNext]_xvars => Bounded'
<1> SUFFICES ASSUME XTypeOK, Bounded, [XNext]_xvars PROVE Bounded'
  OBVIOUS
<1> USE DEF XTypeOK, JTypeOK, Bounded, Goto, Done
<1>1. ASSUME NEW s \in Executors, Execute(s) PROVE Bounded'
  <2>1. CASE Reserve(s) \/ Prepare(s) \/ ReadPendingCount(s) \/ Lease(s)
    BY <2>1 DEF Reserve, Prepare, Prepared, After, ReadPendingCount, Lease, ReserveIntent,
                TransitionJob, AcquireNonce, jvars
  <2>2. CASE Bind(s)
    BY <2>2 DEF Bind, MarkUsed
  <2>3. CASE Claim(s)
    BY <2>3 DEF Claim, ClaimSubmission
  <2>4. CASE Raise(s) \/ CleanUp(s) \/ Attempt(s)
    BY <2>4 DEF Raise, CleanUp, Attempt, FailUnsubmittedJob, ClaimBroadcastAttempt, jvars
  <2>5. CASE Send(s) \/ Persist(s)
    BY <2>5 DEF Send, NoAnswer, Persist, PersistBroadcast, jvars
  <2>6. QED
    BY <1>1, <2>1, <2>2, <2>3, <2>4, <2>5 DEF Execute
<1>2. ASSUME NEW s \in Executors, Crash(s) PROVE Bounded'
  BY <1>2 DEF Crash, jvars
<1>3. ASSUME NEW s \in Executors, NEW i \in Intents, Deliver(s, i) PROVE Bounded'
  BY <1>3 DEF Deliver, jvars
<1>4. CASE ChainStep
  BY <1>4 DEF ChainStep, Mine, Finalize, ChainReorg, jvars
<1>5. CASE Recovery
  BY <1>5 DEF Recovery, Reconcile, ReconcileJobReceipt, Look, jvars
<1>6. ASSUME NEW i \in Intents, SourceReorg(i) PROVE Bounded'
  BY <1>6 DEF SourceReorg, RecordSourceReorg
<1>7. CASE Operator
  BY <1>7 DEF Operator, ResetBreaker, SetCapitalSnapshot
<1>8. CASE UNCHANGED xvars
  BY <1>8 DEF xvars, jvars
<1>9. QED
  BY <1>1, <1>2, <1>3, <1>4, <1>5, <1>6, <1>7, <1>8 DEF XNext

\* Finality is not revised, and a report of it cannot go stale.
LEMMA TruthStep == XTypeOK /\ Sending /\ Truth /\ [XNext]_xvars => Truth'
<1> SUFFICES ASSUME XTypeOK, Sending, Truth, [XNext]_xvars PROVE Truth'
  OBVIOUS
<1> USE NoReportPending DEF XTypeOK, Truth, Mined
<1>1. ASSUME NEW s \in Executors, Send(s) PROVE Truth'
  BY <1>1 DEF Send
<1>2. ASSUME NEW i \in Intents, Mine(i) PROVE Truth'
  BY <1>2 DEF Mine
<1>3. ASSUME NEW i \in Intents, Finalize(i) PROVE Truth'
  BY <1>3 DEF Finalize
<1>4. ASSUME NEW i \in Intents, ChainReorg(i) PROVE Truth'
  BY <1>4 DEF ChainReorg
<1>5. CASE Recovery
  BY <1>5 DEF Recovery, Reconcile, Look, Receipt
<1>6. CASE UNCHANGED <<chain, report>>
  BY <1>6
<1>7. ASSUME NEW s \in Executors, Execute(s), ~Send(s) PROVE UNCHANGED <<chain, report>>
  BY <1>7 DEF Execute, Reserve, Prepare, ReadPendingCount, Lease, Bind, Claim, Raise, CleanUp,
              Attempt, Persist
<1>8. ASSUME NEW s \in Executors, NEW i \in Intents, Deliver(s, i) PROVE UNCHANGED <<chain, report>>
  BY <1>8 DEF Deliver
<1>9. ASSUME NEW s \in Executors, Crash(s) PROVE UNCHANGED <<chain, report>>
  BY <1>9 DEF Crash
<1>10. ASSUME NEW i \in Intents, SourceReorg(i) PROVE UNCHANGED <<chain, report>>
  BY <1>10 DEF SourceReorg
<1>11. Operator \/ UNCHANGED xvars => UNCHANGED <<chain, report>>
  BY DEF Operator, xvars
<1>12. QED
  BY <1>1, <1>2, <1>3, <1>4, <1>5, <1>6, <1>7, <1>8, <1>9, <1>10, <1>11 DEF XNext, ChainStep

\* The chain never takes back what is final.
LEMMA FinalStays ==
    ASSUME XTypeOK, Truth, [XNext]_xvars, NEW i \in final
    PROVE  i \in final' /\ tx'[i] = tx[i]
<1> USE DEF XTypeOK, Truth, Mined
<1>1. ASSUME NEW s \in Executors, Send(s) PROVE i \in final' /\ tx'[i] = tx[i]
  BY <1>1 DEF Send
<1>2. ASSUME NEW j \in Intents, Mine(j) \/ Finalize(j) PROVE i \in final' /\ tx'[i] = tx[i]
  BY <1>2 DEF Mine, Finalize
<1>3. ASSUME NEW j \in Intents, ChainReorg(j) PROVE i \in final' /\ tx'[i] = tx[i]
  BY <1>3 DEF ChainReorg
<1>4. ASSUME NEW s \in Executors, Execute(s), ~Send(s) PROVE UNCHANGED chain
  BY <1>4 DEF Execute, Reserve, Prepare, ReadPendingCount, Lease, Bind, Claim, Raise, CleanUp,
              Attempt, Persist
<1>5. ASSUME NEW s \in Executors, NEW j \in Intents, Deliver(s, j) PROVE UNCHANGED chain
  BY <1>5 DEF Deliver
<1>6. ASSUME NEW s \in Executors, Crash(s) PROVE UNCHANGED chain
  BY <1>6 DEF Crash
<1>7. ASSUME NEW j \in Intents, SourceReorg(j) PROVE UNCHANGED chain
  BY <1>7 DEF SourceReorg
<1>8. Recovery \/ Operator \/ UNCHANGED xvars => UNCHANGED chain
  BY DEF Recovery, Reconcile, Look, Operator, xvars
<1>9. QED
  BY <1>1, <1>2, <1>3, <1>4, <1>5, <1>6, <1>7, <1>8 DEF XNext, ChainStep

\* A job ends by a receipt of its outcome, or unsubmitted and never attempted.
LEMMA EndsStep ==
    XTypeOK /\ Safe /\ Truth /\ EndsAsFinalized /\ [XNext]_xvars => EndsAsFinalized'
<1> SUFFICES ASSUME XTypeOK, Safe, Truth, EndsAsFinalized, [XNext]_xvars PROVE EndsAsFinalized'
  OBVIOUS
<1> DEFINE Ended(i, r) == Reconcile /\ report.intent = i /\ report.status = r
           NewEnds(i) == /\ job'[i] = "confirmed" => job[i] = "confirmed" \/ Ended(i, "confirmed")
                         /\ job'[i] = "failed" /\ i \in attempted' =>
                              (job[i] = "failed" /\ i \in attempted) \/ Ended(i, "failed")
<1>1. ASSUME NEW i \in Intents PROVE NewEnds(i)
  <2> USE DEF XTypeOK, JTypeOK
  <2>1. ASSUME NEW s \in Executors, Execute(s) PROVE NewEnds(i)
    <3>1. CASE Reserve(s) \/ Claim(s) \/ Persist(s)
      BY <3>1 DEF Reserve, Claim, Persist, ReserveIntent, ClaimSubmission, PersistBroadcast, jvars
    <3>2. CASE Prepare(s)
      <4>1. job' = [job EXCEPT ![cur[s]] = Prepared[pc[s]]] /\ attempted' = attempted
        BY <3>2 DEF Prepare, TransitionJob
      <4>2. Prepared[pc[s]] \in Preparation
        BY <3>2 DEF Prepare, Prepared
      <4>3. QED
        BY <4>1, <4>2
    <3>3. CASE CleanUp(s)
      BY <3>3 DEF CleanUp, FailUnsubmittedJob, MayRelease, jvars
    <3>4. CASE Attempt(s)
      BY <3>4 DEF Attempt, ClaimBroadcastAttempt, MayAttempt, jvars
    <3>5. CASE ReadPendingCount(s) \/ Lease(s) \/ Bind(s) \/ Raise(s) \/ Send(s)
      BY <3>5 DEF ReadPendingCount, Lease, AcquireNonce, Bind, MarkUsed, Raise, Send, jvars
    <3>6. QED
      BY <2>1, <3>1, <3>2, <3>3, <3>4, <3>5 DEF Execute
  <2>2. CASE Reconcile
    BY <2>2 DEF Reconcile, ReconcileJobReceipt, jvars
  <2>3. CASE UNCHANGED <<job, attempted>>
    BY <2>3
  <2>4. ASSUME NEW s \in Executors, NEW j \in Intents, Deliver(s, j) PROVE UNCHANGED <<job, attempted>>
    BY <2>4 DEF Deliver, jvars
  <2>5. ASSUME NEW s \in Executors, Crash(s) PROVE UNCHANGED <<job, attempted>>
    BY <2>5 DEF Crash, jvars
  <2>6. ASSUME NEW j \in Intents, Look(j) \/ SourceReorg(j) PROVE UNCHANGED <<job, attempted>>
    BY <2>6 DEF Look, SourceReorg, RecordSourceReorg, jvars
  <2>7. ChainStep \/ Operator \/ UNCHANGED xvars => UNCHANGED <<job, attempted>>
    BY DEF ChainStep, Mine, Finalize, ChainReorg, Operator, ResetBreaker, SetCapitalSnapshot,
           xvars, jvars
  <2>8. QED
    BY <2>1, <2>2, <2>3, <2>4, <2>5, <2>6, <2>7 DEF XNext, Recovery
<1>2. QED
  BY <1>1, FinalStays DEF EndsAsFinalized, Truth

-----------------------------------------------------------------------------
\* The inductive invariant of the execution.
THEOREM XInductive == XSpec => [](XTypeOK /\ XInv)
<1>1. XInit => XTypeOK /\ XInv
  BY XInitially
<1>2. XTypeOK /\ XInv /\ [XNext]_xvars => (XTypeOK /\ XInv)'
  <2> SUFFICES ASSUME XTypeOK, XInv, [XNext]_xvars PROVE (XTypeOK /\ XInv)'
    OBVIOUS
  <2>1. XTypeOK'
    BY XTypeOKStep
  <2>2. Safe'
    BY StepImplements, SafeStep DEF XInv, XTypeOK
  <2>3. Owned' /\ Sending' /\ SentOnce' /\ Bounded' /\ Truth' /\ EndsAsFinalized'
    BY OwnedStep, SendingStep, BoundedStep, TruthStep, EndsStep DEF XInv
  <2>4. QED
    BY <2>1, <2>2, <2>3 DEF XInv
<1>3. QED
  BY <1>1, <1>2, PTL DEF XSpec

\* The bytes of an intent are handed to a node at most once.
THEOREM NeverSentTwice == XSpec => []SentOnce
<1>1. XInv => SentOnce
  BY DEF XInv
<1>2. QED
  BY <1>1, XInductive, PTL

\* Money stays held while a transaction may spend it.
THEOREM MoneyIsHeld == XSpec => []MoneyStaysWithTransaction
<1>1. ASSUME XTypeOK, XInv PROVE MoneyStaysWithTransaction
  <2> SUFFICES ASSUME NEW i \in Intents, tx[i] # "none", ~(i \in final /\ tx[i] = "bad")
               PROVE  hold[i] = "active"
    BY DEF MoneyStaysWithTransaction
  <2>1. i \in attempted
    BY <1>1 DEF XInv, Sending
  <2>2. hashed[i] /\ job[i] # "none"
    BY <1>1, <2>1 DEF XInv, Safe, AttemptIsPrecommitted, Identity
  <2>3. job[i] # "failed"
    BY <1>1, <2>1 DEF XInv, EndsAsFinalized
  <2>4. QED
    BY <1>1, <2>2, <2>3 DEF XInv, Safe, HeldUntilFailed
<1>2. QED
  BY <1>1, XInductive, PTL

\* No two transactions that the chain knows carry the same nonce.
THEOREM NoncesNeverCompete == XSpec => []SentNoncesDistinct
<1>1. ASSUME XTypeOK, XInv PROVE SentNoncesDistinct
  <2> SUFFICES ASSUME NEW i \in Intents, NEW j \in Intents, tx[i] # "none", tx[j] # "none", i # j
               PROVE  bound[i] /\ lease[i] # lease[j]
    BY DEF SentNoncesDistinct
  <2>1. i \in attempted /\ hashed[i]
    BY <1>1 DEF XInv, Sending, Safe, AttemptIsPrecommitted
  <2>2. bound[i] /\ lease[i] # NoNonce
    BY <1>1, <2>1 DEF XInv, Bounded, Safe, Identity
  <2>3. QED
    BY <1>1, <2>2 DEF XInv, Safe, NoncesDistinct
<1>2. QED
  BY <1>1, XInductive, PTL

\* An intent has one transaction at most, and a nonce one intent's.
THEOREM TransactionsAreApart == XSpec => []OneTransactionEach
BY NeverSentTwice, NoncesNeverCompete, PTL DEF OneTransactionEach

\* Jobs end as the finalized chain says.
THEOREM EndsAreTrue == XSpec => []EndsAsFinalized
<1>1. XInv => EndsAsFinalized
  BY DEF XInv
<1>2. QED
  BY <1>1, XInductive, PTL

\* A reverted signal that was not attempted before is neither attempted nor sent.
THEOREM RevertedStaysUnsent == XSpec => RevertedSignalNotSent
<1> DEFINE Spared(i) ==
      i \in fenced /\ i \notin attempted => sends'[i] = sends[i] /\ i \notin attempted'
<1>1. ASSUME XTypeOK, XInv, [XNext]_xvars, NEW i \in Intents PROVE Spared(i)
  <2> USE <1>1 DEF XTypeOK, JTypeOK, XInv, Sending
  <2>1. ASSUME NEW s \in Executors, Send(s) PROVE Spared(i)
    BY <2>1 DEF Send, jvars
  <2>2. ASSUME NEW s \in Executors, Attempt(s) PROVE Spared(i)
    BY <2>2 DEF Attempt, ClaimBroadcastAttempt, MayAttempt, jvars
  <2>3. CASE UNCHANGED <<attempted, sends>>
    BY <2>3
  <2>4. ASSUME NEW s \in Executors, Execute(s), ~Send(s), ~Attempt(s)
        PROVE  UNCHANGED <<attempted, sends>>
    BY <2>4 DEF Execute, Reserve, Prepare, ReadPendingCount, Lease, Bind, Claim, Raise, CleanUp,
                Persist, ReserveIntent, TransitionJob, AcquireNonce, MarkUsed, ClaimSubmission,
                FailUnsubmittedJob, PersistBroadcast, jvars
  <2>5. ASSUME NEW s \in Executors, NEW j \in Intents, Deliver(s, j)
        PROVE  UNCHANGED <<attempted, sends>>
    BY <2>5 DEF Deliver, jvars
  <2>6. ASSUME NEW s \in Executors, Crash(s) PROVE UNCHANGED <<attempted, sends>>
    BY <2>6 DEF Crash, jvars
  <2>7. ASSUME NEW j \in Intents, SourceReorg(j) PROVE UNCHANGED <<attempted, sends>>
    BY <2>7 DEF SourceReorg, RecordSourceReorg
  <2>8. ChainStep \/ Recovery \/ Operator \/ UNCHANGED xvars => UNCHANGED <<attempted, sends>>
    BY DEF ChainStep, Mine, Finalize, ChainReorg, Recovery, Reconcile, ReconcileJobReceipt, Look,
           Operator, ResetBreaker, SetCapitalSnapshot, xvars, jvars
  <2>9. QED
    BY <2>1, <2>2, <2>3, <2>4, <2>5, <2>6, <2>7, <2>8 DEF XNext
<1>2. XTypeOK /\ XInv /\ [XNext]_xvars => [\A i \in Intents : Spared(i)]_xvars
  BY <1>1
<1>3. QED
  BY <1>2, XInductive, PTL DEF XSpec, RevertedSignalNotSent
=============================================================================
