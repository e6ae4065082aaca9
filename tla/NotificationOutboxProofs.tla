---------------------- MODULE NotificationOutboxProofs ----------------------
(***************************************************************************)
(* Proofs about NotificationOutbox for every set of events and channels    *)
(* and any number of failures, interruptions and reconfigurations.         *)
(***************************************************************************)
EXTENDS NotificationOutbox, FiniteSetTheorems, TLAPS

USE DEF InHand

LEMMA StoredIsNat == Stored \in Nat
<1>1. IsFiniteSet(Rows)
  BY OutboxAssumption, FS_Product DEF Rows
<1>2. IsFiniteSet({r \in Rows : status[r] # "absent"})
  BY <1>1, FS_Subset
<1>3. QED
  BY <1>2, FS_CardinalityType DEF Stored

LEMMA TypeOKInitially == Init => TypeOK
<1> SUFFICES ASSUME Init PROVE TypeOK
  OBVIOUS
<1>1. crashes \in 0..MaxCrashes
  BY OutboxAssumption DEF Init
<1>2. pc = "idle" /\ pc \notin InHand
  BY DEF Init
<1>3. QED
  BY <1>1, <1>2 DEF Init, TypeOK

LEMMA TypeOKStep == TypeOK /\ [Next]_vars => TypeOK'
<1> SUFFICES ASSUME TypeOK, [Next]_vars PROVE TypeOK'
  OBVIOUS
<1> USE OutboxAssumption DEF TypeOK, world, outbox, thread
<1>1. ASSUME NEW e \in Events, GrowOld(e) PROVE TypeOK'
  BY <1>1 DEF GrowOld
<1>2. ASSUME NEW e \in Events, Enqueue(e) PROVE TypeOK'
  <2>1. arrival' \in [Rows -> Nat]
    BY <1>2, StoredIsNat DEF Enqueue
  <2>2. QED
    BY <1>2, <2>1 DEF Enqueue
<1>3. ASSUME NEW r \in Rows, BackoffElapses(r) PROVE TypeOK'
  BY <1>3 DEF BackoffElapses
<1>4. CASE StartDrain
  BY <1>4 DEF StartDrain, Due
<1>5. ASSUME NEW r \in Rows, SuppressDisabled(r) \/ SuppressStale(r) PROVE TypeOK'
  BY <1>5 DEF SuppressDisabled, SuppressStale, FirstInBatch
<1>6. ASSUME NEW r \in Rows, TakeRow(r) PROVE TypeOK'
  BY <1>6 DEF TakeRow, FirstInBatch, Load
<1>7. CASE EndDrain
  BY <1>7 DEF EndDrain
<1>8. CASE Send \/ SendFails \/ AnswerLost
  BY <1>8 DEF Send, SendFails, AnswerLost, Arrive
<1>9. CASE CommitSent
  BY <1>9 DEF CommitSent, Attempted
<1>10. CASE CommitFailed
  <2>1. attempts' \in [Rows -> Nat] /\ waiting' \subseteq Rows
    BY <1>10 DEF CommitFailed, Attempted
  <2>2. QED
    BY <1>10, <2>1 DEF CommitFailed
<1>11. CASE ThreadDies \/ Restart
  <2>1. crashes' \in 0..MaxCrashes
    BY <1>11 DEF ThreadDies, Restart
  <2>2. QED
    BY <1>11, <2>1 DEF ThreadDies, Restart
<1>12. CASE UNCHANGED vars
  BY <1>12 DEF vars
<1>13. QED
  BY <1>1, <1>2, <1>3, <1>4, <1>5, <1>6, <1>7, <1>8, <1>9, <1>10, <1>11, <1>12
  DEF Next, Work, Suppress

\* Every variable of the outbox and of its worker keeps its type.
THEOREM Typing == Spec => []TypeOK
BY TypeOKInitially, TypeOKStep, PTL DEF Spec

-----------------------------------------------------------------------------
IInv == TypeOK /\ Pursuit /\ SentWasDelivered /\ DuplicatesExplained

LEMMA IInvInitially == Init => IInv
<1> SUFFICES ASSUME Init PROVE IInv
  OBVIOUS
<1>1. TypeOK
  BY TypeOKInitially
<1>2. Pursuit /\ SentWasDelivered
  BY DEF Init, Pursuit, SentWasDelivered
<1>3. DuplicatesExplained
  BY DEF Init, DuplicatesExplained
<1>4. QED
  BY <1>1, <1>2, <1>3 DEF IInv

LEMMA PursuitStep == IInv /\ [Next]_vars => Pursuit'
<1> SUFFICES ASSUME IInv, [Next]_vars PROVE Pursuit'
  OBVIOUS
<1> USE DEF IInv, TypeOK, Pursuit, world, outbox, thread, Wanted
<1>1. ASSUME NEW e \in Events, GrowOld(e) PROVE Pursuit'
  BY <1>1 DEF GrowOld
<1>2. ASSUME NEW e \in Events, Enqueue(e) PROVE Pursuit'
  BY <1>2 DEF Enqueue
<1>3. ASSUME NEW r \in Rows, BackoffElapses(r) PROVE Pursuit'
  BY <1>3 DEF BackoffElapses
<1>4. CASE StartDrain
  BY <1>4 DEF StartDrain, Due
<1>5. ASSUME NEW r \in Rows, SuppressDisabled(r) \/ SuppressStale(r) PROVE Pursuit'
  BY <1>5 DEF SuppressDisabled, SuppressStale, FirstInBatch
<1>6. ASSUME NEW r \in Rows, TakeRow(r) PROVE Pursuit'
  BY <1>6 DEF TakeRow, FirstInBatch, Load
<1>7. CASE EndDrain
  BY <1>7 DEF EndDrain
<1>8. CASE Send \/ SendFails \/ AnswerLost
  BY <1>8 DEF Send, SendFails, AnswerLost, Arrive
<1>9. CASE CommitSent
  BY <1>9 DEF CommitSent
<1>10. CASE CommitFailed
  BY <1>10 DEF CommitFailed
<1>11. CASE ThreadDies \/ Restart
  BY <1>11 DEF ThreadDies, Restart
<1>12. CASE UNCHANGED vars
  BY <1>12 DEF vars
<1>13. QED
  BY <1>1, <1>2, <1>3, <1>4, <1>5, <1>6, <1>7, <1>8, <1>9, <1>10, <1>11, <1>12
  DEF Next, Work, Suppress

LEMMA SentStep == IInv /\ [Next]_vars => SentWasDelivered'
<1> SUFFICES ASSUME IInv, [Next]_vars, NEW r \in Rows, status'[r] = "sent"
             PROVE  delivered'[r] > 0
  BY DEF SentWasDelivered
<1> USE DEF IInv, TypeOK, Pursuit, SentWasDelivered, world, outbox, thread
<1>1. CASE Send \/ AnswerLost
  BY <1>1 DEF Send, AnswerLost, Arrive
<1>2. CASE CommitSent
  BY <1>2 DEF CommitSent
<1>3. CASE CommitFailed
  BY <1>3 DEF CommitFailed
<1>4. ASSUME NEW e \in Events, Enqueue(e) PROVE delivered'[r] > 0
  BY <1>4 DEF Enqueue
<1>5. ASSUME NEW q \in Rows, SuppressDisabled(q) \/ SuppressStale(q) PROVE delivered'[r] > 0
  BY <1>5 DEF SuppressDisabled, SuppressStale
<1>6. ASSUME UNCHANGED <<status, delivered>> PROVE delivered'[r] > 0
  BY <1>6
<1>7. QED
  BY <1>1, <1>2, <1>3, <1>4, <1>5, <1>6
  DEF Next, Work, Suppress, vars, GrowOld, BackoffElapses, StartDrain, TakeRow, EndDrain,
      SendFails, ThreadDies, Restart

LEMMA DuplicatesStep == IInv /\ [Next]_vars => DuplicatesExplained'
<1> SUFFICES ASSUME IInv, [Next]_vars PROVE DuplicatesExplained'
  OBVIOUS
<1> USE DEF IInv, TypeOK, Pursuit, DuplicatesExplained, world, outbox, thread
<1>1. CASE Send \/ AnswerLost
  BY <1>1 DEF Send, AnswerLost, Arrive
<1>2. CASE CommitSent \/ CommitFailed
  <2>1. attempts' = [attempts EXCEPT ![cur] = @ + 1] /\ UNCHANGED <<delivered, crashes>>
    BY <1>2 DEF CommitSent, CommitFailed, Attempted
  <2>2. QED
    BY <1>2, <2>1 DEF CommitSent, CommitFailed
<1>3. CASE ThreadDies \/ Restart
  BY <1>3, OutboxAssumption DEF ThreadDies, Restart
<1>4. ASSUME NEW q \in Rows, SuppressDisabled(q) \/ SuppressStale(q) PROVE DuplicatesExplained'
  BY <1>4 DEF SuppressDisabled, SuppressStale, FirstInBatch
<1>5. ASSUME NEW q \in Rows, TakeRow(q) PROVE DuplicatesExplained'
  BY <1>5 DEF TakeRow, FirstInBatch
<1>6. CASE StartDrain \/ EndDrain \/ SendFails
  BY <1>6 DEF StartDrain, EndDrain, SendFails
<1>7. ASSUME UNCHANGED <<attempts, delivered, crashes, pc, cur>> PROVE DuplicatesExplained'
  BY <1>7
<1>8. QED
  BY <1>1, <1>2, <1>3, <1>4, <1>5, <1>6, <1>7
  DEF Next, Work, Suppress, vars, GrowOld, BackoffElapses, Enqueue

\* The worker holds rows that are still to be sent; that carries the two accounts below.
THEOREM Inductive == Spec => []IInv
<1>1. IInv /\ [Next]_vars => IInv'
  BY TypeOKStep, PursuitStep, SentStep, DuplicatesStep DEF IInv
<1>2. QED
  BY <1>1, IInvInitially, PTL DEF Spec

\* No row is recorded as sent unless the platform has its message.
THEOREM SentMeansDelivered == Spec => []SentWasDelivered
BY Inductive, PTL DEF IInv

\* Repetitions are bounded by counted attempts and interruptions.
THEOREM DuplicatesBounded == Spec => []DuplicatesExplained
BY Inductive, PTL DEF IInv

\* Both at once: the rows account for what the platforms were sent.
THEOREM RowsAccountForDeliveries == Spec => []DeliveriesExplained
BY SentMeansDelivered, DuplicatesBounded, PTL DEF DeliveriesExplained

\* Only a row that is pending or to be retried is ever sent.
THEOREM SettledStaysSilent == Spec => NeverResent
<1>1. IInv /\ [Next]_vars =>
        [\A r \in Rows : delivered'[r] # delivered[r] => status[r] \in {"pending", "retry"}]_vars
  <2> SUFFICES ASSUME IInv, [Next]_vars, NEW r \in Rows, delivered'[r] # delivered[r]
               PROVE  status[r] \in {"pending", "retry"}
    OBVIOUS
  <2>1. Send \/ AnswerLost
    BY DEF Next, Work, Suppress, vars, world, GrowOld, BackoffElapses, Enqueue, StartDrain,
           SuppressDisabled, SuppressStale, TakeRow, EndDrain, SendFails, CommitSent,
           CommitFailed, ThreadDies, Restart
  <2>2. QED
    BY <2>1 DEF Send, AnswerLost, Arrive, IInv, TypeOK, Pursuit
<1>2. QED
  BY <1>1, Inductive, PTL DEF Spec, NeverResent

\* No message leaves for a channel that is switched off.
THEOREM SwitchedOffStaysSilent == Spec => DisabledStaysSilent
<1>1. IInv /\ [Next]_vars =>
        [\A r \in Rows : delivered'[r] # delivered[r] => r[2] \in enabled \cup {Console}]_vars
  <2> SUFFICES ASSUME IInv, [Next]_vars, NEW r \in Rows, delivered'[r] # delivered[r]
               PROVE  r[2] \in enabled \cup {Console}
    OBVIOUS
  <2>1. Send \/ AnswerLost
    BY DEF Next, Work, Suppress, vars, world, GrowOld, BackoffElapses, Enqueue, StartDrain,
           SuppressDisabled, SuppressStale, TakeRow, EndDrain, SendFails, CommitSent,
           CommitFailed, ThreadDies, Restart
  <2>2. QED
    BY <2>1 DEF Send, AnswerLost, Arrive, IInv, TypeOK, Pursuit, Wanted
<1>2. QED
  BY <1>1, Inductive, PTL DEF Spec, DisabledStaysSilent
=============================================================================
