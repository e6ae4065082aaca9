--------------------------- MODULE IngressProofs ---------------------------
(***************************************************************************)
(* Proofs about Ingress for every tree of blocks, every set of swaps and   *)
(* any number of services, for reorgs of any depth: the deliveries are     *)
(* safe whatever was read, and the stream follows the chain but for what a *)
(* step of the poller has parted from it.                                  *)
(***************************************************************************)
EXTENDS Ingress, WellFoundedInduction, NaturalsInduction, TLAPS

-----------------------------------------------------------------------------
(* The queue, for any number of signals, services and mishaps.               *)

LEMMA QTypeOKInitially == QInit => QTypeOK
<1> SUFFICES ASSUME QInit PROVE QTypeOK
  OBVIOUS
<1>1. mishaps \in 0..MaxMishaps
  BY SignalQueueAssumption DEF QInit
<1>2. rows \in Seq(Signals) /\ DOMAIN rows = {}
  BY DEF QInit
<1>3. QED
  BY <1>1, <1>2, SignalQueueAssumption DEF QInit, QTypeOK, Terminal, Owners

\* A row is added behind the others, and only for a signal that has none.
LEMMA AppendRow ==
    ASSUME QTypeOK, NEW i \in Signals, status[i] = "absent"
    PROVE  LET rows2 == Append(rows, i) IN
           /\ rows2 \in Seq(Signals)
           /\ \A m, n \in DOMAIN rows2 : rows2[m] = rows2[n] => m = n
           /\ \A j \in Signals : (\E n \in DOMAIN rows2 : rows2[n] = j)
                                   <=> (j = i \/ \E n \in DOMAIN rows : rows[n] = j)
<1> DEFINE rows2 == Append(rows, i)
<1>1. rows \in Seq(Signals) /\ ~(\E n \in DOMAIN rows : rows[n] = i)
  BY DEF QTypeOK
<1>2. /\ DOMAIN rows = 1..Len(rows) /\ Len(rows) \in Nat
      /\ DOMAIN rows2 = 1..(Len(rows) + 1)
      /\ \A n \in DOMAIN rows : rows2[n] = rows[n]
      /\ rows2[Len(rows) + 1] = i
  BY <1>1
<1>3. \A m, n \in DOMAIN rows2 : rows2[m] = rows2[n] => m = n
  <2> SUFFICES ASSUME NEW m \in DOMAIN rows2, NEW n \in DOMAIN rows2, rows2[m] = rows2[n]
               PROVE  m = n
    OBVIOUS
  <2>1. CASE m \in DOMAIN rows /\ n \in DOMAIN rows
    BY <2>1, <1>2 DEF QTypeOK
  <2>2. CASE m = Len(rows) + 1 \/ n = Len(rows) + 1
    <3>1. m \in DOMAIN rows \/ m = Len(rows) + 1
      BY <1>2
    <3>2. n \in DOMAIN rows \/ n = Len(rows) + 1
      BY <1>2
    <3>3. QED
      BY <1>1, <1>2, <2>2, <3>1, <3>2
  <2>3. QED
    BY <1>2, <2>1, <2>2
<1>4. \A j \in Signals : (\E n \in DOMAIN rows2 : rows2[n] = j)
                            <=> (j = i \/ \E n \in DOMAIN rows : rows[n] = j)
  BY <1>2
<1>5. QED
  BY <1>1, <1>3, <1>4

\* The table, its leases, the journal and the services: the parts of QTypeOK that most
\* steps leave alone.
TableOK ==
    /\ rows \in Seq(Signals)
    /\ \A m, n \in DOMAIN rows : rows[m] = rows[n] => m = n
    /\ status \in [Signals -> Terminal \cup {"absent", "queued", "claimed"}]
    /\ \A i \in Signals : status[i] # "absent" <=> \E n \in DOMAIN rows : rows[n] = i
LeasesOK ==
    /\ claimant \in [Signals -> Owners]
    /\ \A i \in Signals : claimant[i] # Nobody => status[i] = "claimed"
    /\ lock \in Owners
JournalOK ==
    /\ fenced \subseteq Signals /\ breaker \in BOOLEAN
    /\ recorded \subseteq Signals /\ attempted \subseteq Signals
ServiceOK ==
    /\ step \in [Services -> {"idle", "claim", "check", "control", "reserve", "submit", "finish"}]
    /\ cur \in [Services -> Signals \cup {NoSignal}]
    /\ verdict \in [Services -> Terminal \cup {"none"}]
    /\ \A s \in Services :
          /\ cur[s] = NoSignal <=> step[s] \in {"idle", "claim"}
          /\ verdict[s] = "none" <=> step[s] # "finish"

LEMMA TypeParts == QTypeOK <=> TableOK /\ LeasesOK /\ JournalOK /\ ServiceOK /\ mishaps \in 0..MaxMishaps
BY DEF QTypeOK, TableOK, LeasesOK, JournalOK, ServiceOK

LEMMA ServeTypes == ASSUME QTypeOK, NEW s \in Services, Serve(s) PROVE QTypeOK'
<1>0. TableOK /\ LeasesOK /\ JournalOK /\ ServiceOK /\ mishaps \in 0..MaxMishaps
  BY TypeParts
<1>m. (mishaps \in 0..MaxMishaps)'
  BY <1>0 DEF Serve
<1>1. TableOK'
  <2> USE <1>0 DEF TableOK, table
  <2>1. CASE AcquireService(s) \/ Check(s) \/ ReadControl(s)
    BY <2>1 DEF AcquireService, Check, ReadControl, Decide, Goto
  <2>2. CASE Claim(s)
    <3>1. \A i \in Signals : status'[i] # "absent" <=> status[i] # "absent"
      BY <2>2 DEF Claim, Raise, LetGo, Claimable
    <3>2. rows' = rows /\ status' \in [Signals -> Terminal \cup {"absent", "queued", "claimed"}]
      BY <2>2 DEF Claim, Raise, LetGo
    <3>3. QED
      BY <3>1, <3>2
  <2>5. CASE Finish(s)
    <3>1. ~Holds(s) => rows' = rows /\ status' = status
      BY <2>5 DEF Finish, Raise
    <3>2. ASSUME Holds(s) PROVE TableOK'
      <4>1. cur[s] \in Signals /\ verdict[s] \in Terminal /\ status[cur[s]] = "claimed"
        BY <2>5, <3>2, SignalQueueAssumption DEF Finish, Holds, ServiceOK, LeasesOK
      <4>2. rows' = rows /\ status' = [status EXCEPT ![cur[s]] = verdict[s]]
        BY <2>5, <3>2 DEF Finish
      <4>3. \A i \in Signals : status'[i] # "absent" <=> status[i] # "absent"
        BY <4>1, <4>2 DEF Terminal
      <4>4. QED
        BY <4>1, <4>2, <4>3
    <3>3. QED
      BY <3>1, <3>2
  <2>3. CASE Reserve(s) \/ Submit(s)
    BY <2>3 DEF Reserve, Submit, Raise, Decide, Goto
  <2>4. QED
    BY <2>1, <2>2, <2>3, <2>5 DEF Serve
<1>2. LeasesOK'
  <2> USE SignalQueueAssumption, <1>0 DEF LeasesOK, TableOK, table, Owners
  <2>1. CASE AcquireService(s) \/ Check(s) \/ ReadControl(s)
    BY <2>1 DEF AcquireService, Check, ReadControl, Decide, Goto
  <2>2. CASE Claim(s)
    BY <2>2 DEF Claim, Raise, LetGo
  <2>3. CASE Finish(s)
    BY <2>3 DEF Finish, Raise, LetGo, ServiceOK
  <2>4. CASE Reserve(s) \/ Submit(s)
    BY <2>4 DEF Reserve, Submit, Raise, Decide, Goto
  <2>5. QED
    BY <2>1, <2>2, <2>3, <2>4 DEF Serve
<1>3. JournalOK'
  <2> USE <1>0 DEF JournalOK, journal
  <2>1. CASE AcquireService(s) \/ Check(s) \/ ReadControl(s) \/ Claim(s) \/ Finish(s)
    BY <2>1 DEF AcquireService, Check, ReadControl, Claim, Finish
  <2>2. CASE Reserve(s)
    BY <2>2 DEF Reserve, ServiceOK
  <2>3. CASE Submit(s)
    BY <2>3, SignalQueueAssumption DEF Submit, ServiceOK
  <2>4. QED
    BY <2>1, <2>2, <2>3 DEF Serve
<1>4. ServiceOK'
  <2> USE SignalQueueAssumption, <1>0 DEF ServiceOK, Terminal
  <2>1. CASE AcquireService(s) \/ Check(s) \/ ReadControl(s)
    BY <2>1 DEF AcquireService, Check, ReadControl, Decide, Goto
  <2>2. CASE Claim(s)
    BY <2>2 DEF Claim, Raise, LetGo, TableOK
  <2>3. CASE Reserve(s) \/ Submit(s) \/ Finish(s)
    BY <2>3 DEF Reserve, Submit, Finish, Raise, LetGo, Decide, Goto
  <2>4. QED
    BY <2>1, <2>2, <2>3 DEF Serve
<1>5. QED
  BY <1>m, <1>1, <1>2, <1>3, <1>4 DEF QTypeOK, TableOK, LeasesOK, JournalOK, ServiceOK

LEMMA DieTypes == ASSUME QTypeOK, NEW s \in Services, Die(s) PROVE QTypeOK'
<1>1. (mishaps \in 0..MaxMishaps)'
  BY SignalQueueAssumption DEF QTypeOK, Die, Mishap
<1>2. QED
  BY <1>1, SignalQueueAssumption DEF QTypeOK, Die, Raise, LetGo, journal, Owners, Terminal

LEMMA ExpiryTypes ==
    ASSUME QTypeOK, LockExpires \/ \E i \in Signals : ClaimExpires(i)
    PROVE  QTypeOK'
<1>1. (mishaps \in 0..MaxMishaps)'
  BY SignalQueueAssumption DEF QTypeOK, LockExpires, ClaimExpires, Mishap
<1>2. QED
  BY <1>1, SignalQueueAssumption DEF QTypeOK, LockExpires, ClaimExpires, journal, service, Owners

LEMMA EnqueueTypes ==
    ASSUME QTypeOK, NEW i \in Signals, Enqueue(i), UNCHANGED <<journal, service, mishaps>>
    PROVE  QTypeOK'
<1>1. CASE status[i] # "absent"
  BY <1>1 DEF QTypeOK, Enqueue, journal, service
<1>2. CASE status[i] = "absent"
  <2>1. rows' = Append(rows, i) /\ status' = [status EXCEPT ![i] = "queued"]
    BY <1>2 DEF Enqueue
  <2>2. TableOK'
    <3>1. rows' \in Seq(Signals) /\ (\A m, n \in DOMAIN rows' : rows'[m] = rows'[n] => m = n)
      BY <1>2, <2>1, AppendRow
    <3>2. \A j \in Signals : (\E n \in DOMAIN rows' : rows'[n] = j)
                               <=> (j = i \/ \E n \in DOMAIN rows : rows[n] = j)
      BY <1>2, <2>1, AppendRow
    <3>3. \A j \in Signals : status'[j] # "absent" <=> (j = i \/ status[j] # "absent")
      BY <2>1 DEF QTypeOK
    <3>4. status' \in [Signals -> Terminal \cup {"absent", "queued", "claimed"}]
      BY <2>1 DEF QTypeOK
    <3>5. \A j \in Signals : status[j] # "absent" <=> \E n \in DOMAIN rows : rows[n] = j
      BY DEF QTypeOK
    <3>6. \A j \in Signals : status'[j] # "absent" <=> \E n \in DOMAIN rows' : rows'[n] = j
      BY <3>2, <3>3, <3>5
    <3>7. QED
      BY <3>1, <3>4, <3>6 DEF TableOK
  <2>3. LeasesOK'
    BY <1>2, <2>1 DEF Enqueue, QTypeOK, LeasesOK
  <2>4. JournalOK' /\ ServiceOK' /\ (mishaps \in 0..MaxMishaps)'
    BY DEF QTypeOK, JournalOK, ServiceOK, journal, service
  <2>5. QED
    BY <2>2, <2>3, <2>4 DEF QTypeOK, TableOK, LeasesOK, JournalOK, ServiceOK
<1>3. QED
  BY <1>1, <1>2

LEMMA RevertTypes ==
    ASSUME QTypeOK, NEW i \in Signals, UNCHANGED <<service, mishaps>>,
           \/ RecordSourceReorg(i) /\ UNCHANGED table
           \/ CancelReorged(i) /\ UNCHANGED journal
    PROVE  QTypeOK'
<1>1. CASE RecordSourceReorg(i) /\ UNCHANGED table
  BY <1>1 DEF QTypeOK, RecordSourceReorg, table, service
<1>2. CASE CancelReorged(i) /\ UNCHANGED journal
  <2>1. \A j \in Signals : status'[j] # "absent" <=> status[j] # "absent"
    BY <1>2 DEF QTypeOK, CancelReorged
  <2>2. status' \in [Signals -> Terminal \cup {"absent", "queued", "claimed"}]
    BY <1>2 DEF QTypeOK, CancelReorged, Terminal
  <2>3. \A j \in Signals : status[j] = "claimed" => status'[j] = "claimed"
    BY <1>2 DEF QTypeOK, CancelReorged
  <2>4. QED
    BY <1>2, <2>1, <2>2, <2>3 DEF QTypeOK, CancelReorged, journal, service
<1>3. QED
  BY <1>1, <1>2

LEMMA QTypeOKStep == QTypeOK /\ [QNext]_qvars => QTypeOK'
<1> SUFFICES ASSUME QTypeOK, [QNext]_qvars PROVE QTypeOK'
  OBVIOUS
<1>1. ASSUME NEW s \in Services, Serve(s) \/ Die(s) PROVE QTypeOK'
  BY <1>1, ServeTypes, DieTypes
<1>2. CASE LockExpires \/ \E i \in Signals : ClaimExpires(i)
  BY <1>2, ExpiryTypes
<1>3. CASE ResetBreaker
  BY <1>3 DEF ResetBreaker, QTypeOK, table, service
<1>4. ASSUME NEW i \in Signals, Source(i) PROVE QTypeOK'
  BY <1>4, EnqueueTypes, RevertTypes DEF Source
<1>5. CASE UNCHANGED qvars
  BY <1>5 DEF QTypeOK, qvars, table, journal, service
<1>6. QED
  BY <1>1, <1>2, <1>3, <1>4, <1>5 DEF QNext, Queue

\* The table, the leases, the journal and the services keep their types and agree: every row
\* has one place, a lease is on a claimed row only, a service at work has a signal.
THEOREM QTyping == QSpec => []QTypeOK
BY QTypeOKInitially, QTypeOKStep, PTL DEF QSpec

-----------------------------------------------------------------------------
(* One executor per signal: the reservation of a signal is what lets a     *)
(* service go on to submit it, and a signal is reserved once.              *)

ReservedBeforeSubmit == \A s \in Services : step[s] = "submit" => cur[s] \in recorded

QInv == QTypeOK /\ ReservedBeforeSubmit /\ OneExecutorPerSignal

LEMMA QInvInitially == QInit => QInv
BY QTypeOKInitially DEF QInit, QInv, ReservedBeforeSubmit, OneExecutorPerSignal

\* A service that comes to submit has just reserved its signal; the others keep theirs.
LEMMA ReachesSubmit ==
    ASSUME QTypeOK, [QNext]_qvars, NEW s \in Services, step'[s] = "submit"
    PROVE  /\ cur'[s] = cur[s]
           /\ \/ step[s] = "submit"
              \/ cur[s] \notin recorded /\ recorded' = recorded \cup {cur[s]}
<1> USE DEF QTypeOK
<1>1. ASSUME NEW t \in Services, Serve(t)
      PROVE  /\ cur'[s] = cur[s]
             /\ \/ step[s] = "submit"
                \/ cur[s] \notin recorded /\ recorded' = recorded \cup {cur[s]}
  <2>1. CASE Reserve(t)
    BY <2>1 DEF Reserve, Raise, LetGo, Decide, Goto
  <2>2. CASE AcquireService(t) \/ Check(t) \/ ReadControl(t)
    BY <2>2 DEF AcquireService, Check, ReadControl, Decide, Goto
  <2>3. CASE Claim(t) \/ Submit(t) \/ Finish(t)
    BY <2>3 DEF Claim, Submit, Finish, Raise, LetGo, Decide
  <2>4. QED
    BY <1>1, <2>1, <2>2, <2>3 DEF Serve
<1>2. ASSUME NEW t \in Services, Die(t) PROVE cur'[s] = cur[s] /\ step[s] = "submit"
  BY <1>2 DEF Die, Raise, LetGo
<1>3. CASE LockExpires \/ ResetBreaker \/ \E i \in Signals : ClaimExpires(i) \/ Source(i)
  BY <1>3 DEF LockExpires, ResetBreaker, ClaimExpires, Source, service
<1>4. CASE UNCHANGED qvars
  BY <1>4 DEF qvars, service
<1>5. QED
  BY <1>1, <1>2, <1>3, <1>4 DEF QNext, Queue

\* Of two services, one stays where it is.
LEMMA OneGetsThere ==
    ASSUME QTypeOK, [QNext]_qvars, NEW s \in Services, NEW t \in Services, s # t
    PROVE  step'[s] = step[s] \/ step'[t] = step[t]
<1> USE DEF QTypeOK
<1>1. ASSUME NEW u \in Services, Serve(u) PROVE step'[s] = step[s] \/ step'[t] = step[t]
  BY <1>1 DEF Serve, AcquireService, Claim, Check, ReadControl, Reserve, Submit, Finish,
              Raise, LetGo, Decide, Goto
<1>2. ASSUME NEW u \in Services, Die(u) PROVE step'[s] = step[s] \/ step'[t] = step[t]
  BY <1>2 DEF Die, Raise, LetGo
<1>3. CASE LockExpires \/ ResetBreaker \/ \E i \in Signals : ClaimExpires(i) \/ Source(i)
  BY <1>3 DEF LockExpires, ResetBreaker, ClaimExpires, Source, service
<1>4. CASE UNCHANGED qvars
  BY <1>4 DEF qvars, service
<1>5. QED
  BY <1>1, <1>2, <1>3, <1>4 DEF QNext, Queue

LEMMA JobsStay == QTypeOK /\ [QNext]_qvars => recorded \subseteq recorded'
<1> SUFFICES ASSUME QTypeOK, [QNext]_qvars PROVE recorded \subseteq recorded'
  OBVIOUS
<1>1. ASSUME NEW s \in Services, Serve(s) PROVE recorded \subseteq recorded'
  BY <1>1 DEF Serve, AcquireService, Claim, Check, ReadControl, Reserve, Submit, Finish, journal
<1>2. CASE \E s \in Services : Die(s)
  BY <1>2 DEF Die, journal
<1>3. CASE LockExpires \/ ResetBreaker \/ \E i \in Signals : ClaimExpires(i) \/ Source(i)
  BY <1>3 DEF LockExpires, ResetBreaker, ClaimExpires, Source, RecordSourceReorg, journal
<1>4. CASE UNCHANGED qvars
  BY <1>4 DEF qvars, journal
<1>5. QED
  BY <1>1, <1>2, <1>3, <1>4 DEF QNext, Queue

LEMMA QInvStep == QInv /\ [QNext]_qvars => QInv'
<1> SUFFICES ASSUME QInv, [QNext]_qvars PROVE QInv'
  OBVIOUS
<1>1. QTypeOK /\ QTypeOK'
  BY QTypeOKStep DEF QInv
<1>2. ReservedBeforeSubmit'
  BY <1>1, ReachesSubmit, JobsStay DEF QInv, ReservedBeforeSubmit
<1>3. OneExecutorPerSignal'
  <2> SUFFICES ASSUME NEW s \in Services, NEW t \in Services,
                      step'[s] = "submit", step'[t] = "submit", s # t
               PROVE  cur'[s] # cur'[t]
    BY DEF OneExecutorPerSignal
  <2>1. /\ cur'[s] = cur[s] /\ (step[s] = "submit" \/ cur[s] \notin recorded)
        /\ cur'[t] = cur[t] /\ (step[t] = "submit" \/ cur[t] \notin recorded)
    BY <1>1, ReachesSubmit
  <2>2. step[s] = "submit" \/ step[t] = "submit"
    BY <1>1, OneGetsThere
  <2>3. QED
    BY <2>1, <2>2 DEF QInv, ReservedBeforeSubmit, OneExecutorPerSignal
<1>4. QED
  BY <1>1, <1>2, <1>3 DEF QInv

\* Whatever leases end and whatever process dies, no two services execute one signal at once.
THEOREM OneExecutor == QSpec => []OneExecutorPerSignal
<1>1. QInv => OneExecutorPerSignal
  BY DEF QInv
<1>2. QED
  BY <1>1, QInvInitially, QInvStep, PTL DEF QSpec

-----------------------------------------------------------------------------
LEMMA DecidedStays ==
    QTypeOK /\ [QNext]_qvars => \A i \in Signals : status[i] \in Terminal => status'[i] = status[i]
<1> SUFFICES ASSUME QTypeOK, [QNext]_qvars, NEW i \in Signals, status[i] \in Terminal
             PROVE  status'[i] = status[i]
  OBVIOUS
<1> USE SignalQueueAssumption DEF QTypeOK, Terminal, table
<1>1. ASSUME NEW s \in Services, Serve(s) PROVE status'[i] = status[i]
  <2>1. CASE AcquireService(s) \/ Check(s) \/ ReadControl(s)
    BY <2>1 DEF AcquireService, Check, ReadControl
  <2>2. CASE Claim(s)
    BY <2>2 DEF Claim, Claimable, Raise
  <2>3. CASE Reserve(s) \/ Submit(s)
    BY <2>3 DEF Reserve, Submit, Raise
  <2>4. CASE Finish(s)
    BY <2>4 DEF Finish, Holds, Raise
  <2>5. QED
    BY <1>1, <2>1, <2>2, <2>3, <2>4 DEF Serve
<1>2. CASE \E s \in Services : Die(s)
  BY <1>2 DEF Die, Raise
<1>3. CASE LockExpires \/ ResetBreaker \/ \E j \in Signals : ClaimExpires(j)
  BY <1>3 DEF LockExpires, ResetBreaker, ClaimExpires
<1>4. ASSUME NEW j \in Signals, Source(j) PROVE status'[i] = status[i]
  BY <1>4 DEF Source, Enqueue, CancelReorged
<1>5. CASE UNCHANGED qvars
  BY <1>5 DEF qvars
<1>6. QED
  BY <1>1, <1>2, <1>3, <1>4, <1>5 DEF QNext, Queue

\* A decision of the queue is never revised.
THEOREM DecisionsStand == QSpec => DecisionIsFinal
<1>1. QTypeOK /\ [QNext]_qvars => [\A i \in Signals : status[i] \in Terminal => status'[i] = status[i]]_qvars
  BY DecidedStays
<1>2. QED
  BY <1>1, QTyping, PTL DEF QSpec, DecisionIsFinal
-----------------------------------------------------------------------------
(* The deliveries.                                                           *)

\* The part of WTypeOK that does not depend on the chain.
DeliveryOK ==
    /\ known \in [Trades -> {"none", "active", "reorged"}]
    /\ signals \in [Trades -> {"none", "pending", "acked", "cancelled"}]
    /\ reverts \in [Trades -> {"none", "pending", "acked"}]
    /\ batch \subseteq Trades /\ rolled \subseteq Trades /\ todo \subseteq Trades
    /\ poll \in {"cancel", "ackRevert", "ackSignal"} => item \in Trades

\* While the bridge cancels or acknowledges a revert, its fence is committed; before an
\* acknowledgement of a signal, the queue has it.
ItemPrepared ==
    /\ poll \in {"cancel", "ackRevert"} => item \in fenced
    /\ poll = "ackSignal" => status[item] # "absent"

\* An acknowledged revert has its fence.
RevertIsFenced == \A e \in Trades : reverts[e] = "acked" => e \in fenced

\* From the look at the outbox on, a poll goes on only when no revert is waiting.
NothingReverting ==
    poll \in {"head", "blocks", "commit", "enqueue", "ackSignal"} => Pending(reverts) = {}

IInv ==
    /\ QTypeOK
    /\ DeliveryOK /\ ItemPrepared /\ RevertIsFenced /\ NothingReverting /\ AckedIsQueued

LEMMA IInvInitially == IInit => IInv
<1> SUFFICES ASSUME IInit PROVE IInv
  OBVIOUS
<1>1. QTypeOK
  BY QTypeOKInitially DEF IInit
<1>2. DeliveryOK /\ ItemPrepared /\ RevertIsFenced /\ NothingReverting /\ AckedIsQueued
  BY DEF IInit, WInit, DeliveryOK, ItemPrepared, RevertIsFenced, NothingReverting, AckedIsQueued
<1>3. QED
  BY <1>1, <1>2 DEF IInv

-----------------------------------------------------------------------------
(* What the queue's own steps and the bridge may do to the queue.          *)

\* Every step of the whole is one that the queue allows its sources and its services.
LEMMA QueueStep == IInv /\ [INext]_ivars => [QNext]_qvars
<1> SUFFICES ASSUME IInv, [INext]_ivars PROVE [QNext]_qvars
  OBVIOUS
<1>1. ASSUME NEW e \in todo, Fence(e) PROVE QNext
  <2>1. e \in Signals
    BY IngressAssumption DEF IInv, DeliveryOK
  <2>2. Source(e)
    BY <1>1 DEF Fence, Source
  <2>3. QED
    BY <2>1, <2>2 DEF QNext
<1>2. ASSUME NEW e \in todo, EnqueueEvent(e) PROVE [QNext]_qvars
  <2>1. e \in Signals
    BY IngressAssumption DEF IInv, DeliveryOK
  <2>2. CASE status[e] = "absent"
    BY <1>2, <2>1, <2>2 DEF EnqueueEvent, Source, QNext
  <2>3. CASE status[e] # "absent"
    BY <1>2, <2>3 DEF EnqueueEvent, Enqueue, table, qvars
  <2>4. QED
    BY <2>2, <2>3
<1>3. CASE Cancel
  <2>1. item \in Signals /\ item \in fenced
    BY <1>3, IngressAssumption DEF IInv, DeliveryOK, ItemPrepared, Cancel
  <2>2. Source(item)
    BY <1>3, <2>1 DEF Cancel, Source
  <2>3. QED
    BY <2>1, <2>2 DEF QNext
<1>4. CASE AckRevert \/ AckSignal
  BY <1>4 DEF AckRevert, AckSignal
<1>5. CASE Queue
  BY <1>5 DEF QNext
<1>6. CASE UNCHANGED qvars
  BY <1>6
<1>7. QED
  BY <1>1, <1>2, <1>3, <1>4, <1>5, <1>6 DEF INext, Bridge, ivars

LEMMA RowsStay ==
    QTypeOK /\ [QNext]_qvars => \A i \in Signals : status[i] # "absent" => status'[i] # "absent"
<1> SUFFICES ASSUME QTypeOK, [QNext]_qvars, NEW i \in Signals, status[i] # "absent"
             PROVE  status'[i] # "absent"
  OBVIOUS
<1> USE SignalQueueAssumption DEF QTypeOK, table
<1>1. ASSUME NEW s \in Services, Serve(s) PROVE status'[i] # "absent"
  <2>1. CASE AcquireService(s) \/ Check(s) \/ ReadControl(s)
    BY <2>1 DEF AcquireService, Check, ReadControl
  <2>2. CASE Claim(s) \/ Reserve(s) \/ Submit(s)
    BY <2>2 DEF Claim, Reserve, Submit, Raise
  <2>3. CASE Finish(s)
    BY <2>3 DEF Finish, Raise, Terminal
  <2>4. QED
    BY <1>1, <2>1, <2>2, <2>3 DEF Serve
<1>2. CASE \E s \in Services : Die(s)
  BY <1>2 DEF Die, Raise
<1>3. CASE LockExpires \/ ResetBreaker \/ \E j \in Signals : ClaimExpires(j)
  BY <1>3 DEF LockExpires, ResetBreaker, ClaimExpires
<1>4. ASSUME NEW j \in Signals, Source(j) PROVE status'[i] # "absent"
  BY <1>4 DEF Source, Enqueue, CancelReorged
<1>5. CASE UNCHANGED qvars
  BY <1>5 DEF qvars
<1>6. QED
  BY <1>1, <1>2, <1>3, <1>4, <1>5 DEF QNext, Queue

LEMMA FencesStay == [QNext]_qvars => fenced \subseteq fenced'
<1> SUFFICES ASSUME [QNext]_qvars PROVE fenced \subseteq fenced'
  OBVIOUS
<1>1. CASE \E s \in Services : Serve(s) \/ Die(s)
  BY <1>1 DEF Serve, AcquireService, Claim, Check, ReadControl, Reserve, Submit, Finish, Die, journal
<1>2. CASE LockExpires \/ ResetBreaker \/ \E j \in Signals : ClaimExpires(j) \/ Source(j)
  BY <1>2 DEF LockExpires, ResetBreaker, ClaimExpires, Source, RecordSourceReorg, journal
<1>3. CASE UNCHANGED qvars
  BY <1>3 DEF qvars, journal
<1>4. QED
  BY <1>1, <1>2, <1>3 DEF QNext, Queue

-----------------------------------------------------------------------------
(* A poll.                                                                 *)

Deliveries == DeliveryOK /\ ItemPrepared /\ RevertIsFenced /\ NothingReverting /\ AckedIsQueued

LEMMA PollKeeps == IInv /\ PollStep /\ UNCHANGED qvars => Deliveries'
<1> SUFFICES ASSUME IInv, PollStep, UNCHANGED qvars PROVE Deliveries'
  OBVIOUS
<1> USE DEF IInv, Deliveries, DeliveryOK, ItemPrepared, RevertIsFenced, NothingReverting,
            AckedIsQueued, Pending, store, past, qvars, table, journal
<1>1. CASE FirstPoll \/ FailPoll
  BY <1>1 DEF FirstPoll, FailPoll, EndPoll, poller
<1>2. CASE StartPoll
  BY <1>2 DEF StartPoll, Continue
<1>3. CASE Rewind
  BY <1>3 DEF Rewind, RollBack, Above
<1>4. CASE RepeatDeliveries
  BY <1>4 DEF RepeatDeliveries, Continue, HandOver, EndPoll
<1>5. CASE ReadHead
  BY <1>5 DEF ReadHead, HandOver, EndPoll
<1>6. CASE ReadBlock
  BY <1>6 DEF ReadBlock, EndPoll
<1>7. CASE CommitBatch
  BY <1>7 DEF CommitBatch, Fresh, HandOver, EndPoll
<1>8. QED
  BY <1>1, <1>2, <1>3, <1>4, <1>5, <1>6, <1>7 DEF PollStep

LEMMA BridgeKeeps == IInv /\ Bridge => Deliveries'
<1> SUFFICES ASSUME IInv, Bridge PROVE Deliveries'
  OBVIOUS
<1> USE IngressAssumption DEF IInv, Deliveries, DeliveryOK, ItemPrepared, RevertIsFenced,
            NothingReverting, AckedIsQueued, Pending, store, past, qvars, table, journal
<1>1. ASSUME NEW e \in todo, Fence(e) PROVE Deliveries'
  BY <1>1 DEF Fence, RecordSourceReorg, At
<1>2. ASSUME NEW e \in todo, EnqueueEvent(e) PROVE Deliveries'
  BY <1>2 DEF EnqueueEvent, Enqueue, At, QTypeOK
<1>3. CASE Cancel
  BY <1>3 DEF Cancel, CancelReorged, At, QTypeOK
<1>4. CASE AckRevert
  BY <1>4 DEF AckRevert, Acknowledge, Delivered, EndPoll
<1>5. CASE AckSignal
  BY <1>5 DEF AckSignal, Acknowledge, Delivered, EndPoll
<1>6. QED
  BY <1>1, <1>2, <1>3, <1>4, <1>5 DEF Bridge

LEMMA IInvStep == IInv /\ [INext]_ivars => IInv'
<1> SUFFICES ASSUME IInv, [INext]_ivars PROVE IInv'
  OBVIOUS
<1>1. [QNext]_qvars
  BY QueueStep
<1>2. QTypeOK'
  BY <1>1, QTypeOKStep DEF IInv
<1>3. /\ \A i \in Signals : status[i] # "absent" => status'[i] # "absent"
      /\ fenced \subseteq fenced'
  BY <1>1, RowsStay, FencesStay DEF IInv
<1>4. ASSUME UNCHANGED wvars PROVE Deliveries'
  BY <1>3, <1>4, IngressAssumption
  DEF IInv, Deliveries, DeliveryOK, ItemPrepared, RevertIsFenced, NothingReverting,
      AckedIsQueued, Pending, wvars, store, poller
<1>5. ASSUME NEW b \in Blocks, NewHead(b), UNCHANGED qvars PROVE Deliveries'
  BY <1>3, <1>5, IngressAssumption
  DEF NewHead, IInv, Deliveries, DeliveryOK, ItemPrepared, RevertIsFenced, NothingReverting,
      AckedIsQueued, Pending, store, poller
<1>6. Deliveries'
  BY <1>4, <1>5, PollKeeps, BridgeKeeps DEF INext, ivars
<1>7. QED
  BY <1>2, <1>6 DEF IInv, Deliveries

-----------------------------------------------------------------------------
\* The queue and the bridge may end between any two commits: what the outbox holds
\* acknowledged is in the queue.
THEOREM NothingLostInDelivery == ISpec => []AckedIsQueued
<1>1. IInv => AckedIsQueued
  BY DEF IInv
<1>2. QED
  BY <1>1, IInvInitially, IInvStep, PTL DEF ISpec

\* While a reverted signal waits for its fence, no new signal enters the queue.
THEOREM RevertsGoFirst == ISpec => NoDeliveryWhileReverting
<1>1. IInv /\ [INext]_ivars => [RevertsFirst]_ivars
  <2> SUFFICES ASSUME IInv, INext, NEW e \in Trades, reverts[e] = "pending" PROVE rows' = rows
    BY DEF RevertsFirst
  <2>1. Pending(reverts) # {}
    BY DEF Pending
  <2>2. CASE Queue
    BY <2>2 DEF Queue, Serve, AcquireService, Claim, Check, ReadControl, Reserve, Submit, Finish,
                Raise, Die, LockExpires, ClaimExpires, ResetBreaker, table
  <2>3. CASE Bridge
    BY <2>1, <2>3 DEF Bridge, Fence, Cancel, CancelReorged, AckRevert, AckSignal, EnqueueEvent,
                      IInv, NothingReverting, table, qvars
  <2>4. CASE UNCHANGED qvars
    BY <2>4 DEF qvars, table
  <2>5. QED
    BY <2>2, <2>3, <2>4 DEF INext
<1>2. QED
  BY <1>1, IInvInitially, IInvStep, PTL DEF ISpec, NoDeliveryWhileReverting

LEMMA FencedNotAttempted ==
    [QNext]_qvars => \A i \in fenced : i \notin attempted => i \notin attempted'
<1> SUFFICES ASSUME [QNext]_qvars, NEW i \in fenced, i \notin attempted PROVE i \notin attempted'
  OBVIOUS
<1>1. ASSUME NEW s \in Services, Serve(s) \/ Die(s) PROVE i \notin attempted'
  BY <1>1 DEF Serve, AcquireService, Claim, Check, ReadControl, Reserve, Submit, Finish, Die, journal
<1>2. CASE LockExpires \/ ResetBreaker \/ \E j \in Signals : ClaimExpires(j) \/ Source(j)
  BY <1>2 DEF LockExpires, ResetBreaker, ClaimExpires, Source, RecordSourceReorg, journal
<1>3. CASE UNCHANGED qvars
  BY <1>3 DEF qvars, journal
<1>4. QED
  BY <1>1, <1>2, <1>3 DEF QNext, Queue

\* An acknowledged revert is effective for good.
THEOREM RevertsHold == ISpec => RevertedNotAttempted
<1>1. IInv /\ [INext]_ivars => [RevertHolds]_ivars
  BY QueueStep, FencedNotAttempted DEF IInv, RevertIsFenced, RevertHolds
<1>2. QED
  BY <1>1, IInvInitially, IInvStep, PTL DEF ISpec, RevertedNotAttempted

\* What the bridge promises as a whole.
THEOREM DeliveriesAreSafe == ISpec => DeliveryIsSafe
<1>1. AckedIsQueued' /\ [RevertsFirst]_ivars /\ [RevertHolds]_ivars
         => [AckedIsQueued' /\ RevertsFirst /\ RevertHolds]_ivars
  OBVIOUS
<1>2. QED
  BY <1>1, NothingLostInDelivery, RevertsGoFirst, RevertsHold, PTL
  DEF NoDeliveryWhileReverting, RevertedNotAttempted, DeliveryIsSafe

\* The bridge is a source as SignalQueue takes its sources to be: what is proved of the queue
\* holds of the whole.
THEOREM ImplementsQueue == ISpec => QSpec
<1>1. IInit => QInit
  BY DEF IInit
<1>2. QED
  BY <1>1, IInvInitially, IInvStep, QueueStep, PTL DEF ISpec, QSpec

-----------------------------------------------------------------------------
(* The chain.  An induction over a chain is the choice of a set that holds   *)
(* its newest block and the parents of its blocks.                           *)

LEMMA BlockFacts ==
    /\ Genesis \in Blocks /\ Height[Genesis] = 0
    /\ \A b \in Blocks : Height[b] \in Nat
    /\ \A b \in Blocks \ {Genesis} : Parent[b] \in Blocks /\ Height[b] = Height[Parent[b]] + 1
    /\ \A e \in Trades : BlockOf[e] \in Blocks
    /\ NoBlock \notin Blocks
BY WalletStreamAssumption

LEMMA ChainHolds ==
    ASSUME NEW b \in Blocks
    PROVE  b \in Chain[b] /\ Chain[b] \subseteq Blocks /\ ParentClosed(Chain[b])
<1>1. b \in Chain[b] /\ Chain[b] \subseteq Blocks
  BY DEF Chain
<1>2. ASSUME NEW c \in Chain[b], c # Genesis PROVE Parent[c] \in Chain[b]
  <2>1. c \in Blocks /\ Parent[c] \in Blocks
    BY <1>1, <1>2, BlockFacts
  <2>2. ASSUME NEW S \in SUBSET Blocks, b \in S, ParentClosed(S) PROVE Parent[c] \in S
    BY <1>2, <2>2 DEF Chain, ParentClosed
  <2>3. QED
    BY <2>1, <2>2 DEF Chain
<1>3. QED
  BY <1>1, <1>2 DEF ParentClosed

LEMMA ChainIsSmallest ==
    ASSUME NEW b \in Blocks, NEW S \in SUBSET Blocks, b \in S, ParentClosed(S)
    PROVE  Chain[b] \subseteq S
BY DEF Chain

LEMMA ChainOfMember ==
    ASSUME NEW b \in Blocks, NEW c \in Chain[b]
    PROVE  Chain[c] \subseteq Chain[b]
BY ChainHolds, ChainIsSmallest

LEMMA ChainUnfolds ==
    ASSUME NEW b \in Blocks, b # Genesis
    PROVE  Chain[b] = {b} \cup Chain[Parent[b]]
<1>1. Parent[b] \in Blocks
  BY BlockFacts
<1>2. Parent[b] \in Chain[b] /\ b \in Chain[b]
  BY ChainHolds DEF ParentClosed
<1>3. {b} \cup Chain[Parent[b]] \subseteq Chain[b]
  BY <1>2, ChainOfMember
<1>4. /\ {b} \cup Chain[Parent[b]] \in SUBSET Blocks
      /\ ParentClosed({b} \cup Chain[Parent[b]])
  BY <1>1, ChainHolds DEF ParentClosed
<1>5. QED
  BY <1>3, <1>4, ChainIsSmallest

\* The heights go down along a chain.
LEMMA ChainGoesDown ==
    ASSUME NEW b \in Blocks, NEW c \in Chain[b]
    PROVE  /\ c \in Blocks /\ Height[c] \in Nat /\ Height[b] \in Nat
           /\ c = b \/ Height[c] < Height[b]
<1> DEFINE S == {x \in Blocks : x = b \/ Height[x] < Height[b]}
<1>1. ASSUME NEW x \in S, x # Genesis PROVE Parent[x] \in S
  <2>1. /\ Parent[x] \in Blocks /\ Height[x] = Height[Parent[x]] + 1
        /\ Height[x] \in Nat /\ Height[Parent[x]] \in Nat /\ Height[b] \in Nat
    BY <1>1, BlockFacts
  <2>2. QED
    BY <2>1
<1>2. ParentClosed(S)
  BY <1>1 DEF ParentClosed
<1>3. c \in S
  BY <1>2, ChainIsSmallest
<1>4. QED
  BY <1>3, BlockFacts

\* Of two blocks of a chain the lower one is an ancestor of the other.
LEMMA ChainIsALine ==
    ASSUME NEW b \in Blocks, NEW c \in Chain[b], NEW d \in Chain[b], Height[c] <= Height[d]
    PROVE  c \in Chain[d]
<1> DEFINE S == {x \in Chain[b] : \A y \in Chain[b] : Height[y] <= Height[x] => y \in Chain[x]}
<1>1. b \in S
  BY ChainHolds
<1>2. ASSUME NEW x \in S, x # Genesis PROVE Parent[x] \in S
  <2>1. /\ x \in Blocks /\ Parent[x] \in Chain[b] /\ Parent[x] \in Blocks
        /\ Height[x] = Height[Parent[x]] + 1 /\ Height[Parent[x]] \in Nat
    BY <1>2, ChainHolds, BlockFacts DEF ParentClosed
  <2>2. ASSUME NEW y \in Chain[b], Height[y] <= Height[Parent[x]] PROVE y \in Chain[Parent[x]]
    <3>1. Height[y] \in Nat
      BY ChainGoesDown
    <3>2. Height[y] <= Height[x] /\ y # x
      BY <2>1, <2>2, <3>1
    <3>3. y \in Chain[x]
      BY <3>2
    <3>4. QED
      BY <1>2, <2>1, <3>2, <3>3, ChainUnfolds
  <2>3. QED
    BY <2>1, <2>2
<1>3. S \in SUBSET Blocks /\ ParentClosed(S)
  BY <1>2, ChainHolds DEF ParentClosed
<1>4. d \in S
  BY <1>1, <1>3, ChainIsSmallest
<1>5. QED
  BY <1>4

LEMMA OneAtAHeight ==
    ASSUME NEW b \in Blocks, NEW c \in Chain[b], NEW d \in Chain[b], Height[c] = Height[d]
    PROVE  c = d
<1>1. d \in Blocks /\ Height[c] \in Nat /\ Height[d] \in Nat
  BY ChainGoesDown
<1>2. c \in Chain[d]
  BY <1>1, ChainIsALine
<1>3. QED
  BY <1>1, <1>2, ChainGoesDown

LEMMA LeastNumber ==
    ASSUME NEW T \in SUBSET Nat, T # {}
    PROVE  \E x \in T : \A y \in T : x <= y
<1> DEFINE R == {ss \in Nat \X Nat : ss[1] < ss[2]}
<1>1. IsWellFoundedOn(R, Nat)
  BY NatLessThanWellFounded DEF OpToRel
<1> HIDE DEF R
<1>2. PICK x \in T : \A y \in T : ~(<<y, x>> \in R)
  BY <1>1, WFMin
<1>3. \A y \in T : ~(y < x)
  BY <1>2 DEF R
<1>4. QED
  BY <1>3

\* A chain has a block at every height up to its own.
LEMMA EveryHeight ==
    ASSUME NEW b \in Blocks, NEW n \in 0..Height[b]
    PROVE  \E c \in Chain[b] : Height[c] = n
<1> DEFINE T == {Height[c] : c \in {x \in Chain[b] : Height[x] >= n}}
<1>1. Height[b] \in T /\ T \subseteq Nat /\ n \in Nat /\ Height[b] \in Nat
  <2>1. Height[b] \in Nat
    BY BlockFacts
  <2>2. n \in Nat /\ Height[b] >= n
    BY <2>1
  <2>3. Height[b] \in T
    BY <2>2, ChainHolds
  <2>4. T \subseteq Nat
    BY ChainGoesDown
  <2>5. QED
    BY <2>1, <2>2, <2>3, <2>4
<1>2. PICK m \in T : \A y \in T : m <= y
  BY <1>1, LeastNumber
<1>3. PICK c \in Chain[b] : Height[c] >= n /\ m = Height[c]
  BY <1>2
<1>4. ASSUME Height[c] > n PROVE FALSE
  <2>1. c \in Blocks /\ c # Genesis
    BY <1>1, <1>4, BlockFacts, ChainGoesDown
  <2>2. Parent[c] \in Chain[b] /\ Height[c] = Height[Parent[c]] + 1 /\ Height[Parent[c]] \in Nat
    BY <2>1, BlockFacts, ChainHolds DEF ParentClosed
  <2>3. Height[Parent[c]] \in T
    BY <1>1, <1>4, <2>2
  <2>4. m <= Height[Parent[c]]
    BY <1>2, <2>3
  <2>5. QED
    BY <1>3, <2>2, <2>4
<1>5. Height[c] \in Nat
  BY ChainGoesDown
<1>6. QED
  BY <1>1, <1>3, <1>4, <1>5

LEMMA GenesisIsThere == ASSUME NEW b \in Blocks PROVE Genesis \in Chain[b]
<1>1. Height[b] \in Nat
  BY BlockFacts
<1>2. PICK c \in Chain[b] : Height[c] = 0
  BY <1>1, EveryHeight
<1>3. c = Genesis
  <2>1. c \in Blocks
    BY ChainGoesDown
  <2>2. c # Genesis => Height[c] = Height[Parent[c]] + 1 /\ Height[Parent[c]] \in Nat
    BY <2>1, BlockFacts
  <2>3. QED
    BY <1>2, <2>2
<1>4. QED
  BY <1>2, <1>3

LEMMA BlockAtIs ==
    ASSUME head \in Blocks, NEW n \in 0..Height[head]
    PROVE  /\ BlockAt(n) \in Chain[head] /\ BlockAt(n) \in Blocks /\ Height[BlockAt(n)] = n
           /\ \A c \in Chain[head] : Height[c] = n => c = BlockAt(n)
<1>1. \E c \in Chain[head] : Height[c] = n
  BY EveryHeight
<1>2. BlockAt(n) \in Chain[head] /\ Height[BlockAt(n)] = n
  BY <1>1 DEF BlockAt
<1>3. QED
  BY <1>2, OneAtAHeight, ChainHolds

-----------------------------------------------------------------------------
(* The stream, whatever the chain abandons and whatever comes back.          *)

\* A block the poller has seen: the chain has grown at least as high.
WasSeen(b) == b \in Blocks /\ Height[b] <= Height[head]

\* The swaps that stand are those up to the checkpoint, but for the parted ones.
ActiveIsRead ==
    \A e \in Trades \ parted : known[e] = "active" => BlockOf[e] \in Chain[checkpoint]
ReadIsActive ==
    \A e \in Trades \ parted :
        BlockOf[e] \in Chain[checkpoint] /\ Height[BlockOf[e]] > Height[origin] => known[e] = "active"

CheckpointOK ==
    IF checkpoint = NoBlock
    THEN poll = "idle" /\ \A e \in Trades : known[e] # "active"
    ELSE /\ origin \in Blocks /\ WasSeen(checkpoint)
         /\ ActiveIsRead /\ ReadIsActive
         /\ poll = "rewind" => checkpoint # Genesis

\* A poll has read the blocks from the checkpoint on, one on the other.
BlocksRead ==
    IF poll \in {"blocks", "commit"}
    THEN /\ WasSeen(target) /\ WasSeen(last) /\ checkpoint \in Chain[last]
         /\ batch = {e \in Trades : BlockOf[e] \in Chain[last] \ Chain[checkpoint]}
         /\ poll = "blocks" => Height[last] < Height[target]
    ELSE batch = {}

\* What was withdrawn has left a word for the bridge, and what is not known has no delivery.
WordsLeft ==
    \A e \in Trades : /\ known[e] = "none" => signals[e] = "none"
                      /\ known[e] = "reorged" => reverts[e] # "none"

StreamInv == head \in Blocks /\ CheckpointOK /\ BlocksRead /\ WordsLeft

LEMMA StreamInitially == IInit => StreamInv
BY BlockFacts DEF IInit, WInit, StreamInv, CheckpointOK, BlocksRead, WordsLeft

\* The chain moves: what stood for the poller stands, since it grows no shorter.
LEMMA NewHeadFollows == ASSUME StreamInv, NEW b \in Blocks, NewHead(b) PROVE StreamInv'
<1>1. /\ UNCHANGED <<checkpoint, known, signals, reverts, origin, parted, poll, target, last, batch>>
      /\ head \in Blocks /\ head' = b
  BY DEF NewHead, store, past, poller, StreamInv
<1>2. \A c \in Blocks : Height[c] <= Height[head] => Height[c] <= Height[b]
  <2> SUFFICES ASSUME NEW c \in Blocks, Height[c] <= Height[head] PROVE Height[c] <= Height[b]
    BY <1>1 DEF WasSeen
  <2>1. /\ Height[c] \in Nat /\ Height[head] \in Nat /\ Height[b] \in Nat 
        /\ Height[b] \in {Height[head], Height[head] + 1}
    BY <1>1, BlockFacts DEF NewHead
  <2>2. QED
    BY <2>1
<1>3. ActiveIsRead => ActiveIsRead'
  BY <1>1 DEF ActiveIsRead
<1>4. ReadIsActive => ReadIsActive'
  BY <1>1 DEF ReadIsActive
<1>5. CheckpointOK'
  BY <1>1, <1>2, <1>3, <1>4 DEF StreamInv, CheckpointOK, WasSeen
<1>6. BlocksRead'
  BY <1>1, <1>2 DEF StreamInv, BlocksRead, WasSeen
<1>7. WordsLeft'
  BY <1>1 DEF StreamInv, WordsLeft
<1>8. QED
  BY <1>1, <1>5, <1>6, <1>7 DEF StreamInv

-----------------------------------------------------------------------------
(* The steps of a poll.                                                      *)

\* Out of reading, a poll that leaves the record alone leaves the invariant.
LEMMA Elsewhere ==
    ASSUME StreamInv, UNCHANGED <<head, checkpoint, known, past>>, batch' = {},
           poll' \notin {"rewind", "blocks", "commit"}, checkpoint = NoBlock => poll' = "idle"
    PROVE  (head \in Blocks)' /\ CheckpointOK' /\ BlocksRead'
<1>1. CheckpointOK'
  BY DEF StreamInv, CheckpointOK, WasSeen, ActiveIsRead, ReadIsActive, past
<1>2. QED
  BY <1>1 DEF StreamInv, BlocksRead

LEMMA HandsOver ==
    ASSUME NEW x, NEW y, HandOver(x, y)
    PROVE  batch' = {} /\ poll' \in {"idle", "fence", "enqueue"}
BY DEF HandOver, EndPoll

LEMMA FirstPollFollows == ASSUME StreamInv, FirstPoll PROVE StreamInv'
<1>1. /\ checkpoint' = head /\ origin' = head /\ head \in Blocks
      /\ UNCHANGED <<head, parted, known, signals, reverts, poll, target, last, batch>>
      /\ poll = "idle" /\ \A e \in Trades : known[e] # "active"
  BY DEF FirstPoll, StreamInv, CheckpointOK, poller
<1>2. WordsLeft' /\ BlocksRead'
  BY <1>1 DEF StreamInv, WordsLeft, BlocksRead
<1>3. WasSeen(checkpoint)' /\ ActiveIsRead'
  BY <1>1, BlockFacts DEF WasSeen, ActiveIsRead
<1>4. ReadIsActive'
  <2>1. \A c \in Chain[head] : ~(Height[c] > Height[head])
    <3> TAKE c \in Chain[head]
    <3>1. Height[c] \in Nat /\ Height[head] \in Nat /\ (c = head \/ Height[c] < Height[head])
      BY <1>1, ChainGoesDown
    <3>2. QED
      BY <3>1
  <2>2. QED
    BY <1>1, <2>1 DEF ReadIsActive
<1>5. QED
  BY <1>1, <1>2, <1>3, <1>4, BlockFacts DEF StreamInv, CheckpointOK

\* The first block is on every chain: only a later checkpoint is rewound.
LEMMA StartPollFollows == ASSUME StreamInv, StartPoll PROVE StreamInv'
<1>1. /\ checkpoint \in Blocks /\ checkpoint # NoBlock /\ head \in Blocks
      /\ poll = "idle" /\ poll' \in {"pending", "rewind"}
      /\ poll' = "rewind" => checkpoint # BlockAt(Height[checkpoint])
      /\ UNCHANGED <<head, store, past, target, last, batch>>
  BY DEF StartPoll, Continue, StreamInv, CheckpointOK, WasSeen
<1>2. checkpoint # BlockAt(Height[checkpoint]) => checkpoint # Genesis
  <2>1. Height[Genesis] = 0 /\ 0 \in 0..Height[head] /\ Genesis \in Chain[head]
    BY <1>1, BlockFacts, GenesisIsThere
  <2>2. Genesis = BlockAt(0)
    BY <1>1, <2>1, BlockAtIs
  <2>3. QED
    BY <2>1, <2>2
<1>3. QED
  BY <1>1, <1>2
  DEF StreamInv, CheckpointOK, BlocksRead, WordsLeft, WasSeen, ActiveIsRead, ReadIsActive, store, past

\* A rewind takes back what is above the block it comes to; what only one of the two chains has
\* below that block is parted.
LEMMA RewindFollows == ASSUME StreamInv, Rewind PROVE StreamInv'
<1> DEFINE to == Height[checkpoint] - 1
           at == BlockAt(to)
<1>1. /\ poll = "rewind" /\ poll' = "pending" /\ batch = {} /\ batch' = {}
      /\ checkpoint' = at /\ RollBack(Above(to))
      /\ parted' = {e \in parted \cup Apart(checkpoint, at) : Height[BlockOf[e]] <= to}
      /\ UNCHANGED <<head, origin, target, last>>
  BY DEF Rewind, StreamInv, BlocksRead
<1>2. /\ checkpoint # NoBlock /\ checkpoint # Genesis /\ WasSeen(checkpoint)
      /\ ActiveIsRead /\ ReadIsActive /\ origin \in Blocks /\ head \in Blocks
  BY <1>1 DEF StreamInv, CheckpointOK
<1>3. to \in 0..Height[head]
  <2>1. /\ Height[checkpoint] \in Nat /\ Height[head] \in Nat /\ Height[checkpoint] <= Height[head]
        /\ Height[checkpoint] = Height[Parent[checkpoint]] + 1 /\ Height[Parent[checkpoint]] \in Nat
    BY <1>2, BlockFacts DEF WasSeen
  <2>2. QED
    BY <2>1
<1> HIDE DEF to
<1>4. at \in Blocks /\ Height[at] = to
  BY <1>2, <1>3, BlockAtIs
<1> HIDE DEF at
<1>5. \A e \in Trades : known'[e] = IF e \in Above(to) THEN "reorged" ELSE known[e]
  BY <1>1 DEF RollBack
<1>6. \A e \in Trades : /\ BlockOf[e] \in Blocks /\ Height[BlockOf[e]] \in Nat
                        /\ e \in Above(to) <=> known[e] = "active" /\ Height[BlockOf[e]] > to
                        /\ Height[BlockOf[e]] > to <=> ~(Height[BlockOf[e]] <= to)
  BY <1>3, BlockFacts DEF Above
<1>7. \A e \in Trades \ parted' :
          Height[BlockOf[e]] <= to
          => e \notin parted /\ (BlockOf[e] \in Chain[checkpoint] <=> BlockOf[e] \in Chain[at])
  BY <1>1 DEF Apart
<1>8. ActiveIsRead'
  <2> SUFFICES ASSUME NEW e \in Trades, e \notin parted', known'[e] = "active"
               PROVE  BlockOf[e] \in Chain[at]
    BY <1>1 DEF ActiveIsRead
  <2>1. known[e] = "active" /\ Height[BlockOf[e]] <= to
    BY <1>5, <1>6
  <2>2. QED
    BY <1>2, <1>7, <2>1 DEF ActiveIsRead
<1>9. ReadIsActive'
  <2> SUFFICES ASSUME NEW e \in Trades, e \notin parted',
                      BlockOf[e] \in Chain[at], Height[BlockOf[e]] > Height[origin]
               PROVE  known'[e] = "active"
    BY <1>1 DEF ReadIsActive
  <2>1. Height[BlockOf[e]] <= to
    <3>1. Height[BlockOf[e]] \in Nat /\ (BlockOf[e] = at \/ Height[BlockOf[e]] < Height[at])
      BY <1>4, ChainGoesDown
    <3>2. QED
      BY <1>3, <1>4, <3>1
  <2>2. known[e] = "active"
    BY <1>2, <1>7, <2>1 DEF ReadIsActive
  <2>3. QED
    BY <1>5, <1>6, <2>1, <2>2
<1>10. WasSeen(checkpoint)'
  <2>1. to <= Height[head]
    BY <1>3
  <2>2. QED
    BY <1>1, <1>4, <2>1 DEF WasSeen
<1>11. WordsLeft'
  <2> SUFFICES ASSUME NEW e \in Trades
               PROVE  /\ known'[e] = "none" => signals'[e] = "none"
                      /\ known'[e] = "reorged" => reverts'[e] # "none"
    BY DEF WordsLeft
  <2>1. /\ signals'[e] = IF e \in Above(to) /\ signals[e] = "pending" THEN "cancelled" ELSE signals[e]
        /\ reverts'[e] = IF e \in Above(to) /\ reverts[e] = "none" THEN "pending" ELSE reverts[e]
    BY <1>1 DEF RollBack
  <2>2. QED
    BY <1>5, <2>1 DEF StreamInv, WordsLeft
<1>12. QED
  BY <1>1, <1>2, <1>4, <1>8, <1>9, <1>10, <1>11, BlockFacts DEF StreamInv, CheckpointOK, BlocksRead

LEMMA ReadHeadFollows == ASSUME StreamInv, ReadHead PROVE StreamInv'
<1>1. poll = "head" /\ checkpoint # NoBlock /\ batch = {} /\ WordsLeft'
  BY DEF ReadHead, StreamInv, CheckpointOK, BlocksRead, WordsLeft, store
<1>2. UNCHANGED <<head, store, past>>
  BY DEF ReadHead
<1>3. CASE HandOver({}, rolled)
  <2>1. batch' = {} /\ poll' \in {"idle", "fence", "enqueue"}
    BY <1>3, HandsOver
  <2>2. QED
    BY <1>1, <1>2, <2>1, Elsewhere DEF StreamInv, store
<1>4. CASE /\ Height[head] - Height[checkpoint] \in 1..MaxGap
           /\ poll' = "blocks" /\ target' = head /\ last' = checkpoint /\ UNCHANGED batch
  <2>1. /\ head \in Blocks /\ checkpoint \in Blocks /\ WasSeen(checkpoint) /\ WasSeen(head)
        /\ Height[head] \in Nat /\ Height[checkpoint] \in Nat /\ checkpoint \in Chain[checkpoint]
    BY <1>1, BlockFacts, ChainHolds DEF StreamInv, CheckpointOK, WasSeen
  <2>2. Height[checkpoint] < Height[head]
    BY <1>4, <2>1, WalletStreamAssumption
  <2>3. WasSeen(target)' /\ WasSeen(last)' /\ WasSeen(checkpoint)'
    BY <1>2, <1>4, <2>1 DEF WasSeen, store
  <2>4. BlocksRead'
    BY <1>1, <1>2, <1>4, <2>1, <2>2, <2>3 DEF BlocksRead, store
  <2>5. CheckpointOK'
    BY <1>1, <1>2, <1>4, <2>3 DEF StreamInv, CheckpointOK, ActiveIsRead, ReadIsActive, store, past
  <2>6. QED
    BY <1>1, <1>2, <2>1, <2>4, <2>5 DEF StreamInv
<1>5. QED
  BY <1>3, <1>4 DEF ReadHead

LEMMA ReadBlockFollows == ASSUME StreamInv, ReadBlock PROVE StreamInv'
<1> DEFINE b == BlockAt(Height[last] + 1)
<1>1. poll = "blocks" /\ checkpoint # NoBlock /\ WordsLeft' /\ UNCHANGED <<head, store, past>>
  BY DEF ReadBlock, StreamInv, CheckpointOK, WordsLeft, store
<1>2. CASE EndPoll
  BY <1>1, <1>2, Elsewhere DEF EndPoll, StreamInv, store
<1>3. CASE /\ Parent[b] = last /\ last' = b /\ batch' = batch \cup {e \in Trades : BlockOf[e] = b}
           /\ poll' = IF Height[b] = Height[target] THEN "commit" ELSE "blocks"
           /\ UNCHANGED target
  <2>1. /\ head \in Blocks /\ WasSeen(target) /\ WasSeen(last) /\ checkpoint \in Chain[last]
        /\ Height[last] < Height[target] /\ Height[target] <= Height[head]
        /\ target \in Blocks /\ last \in Blocks /\ checkpoint \in Blocks
        /\ batch = {e \in Trades : BlockOf[e] \in Chain[last] \ Chain[checkpoint]}
    BY <1>1 DEF StreamInv, CheckpointOK, BlocksRead, WasSeen
  <2>2. /\ Height[last] \in Nat /\ Height[target] \in Nat /\ Height[head] \in Nat
        /\ Height[checkpoint] \in Nat
    BY <2>1, BlockFacts
  <2>3. b \in Blocks /\ Height[b] = Height[last] + 1
    <3>1. Height[last] + 1 \in 0..Height[head]
      BY <2>1, <2>2
    <3>2. QED
      BY <2>1, <3>1, BlockAtIs
  <2> HIDE DEF b
  <2>4. Chain[b] = {b} \cup Chain[last]
    <3>1. b # Genesis
      BY <2>2, <2>3, BlockFacts
    <3>2. QED
      BY <1>3, <2>3, <3>1, ChainUnfolds
  <2>5. b \notin Chain[checkpoint]
    <3>1. checkpoint = last \/ Height[checkpoint] < Height[last]
      BY <2>1, ChainGoesDown
    <3>2. Height[checkpoint] < Height[b]
      BY <2>2, <2>3, <3>1
    <3>3. b \in Chain[checkpoint] => b = checkpoint \/ Height[b] < Height[checkpoint]
      BY <2>1, ChainGoesDown
    <3>4. QED
      BY <2>2, <2>3, <3>2, <3>3
  <2>6. WasSeen(last)' /\ WasSeen(target)'
    <3>1. Height[b] <= Height[head]
      BY <2>1, <2>2, <2>3
    <3>2. QED
      BY <1>1, <1>3, <2>1, <2>3, <3>1 DEF WasSeen
  <2>7. batch' = {e \in Trades : BlockOf[e] \in Chain[b] \ Chain[checkpoint]}
    BY <1>3, <2>1, <2>4, <2>5
  <2>8. Height[b] # Height[target] => Height[b] < Height[target]
    BY <2>1, <2>2, <2>3
  <2>9. BlocksRead'
    BY <1>1, <1>3, <2>1, <2>4, <2>6, <2>7, <2>8 DEF BlocksRead, store
  <2>10. CheckpointOK'
    BY <1>1, <1>3 DEF StreamInv, CheckpointOK, ActiveIsRead, ReadIsActive, WasSeen, store, past
  <2>11. QED
    BY <1>1, <2>1, <2>9, <2>10 DEF StreamInv
<1>4. QED
  BY <1>2, <1>3 DEF ReadBlock

\* What is read is committed, and the head that was read first becomes the checkpoint: what
\* only one of the two has is parted.
LEMMA CommitFollows == ASSUME StreamInv, CommitBatch PROVE StreamInv'
<1>1. /\ poll = "commit" /\ checkpoint' = target /\ HandOver(Fresh, rolled)
      /\ parted' = parted \cup Apart(last, target)
      /\ UNCHANGED <<head, reverts, origin>>
      /\ \A e \in Trades : known'[e] = IF e \in Fresh THEN "active" ELSE known[e]
      /\ \A e \in Trades : signals'[e] = IF e \in Fresh THEN "pending" ELSE signals[e]
  BY DEF CommitBatch
<1>2. batch' = {} /\ poll' \in {"idle", "fence", "enqueue"}
  BY <1>1, HandsOver
<1>3. /\ head \in Blocks /\ WasSeen(target) /\ last \in Blocks /\ checkpoint \in Chain[last]
      /\ batch = {e \in Trades : BlockOf[e] \in Chain[last] \ Chain[checkpoint]}
  BY <1>1 DEF StreamInv, BlocksRead, WasSeen
<1>4. origin \in Blocks /\ ActiveIsRead /\ ReadIsActive
  BY <1>1 DEF StreamInv, CheckpointOK
<1>5. Chain[checkpoint] \subseteq Chain[last]
  BY <1>3, ChainOfMember
<1>6. \A e \in Trades \ parted' :
          e \notin parted /\ (BlockOf[e] \in Chain[last] <=> BlockOf[e] \in Chain[target])
  BY <1>1 DEF Apart
<1>7. ActiveIsRead'
  <2> SUFFICES ASSUME NEW e \in Trades, e \notin parted', known'[e] = "active"
               PROVE  BlockOf[e] \in Chain[target]
    BY <1>1 DEF ActiveIsRead
  <2>1. CASE e \in Fresh
    BY <1>3, <1>6, <2>1 DEF Fresh
  <2>2. CASE e \notin Fresh
    BY <1>1, <1>4, <1>5, <1>6, <2>2 DEF ActiveIsRead
  <2>3. QED
    BY <2>1, <2>2
<1>8. ReadIsActive'
  <2> SUFFICES ASSUME NEW e \in Trades, e \notin parted',
                      BlockOf[e] \in Chain[target], Height[BlockOf[e]] > Height[origin]
               PROVE  known'[e] = "active"
    BY <1>1 DEF ReadIsActive
  <2>1. CASE BlockOf[e] \in Chain[checkpoint]
    <3>1. known[e] = "active"
      BY <1>4, <1>6, <2>1 DEF ReadIsActive
    <3>2. QED
      BY <1>1, <3>1
  <2>2. CASE BlockOf[e] \notin Chain[checkpoint]
    <3>1. e \in batch
      BY <1>3, <1>6, <2>2
    <3>2. QED
      BY <1>1, <3>1 DEF Fresh
  <2>3. QED
    BY <2>1, <2>2
<1>9. WasSeen(checkpoint)'
  BY <1>1, <1>3 DEF WasSeen
<1>10. CheckpointOK'
  BY <1>1, <1>2, <1>3, <1>4, <1>7, <1>8, <1>9, BlockFacts DEF CheckpointOK, WasSeen
<1>11. WordsLeft'
  BY <1>1 DEF StreamInv, WordsLeft
<1>12. QED
  BY <1>1, <1>2, <1>3, <1>10, <1>11 DEF StreamInv, BlocksRead

LEMMA PollFollows == ASSUME StreamInv, PollStep PROVE StreamInv'
<1>1. CASE RepeatDeliveries
  <2>1. poll = "pending" /\ checkpoint # NoBlock /\ batch = {} /\ UNCHANGED <<head, store, past>>
    BY <1>1 DEF RepeatDeliveries, StreamInv, CheckpointOK, BlocksRead
  <2>2. batch' = {} /\ poll' \in {"head", "idle", "fence", "enqueue"}
    <3>1. CASE Continue("head")
      BY <2>1, <3>1 DEF Continue
    <3>2. CASE HandOver(Pending(signals), Pending(reverts))
      BY <3>2, HandsOver
    <3>3. QED
      BY <1>1, <3>1, <3>2 DEF RepeatDeliveries
  <2>3. QED
    BY <2>1, <2>2, Elsewhere DEF StreamInv, WordsLeft, store
<1>2. CASE FailPoll
  BY <1>2, Elsewhere DEF FailPoll, EndPoll, StreamInv, WordsLeft, store
<1>3. QED
  BY <1>1, <1>2, FirstPollFollows, StartPollFollows, RewindFollows, ReadHeadFollows, ReadBlockFollows,
     CommitFollows DEF PollStep

\* The bridge acknowledges what there is, and leaves the record and the chain alone.
LEMMA BridgeFollows == ASSUME StreamInv, DeliveryOK, Bridge PROVE StreamInv'
<1>1. ASSUME NEW e \in todo, Fence(e) \/ EnqueueEvent(e) PROVE StreamInv'
  <2>1. /\ poll \in {"fence", "enqueue"} /\ poll' \in {"cancel", "ackSignal"}
        /\ UNCHANGED <<head, store, past, batch>>
    BY <1>1 DEF Fence, EnqueueEvent, At
  <2>2. checkpoint # NoBlock /\ batch' = {}
    BY <2>1 DEF StreamInv, CheckpointOK, BlocksRead
  <2>3. QED
    BY <2>1, <2>2, Elsewhere DEF StreamInv, WordsLeft, store
<1>2. CASE Cancel
  <2>1. poll = "cancel" /\ poll' = "ackRevert" /\ UNCHANGED <<head, store, past, batch>>
    BY <1>2 DEF Cancel, At
  <2>2. checkpoint # NoBlock /\ batch' = {}
    BY <2>1 DEF StreamInv, CheckpointOK, BlocksRead
  <2>3. QED
    BY <2>1, <2>2, Elsewhere DEF StreamInv, WordsLeft, store
<1>3. CASE AckRevert
  <2>1. poll = "ackRevert" /\ UNCHANGED <<head, checkpoint, known, signals, past>>
    BY <1>3 DEF AckRevert
  <2>2. checkpoint # NoBlock /\ batch = {}
    BY <2>1 DEF StreamInv, CheckpointOK, BlocksRead
  <2>3. batch' = {} /\ poll' \in {"idle", "fence"}
    BY <1>3, <2>2 DEF AckRevert, Delivered, EndPoll
  <2>4. WordsLeft'
    <3>1. \A e \in Trades : reverts[e] # "none" => reverts'[e] # "none"
      BY <1>3 DEF AckRevert, Acknowledge, DeliveryOK
    <3>2. QED
      BY <2>1, <3>1 DEF StreamInv, WordsLeft
  <2>5. QED
    BY <2>1, <2>2, <2>3, <2>4, Elsewhere DEF StreamInv
<1>4. CASE AckSignal
  <2>1. poll = "ackSignal" /\ UNCHANGED <<head, checkpoint, known, reverts, past>>
    BY <1>4 DEF AckSignal
  <2>2. checkpoint # NoBlock /\ batch = {}
    BY <2>1 DEF StreamInv, CheckpointOK, BlocksRead
  <2>3. batch' = {} /\ poll' \in {"idle", "enqueue"}
    BY <1>4, <2>2 DEF AckSignal, Delivered, EndPoll
  <2>4. WordsLeft'
    <3>1. \A e \in Trades : signals[e] = "none" => signals'[e] = "none"
      BY <1>4 DEF AckSignal, Acknowledge, DeliveryOK
    <3>2. QED
      BY <2>1, <3>1 DEF StreamInv, WordsLeft
  <2>5. QED
    BY <2>1, <2>2, <2>3, <2>4, Elsewhere DEF StreamInv
<1>5. QED
  BY <1>1, <1>2, <1>3, <1>4 DEF Bridge

LEMMA StreamStep == ASSUME IInv, StreamInv, [INext]_ivars PROVE StreamInv'
<1>1. CASE UNCHANGED wvars
  BY <1>1
  DEF StreamInv, CheckpointOK, BlocksRead, WordsLeft, WasSeen, ActiveIsRead, ReadIsActive,
      wvars, store, past, poller
<1>2. CASE Bridge
  BY <1>2, BridgeFollows DEF IInv
<1>3. QED
  BY <1>1, <1>2, NewHeadFollows, PollFollows DEF INext, ivars

\* Whatever the chain abandons, however deep, and whatever of it comes back, and wherever polls
\* fail: a swap is missed, or stays out of the fences when it has gone out of an abandoned block,
\* only where a rewind or a batch parted it from the checkpoint (WalletRpcAdapter.poll).
THEOREM StreamIsFollowed == ISpec => []StreamFollowsChain
<1>1. IInv /\ StreamInv => StreamFollowsChain
  <2> SUFFICES ASSUME IInv, StreamInv, UpToDate PROVE AbandonedIsFenced /\ NothingMissed
    BY DEF StreamFollowsChain, AbandonedIsFenced, NothingMissed
  <2>1. /\ checkpoint # NoBlock /\ checkpoint \in Chain[head]
        /\ head \in Blocks /\ ActiveIsRead /\ ReadIsActive
    BY DEF UpToDate, StreamInv, CheckpointOK
  <2>2. ASSUME NEW e \in Trades, e \notin parted, signals[e] = "acked", BlockOf[e] \notin Chain[head]
        PROVE  reverts[e] = "pending" \/ e \in fenced
    <3>1. known[e] # "active"
      BY <2>1, <2>2, ChainOfMember DEF ActiveIsRead
    <3>2. known[e] = "reorged" /\ reverts[e] # "none"
      BY <2>2, <3>1 DEF IInv, DeliveryOK, StreamInv, WordsLeft
    <3>3. QED
      BY <3>2 DEF IInv, DeliveryOK, RevertIsFenced
  <2>3. NothingMissed
    BY <2>1 DEF ReadIsActive, NothingMissed
  <2>4. QED
    BY <2>2, <2>3 DEF AbandonedIsFenced
<1>2. IInv /\ StreamInv /\ [INext]_ivars => StreamInv'
  BY StreamStep
<1>3. QED
  BY <1>1, <1>2, IInvInitially, IInvStep, StreamInitially, PTL DEF ISpec
=============================================================================
