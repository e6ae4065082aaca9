---------------------------- MODULE WorkerProofs ----------------------------
(***************************************************************************)
(* Proofs about the worker threads: PostTrade for every set of events and  *)
(* verdicts and any number of failures, crashes and in-line analyses, and  *)
(* RpcTransport for any endpoints, chains, callers and lag.                *)
(***************************************************************************)
EXTENDS PostTrade, RpcTransport, FiniteSetTheorems, TLAPS

-----------------------------------------------------------------------------
(* PostTrade.                                                                *)

USE DEF Steps

LEMMA AfterStep ==
    ASSUME NEW s \in Steps
    PROVE  /\ After[s] \in Steps \cup {"complete"}
           /\ After[s] # s
           /\ s = "intelligence" <=> After[s] = "risk"
           /\ s = "risk" <=> After[s] = "journal"
           /\ s = "journal" <=> After[s] = "risk_audit"
           /\ s = "risk_audit" <=> After[s] = "complete"
           /\ After[s] # "intelligence"
BY DEF After

LEMMA RankIsNat ==
    Cardinality({f \in Events : status[f] # "absent"}) + 1 \in Nat
<1>1. IsFiniteSet({f \in Events : status[f] # "absent"})
  BY PostTradeAssumption, FS_Subset
<1>2. QED
  BY <1>1, FS_CardinalityType

LEMMA TypeOKStep == TypeOK /\ [Next]_vars => TypeOK'
<1> SUFFICES ASSUME TypeOK, [Next]_vars PROVE TypeOK'
  OBVIOUS
<1> USE PostTradeAssumption DEF TypeOK, outbox, results, thread
<1>1. ASSUME NEW e \in Events, HandOff(e) PROVE TypeOK'
  BY <1>1, RankIsNat DEF HandOff
<1>2. ASSUME NEW e \in Events, BackoffElapses(e) PROVE TypeOK'
  BY <1>2 DEF BackoffElapses
<1>3. ASSUME NEW e \in Events, TakeInline(e) PROVE TypeOK'
  BY <1>3 DEF TakeInline, Take
<1>4. ASSUME NEW e \in Events, TakeRow(e) PROVE TypeOK'
  BY <1>4 DEF TakeRow, Take
<1>5. CASE StartDrain
  BY <1>5 DEF StartDrain, Due
<1>6. CASE EndDrain
  BY <1>6 DEF EndDrain
<1>7. CASE SkipStep
  BY <1>7, AfterStep DEF SkipStep, Resumed, ToNext
<1>8. CASE Profile
  BY <1>8 DEF Profile, Begin, ToMark
<1>9. CASE Evaluate
  BY <1>9 DEF Evaluate, Begin, ToMark
<1>10. CASE Journal
  BY <1>10 DEF Journal, Begin, ToMark
<1>11. CASE AppendAudit
  BY <1>11 DEF AppendAudit, Begin, ToMark
<1>12. CASE MarkStep
  BY <1>12, AfterStep DEF MarkStep, RiskCommit, ToNext
<1>13. CASE CompleteRow
  BY <1>13 DEF CompleteRow, Release
<1>14. CASE FailRow
  <2>1. status' \in [Events -> {"absent", "pending", "retry", "done", "dead"}]
    BY <1>14 DEF FailRow
  <2>2. attempts' \in [Events -> Nat] /\ waiting' \subseteq Events
    BY <1>14 DEF FailRow, Failures
  <2>3. step' \in {"idle", "drain"} /\ phase' = "effect"
    BY <1>14 DEF FailRow, Release
  <2>4. QED
    BY <1>14, <2>1, <2>2, <2>3 DEF FailRow, Release
<1>15. CASE FailInline
  BY <1>15 DEF FailInline, Release
<1>16. CASE ThreadDies \/ Restart
  <2>1. crashes' \in 0..MaxCrashes
    BY <1>16 DEF ThreadDies, Restart
  <2>2. QED
    BY <1>16, <2>1 DEF ThreadDies, Restart
<1>17. CASE UNCHANGED vars
  BY <1>17 DEF vars
<1>18. QED
  BY <1>1, <1>2, <1>3, <1>4, <1>5, <1>6, <1>7, <1>8, <1>9, <1>10, <1>11, <1>12, <1>13, <1>14,
     <1>15, <1>16, <1>17 DEF Next, Work, Effect

LEMMA TypeOKInitially == Init => TypeOK
<1> SUFFICES ASSUME Init PROVE TypeOK
  OBVIOUS
<1>1. crashes \in 0..MaxCrashes /\ inlined \in 0..MaxInline
  BY PostTradeAssumption DEF Init
<1>2. step \notin Steps \cup {"complete"} /\ step \in {"idle"}
  BY DEF Init
<1>3. QED
  BY <1>1, <1>2 DEF Init, TypeOK

\* Every variable keeps the type its table column or program variable has.
THEOREM Typing == Spec => []TypeOK
BY TypeOKInitially, TypeOKStep, PTL DEF Spec

-----------------------------------------------------------------------------
(* The invariant of the steps.                                             *)

IInv == TypeOK /\ OneVerdict /\ Marks /\ InHand /\ DoneIsAnalysed

LEMMA IInvInitially == Init => IInv
<1> SUFFICES ASSUME Init PROVE IInv
  OBVIOUS
<1>1. TypeOK
  BY TypeOKInitially
<1>2. OneVerdict /\ Marks /\ DoneIsAnalysed
  BY DEF Init, OneVerdict, Marks, DoneIsAnalysed
<1>3. InHand
  BY DEF Init, InHand
<1>4. QED
  BY <1>1, <1>2, <1>3 DEF IInv

\* A step that leaves the results alone and completes no row keeps the facts about events.
LEMMA ResultsFrame ==
    ASSUME IInv, UNCHANGED results,
           \A e \in Events : status'[e] = "done" => status[e] = "done"
    PROVE  OneVerdict' /\ Marks' /\ DoneIsAnalysed'
BY DEF IInv, OneVerdict, Marks, DoneIsAnalysed, results

\* A row that is taken up starts with nothing done in hand.
LEMMA TakeStep ==
    ASSUME IInv, NEW e \in Events, Take(e), UNCHANGED results, UNCHANGED status
    PROVE  OneVerdict' /\ Marks' /\ InHand' /\ DoneIsAnalysed'
<1>1. InHand'
  BY DEF Take, InHand
<1>2. QED
  BY <1>1, ResultsFrame

\* A row that is let go leaves nothing in hand.
LEMMA ReleaseStep ==
    ASSUME step' \in {"idle", "drain", "stopped"}, phase' = "effect"
    PROVE  InHand'
BY DEF InHand

LEMMA IInvStep == IInv /\ [Next]_vars => IInv'
<1> SUFFICES ASSUME IInv, [Next]_vars PROVE OneVerdict' /\ Marks' /\ InHand' /\ DoneIsAnalysed'
  BY TypeOKStep DEF IInv
<1> USE DEF outbox, thread
<1>1. ASSUME NEW e \in Events, HandOff(e) \/ BackoffElapses(e)
      PROVE  OneVerdict' /\ Marks' /\ InHand' /\ DoneIsAnalysed'
  <2>1. UNCHANGED <<results, thread>>
    BY <1>1 DEF HandOff, BackoffElapses
  <2>2. \A f \in Events : status'[f] = "done" => status[f] = "done"
    BY <1>1 DEF HandOff, BackoffElapses, IInv, TypeOK
  <2>3. InHand'
    BY <2>1 DEF IInv, InHand, results
  <2>4. QED
    BY <2>1, <2>2, <2>3, ResultsFrame
<1>2. ASSUME NEW e \in Events, TakeInline(e) \/ TakeRow(e)
      PROVE  OneVerdict' /\ Marks' /\ InHand' /\ DoneIsAnalysed'
  BY <1>2, TakeStep DEF TakeInline, TakeRow
<1>3. CASE StartDrain \/ EndDrain
  <2>1. InHand'
    BY <1>3 DEF StartDrain, EndDrain, IInv, InHand
  <2>2. QED
    BY <1>3, <2>1, ResultsFrame DEF StartDrain, EndDrain
<1>4. CASE SkipStep
  <2>1. InHand'
    BY <1>4, AfterStep DEF SkipStep, Resumed, ToNext, IInv, TypeOK, InHand, Marks, results
  <2>2. QED
    BY <1>4, <2>1, ResultsFrame DEF SkipStep
<1>5. CASE Profile
  BY <1>5 DEF Profile, Begin, ToMark, IInv, TypeOK, InHand, Marks, OneVerdict, DoneIsAnalysed
<1>6. CASE Evaluate
  <2>1. InHand'
    BY <1>6, PostTradeAssumption DEF Evaluate, Begin, ToMark, IInv, TypeOK, InHand, results
  <2>2. QED
    BY <1>6, <2>1, ResultsFrame DEF Evaluate
<1>7. CASE Journal
  BY <1>7 DEF Journal, Begin, ToMark, IInv, TypeOK, InHand, Marks, OneVerdict, DoneIsAnalysed
<1>8. CASE AppendAudit
  BY <1>8 DEF AppendAudit, Begin, ToMark, IInv, TypeOK, InHand, Marks, OneVerdict, DoneIsAnalysed
<1>9. CASE MarkStep
  <2>1. PICK e \in Events : e = cur
    BY <1>9 DEF MarkStep, IInv, TypeOK
  <2>2. \A f \in Events \ {e} : marked'[f] = marked[f] /\ verdict'[f] = verdict[f]
    BY <1>9, <2>1 DEF MarkStep, RiskCommit, IInv, TypeOK
  <2>3. marked'[e] = marked[e] \cup {step}
    BY <1>9, <2>1 DEF MarkStep, IInv, TypeOK
  <2>4. step # "risk" => verdict'[e] = verdict[e]
    BY <1>9, <2>1 DEF MarkStep, RiskCommit
  <2>5. step = "risk" => verdict'[e] = opinion /\ verdict[e] = "none"
    BY <1>9, <2>1 DEF MarkStep, RiskCommit, IInv, TypeOK, InHand, Marks
  <2>6. Marks' /\ OneVerdict'
    BY <1>9, <2>1, <2>2, <2>3, <2>4, <2>5
    DEF MarkStep, IInv, TypeOK, InHand, Marks, OneVerdict
  <2>7. DoneIsAnalysed'
    BY <1>9, <2>1, <2>2, <2>3, <2>4, <2>5
    DEF MarkStep, IInv, TypeOK, InHand, Marks, DoneIsAnalysed
  <2>8. InHand'
    BY <1>9, AfterStep, <2>1, <2>3, <2>4, <2>5 DEF MarkStep, ToNext, IInv, InHand
  <2>9. QED
    BY <2>6, <2>7, <2>8
<1>10. CASE CompleteRow
  <2>1. PICK e \in Events : e = cur
    BY <1>10 DEF CompleteRow, IInv, TypeOK
  <2>2. marked[e] = Steps
    BY <1>10, <2>1 DEF CompleteRow, IInv, TypeOK, InHand
  <2>3. DoneIsAnalysed'
    BY <1>10, <2>1, <2>2 DEF CompleteRow, results, IInv, TypeOK, Marks, DoneIsAnalysed
  <2>4. InHand'
    BY <1>10, ReleaseStep DEF CompleteRow, Release
  <2>5. OneVerdict' /\ Marks'
    BY <1>10 DEF CompleteRow, results, IInv, OneVerdict, Marks
  <2>6. QED
    BY <2>3, <2>4, <2>5
<1>11. CASE FailRow
  <2>1. \A f \in Events : status'[f] = "done" => status[f] = "done"
    BY <1>11 DEF FailRow, IInv, TypeOK
  <2>2. InHand' /\ UNCHANGED results
    BY <1>11, ReleaseStep DEF FailRow, Release
  <2>3. QED
    BY <2>1, <2>2, ResultsFrame
<1>12. CASE FailInline \/ ThreadDies \/ Restart
  <2>1. InHand' /\ UNCHANGED <<results, status>>
    BY <1>12, ReleaseStep DEF FailInline, Release, ThreadDies, Restart
  <2>2. QED
    BY <2>1, ResultsFrame
<1>13. CASE UNCHANGED vars
  <2>1. InHand'
    BY <1>13 DEF vars, results, IInv, InHand
  <2>2. QED
    BY <1>13, <2>1, ResultsFrame DEF vars
<1>14. QED
  BY <1>1, <1>2, <1>3, <1>4, <1>5, <1>6, <1>7, <1>8, <1>9, <1>10, <1>11, <1>12, <1>13
  DEF Next, Work, Effect

\* The inductive invariant: marks vouch for effects, and the row in hand has its place.
THEOREM Inductive == Spec => []IInv
BY IInvInitially, IInvStep, PTL DEF Spec

\* Whatever attempts were cut short, all records of an event carry the stored decision.
THEOREM RecordsAgree == Spec => []OneVerdict
BY Inductive, PTL DEF IInv

\* A completed row has had every step with its effect.
THEOREM CompletedIsAnalysed == Spec => []DoneIsAnalysed
BY Inductive, PTL DEF IInv

\* An analysis is one piece, over all its attempts.
THEOREM AnalysesAreWhole == Spec => []AnalysisIsWhole
BY RecordsAgree, CompletedIsAnalysed, PTL DEF AnalysisIsWhole

\* A stored decision is never replaced by a later evaluation.
THEOREM StoredVerdictStays == Spec => VerdictIsFinal
<1>1. IInv /\ [Next]_vars =>
        [\A e \in Events : verdict[e] # "none" => verdict'[e] = verdict[e]]_vars
  <2> SUFFICES ASSUME IInv, [Next]_vars, NEW e \in Events, verdict[e] # "none"
               PROVE  verdict'[e] = verdict[e]
    OBVIOUS
  <2>1. CASE MarkStep
    BY <2>1 DEF MarkStep, RiskCommit, IInv, TypeOK, Marks, InHand
  <2>2. CASE ~MarkStep
    BY <2>2 DEF Next, Work, Effect, vars, results, HandOff, BackoffElapses, TakeInline, TakeRow,
                StartDrain, EndDrain, SkipStep, Profile, Evaluate, Journal, AppendAudit,
                CompleteRow, FailRow, FailInline, ThreadDies, Restart
  <2>3. QED
    BY <2>1, <2>2
<1>2. QED
  BY <1>1, Inductive, PTL DEF Spec, VerdictIsFinal

-----------------------------------------------------------------------------
(* The lines of the audit archive.                                           *)

\* The line that was appended and is not marked yet.
LineInHand(e) == cur = e /\ step = "risk_audit" /\ phase = "mark"

\* What accounts for the lines of an event: an attempt that failed, ended or is under way in
\* line, and the one whose line is marked or about to be.
Accounted(e) ==
    attempts[e] + crashes + inlined - (IF inline /\ cur = e THEN 1 ELSE 0)
        + (IF "risk_audit" \in marked[e] \/ LineInHand(e) THEN 1 ELSE 0)

LinesAccounted ==
    /\ inline => step \in Steps \cup {"complete"}
    /\ \A e \in Events : audit[e] \in Nat /\ audit[e] <= Accounted(e)

LEMMA LinesStep == ASSUME IInv, LinesAccounted, [Next]_vars PROVE LinesAccounted'
<1> USE DEF outbox, thread, results
<1> DEFINE Covered(e) == audit[e] \in Nat /\ audit[e] <= Accounted(e)
<1>1. TypeOK /\ InHand /\ PostTradeAssumption
  BY PostTradeAssumption DEF IInv
<1>2. /\ crashes \in Nat /\ inlined \in Nat
      /\ \A e \in Events : attempts[e] \in Nat /\ audit[e] \in Nat /\ Covered(e)
  BY <1>1 DEF TypeOK, LinesAccounted, PostTradeAssumption
<1>3. (inline => step \in Steps \cup {"complete"})'
  BY <1>1, AfterStep
  DEF LinesAccounted, Next, Work, Effect, vars, HandOff, BackoffElapses, TakeInline, TakeRow, Take,
      StartDrain, EndDrain, SkipStep, ToNext, ToMark, Begin, Profile, Evaluate, Journal,
      AppendAudit, MarkStep, CompleteRow, FailRow, FailInline, Release, ThreadDies, Restart
<1>4. SUFFICES ASSUME NEW e \in Events PROVE Covered(e)'
  BY <1>3 DEF LinesAccounted
<1>5. /\ attempts[e] \in Nat /\ audit[e] \in Nat /\ crashes \in Nat /\ inlined \in Nat
      /\ audit[e] <= Accounted(e)
  BY <1>2
<1>6. inline => step \notin {"idle", "drain", "stopped"}
  BY DEF LinesAccounted
<1>7. LineInHand(e) => "risk_audit" \notin marked[e]
  BY <1>1 DEF LineInHand, InHand
<1>8. CASE \E f \in Events : HandOff(f) \/ BackoffElapses(f)
  <2>1. UNCHANGED <<attempts, results, thread, crashes, inlined>>
    BY <1>8 DEF HandOff, BackoffElapses
  <2>2. QED
    BY <1>5, <2>1 DEF Accounted, LineInHand
<1>9. CASE \E f \in Events : TakeInline(f) \/ TakeRow(f)
  <2>1. /\ UNCHANGED <<attempts, marked, audit, crashes>> /\ step' = "intelligence"
        /\ ~inline /\ step \in {"idle", "drain"}
        /\ \/ inline' = inline /\ inlined' = inlined
           \/ inlined' = inlined + 1
    BY <1>6, <1>9 DEF TakeInline, TakeRow, Take
  <2>2. QED
    BY <1>5, <2>1 DEF Accounted, LineInHand
<1>10. CASE StartDrain \/ EndDrain
  <2>1. UNCHANGED <<attempts, marked, audit, crashes, inlined, inline, cur>>
        /\ step \in {"idle", "drain"} /\ step' \in {"idle", "drain"}
    BY <1>10 DEF StartDrain, EndDrain
  <2>2. QED
    BY <1>5, <2>1 DEF Accounted, LineInHand
<1>11. CASE SkipStep \/ Profile \/ Evaluate \/ Journal
  <2>1. /\ UNCHANGED <<attempts, marked, audit, crashes, inlined, inline, cur>>
        /\ phase = "effect"
    BY <1>11 DEF SkipStep, Profile, Evaluate, Journal, Begin, ToNext, ToMark
  <2>2. QED
    BY <1>5, <2>1 DEF Accounted, LineInHand
<1>12. CASE AppendAudit
  <2>1. /\ UNCHANGED <<attempts, marked, crashes, inlined, inline, cur, step>>
        /\ step = "risk_audit" /\ phase = "effect" /\ phase' = "mark"
        /\ "risk_audit" \notin marked[cur] /\ cur \in Events
    BY <1>1, <1>12 DEF AppendAudit, Begin, ToMark, TypeOK
  <2>2. audit'[e] = audit[e] \/ (cur = e /\ audit'[e] = audit[e] + 1)
    BY <1>1, <1>12 DEF AppendAudit, TypeOK
  <2>3. QED
    BY <1>5, <2>1, <2>2 DEF Accounted, LineInHand
<1>13. CASE MarkStep
  <2>1. /\ UNCHANGED <<attempts, audit, crashes, inlined, inline, cur>>
        /\ step \in Steps /\ phase' = "effect" /\ cur \in Events
    BY <1>1, <1>13 DEF MarkStep, ToNext, TypeOK
  <2>2. marked'[e] = IF cur = e THEN marked[e] \cup {step} ELSE marked[e]
    BY <1>1, <1>13 DEF MarkStep, TypeOK
  <2>3. "risk_audit" \in marked[e] \/ LineInHand(e) => "risk_audit" \in marked'[e]
    BY <2>2 DEF LineInHand
  <2>4. QED
    BY <1>5, <2>1, <2>3 DEF Accounted, LineInHand
<1>14. CASE CompleteRow
  <2>1. /\ UNCHANGED <<attempts, marked, audit, crashes, inlined>>
        /\ step = "complete" /\ step' \in {"idle", "drain"} /\ inline' = FALSE
    BY <1>14 DEF CompleteRow, Release
  <2>2. QED
    BY <1>5, <2>1 DEF Accounted, LineInHand
<1>15. CASE FailRow
  <2>1. /\ UNCHANGED <<marked, audit, crashes, inlined>> /\ ~inline /\ inline' = FALSE
        /\ step' \in {"idle", "drain"} /\ cur \in Events
    BY <1>1, <1>15 DEF FailRow, Release, TypeOK
  <2>2. attempts'[e] = IF cur = e THEN attempts[e] + 1 ELSE attempts[e]
    BY <1>1, <1>15 DEF FailRow, Failures, TypeOK
  <2>3. QED
    BY <1>5, <2>1, <2>2 DEF Accounted, LineInHand
<1>16. CASE FailInline
  <2>1. /\ UNCHANGED <<attempts, marked, audit, crashes, inlined>> /\ inline /\ inline' = FALSE
        /\ step' \in {"idle", "drain"}
    BY <1>16 DEF FailInline, Release
  <2>2. QED
    BY <1>5, <2>1 DEF Accounted, LineInHand
<1>17. CASE ThreadDies \/ Restart
  <2>1. /\ UNCHANGED <<attempts, marked, audit, inlined>> /\ step' \in {"idle", "stopped"}
        /\ \/ step = "stopped" /\ crashes' = crashes
           \/ crashes' = crashes + 1
        /\ inline' = FALSE \/ (inline' = inline /\ ~inline)
    BY <1>17 DEF ThreadDies, Restart
  <2>2. QED
    BY <1>5, <1>6, <2>1 DEF Accounted, LineInHand
<1>18. CASE UNCHANGED vars
  BY <1>5, <1>18 DEF vars, Accounted, LineInHand
<1>19. QED
  BY <1>8, <1>9, <1>10, <1>11, <1>12, <1>13, <1>14, <1>15, <1>16, <1>17, <1>18
  DEF Next, Work, Effect

\* The audit archive repeats a decision only where an attempt was cut short: there are no
\* more lines of an event than attempts that failed or ended, and one.
THEOREM RepeatsExplained == Spec => []AuditRepeatsExplained
<1>1. Init => LinesAccounted
  BY DEF Init, LinesAccounted, Accounted, LineInHand
<1>2. IInv /\ LinesAccounted => AuditRepeatsExplained
  <2> SUFFICES ASSUME IInv, LinesAccounted, NEW e \in Events
               PROVE  audit[e] <= 1 + attempts[e] + crashes + inlined
    BY DEF AuditRepeatsExplained
  <2>1. attempts[e] \in Nat /\ audit[e] \in Nat /\ crashes \in Nat /\ inlined \in Nat
    BY PostTradeAssumption DEF IInv, TypeOK
  <2>2. QED
    BY <2>1 DEF LinesAccounted, Accounted
<1>3. QED
  BY <1>1, <1>2, Inductive, LinesStep, PTL DEF Spec

-----------------------------------------------------------------------------
(* RpcTransport.                                                             *)

Probed == [at : Heads, fresh : BOOLEAN]
Kinds == UNION {MethodsOf[t] : t \in Threads}

ObjectOK ==
    /\ health \in [Names -> Probed \union {None}]
    /\ highest \in Nat /\ nonce \in (0..MaxNonce) \union {None}
    /\ last \in Names \union {None}
WorldOK ==
    /\ head \in [Names -> Heads] /\ pending \in [Names -> 0..MaxNonce]
    /\ down \subseteq Names /\ drift \in 0..MaxDrift
CallsOK ==
    /\ pc \in [Threads -> {"idle", "refused", "probe", "gate", "ask"}]
    /\ method \in [Threads -> Kinds \union {None}]
    /\ index \in [Threads -> Nat] /\ switched \in [Threads -> BOOLEAN]
    /\ seen \in [Threads -> Nat]
    /\ \A t \in Threads : ~Idle(t) => index[t] \in DOMAIN Endpoints
LocalOK ==
    /\ view \in [Threads -> BOOLEAN] /\ pinned \in [Threads -> Names \union {None}]
    /\ answeredBy \in [Threads -> SUBSET Names]
HistoryOK ==
    /\ given \in 0..MaxNonce /\ fitting \in [Threads -> SUBSET Names]

RTyping == ObjectOK /\ WorldOK /\ CallsOK /\ LocalOK /\ HistoryOK

LEMMA EndpointFacts ==
    /\ DOMAIN Endpoints \subseteq Nat
    /\ \A i \in DOMAIN Endpoints : Endpoints[i] \in Names
    /\ None \notin Names
BY RpcAssumption DEF Names

LEMMA RTypingInitially == RInit => RTyping
BY RpcAssumption DEF RInit, RTyping, ObjectOK, WorldOK, CallsOK, LocalOK, HistoryOK, Idle

-----------------------------------------------------------------------------
(* What a step of a thread can be                                            *)

\* A failed candidate: the call is refused, or turns to a later candidate.
Refused(t) == Rest(t) = {} /\ Return(t, "refused")
Retried(t) == method' = method /\ \E i \in Rest(t) : (\A j \in Rest(t) : i <= j) /\ Try(t, i)

LEMMA FailedIs ==
    ASSUME NEW t, Failed(t)
    PROVE  /\ Refused(t) \/ Retried(t)
           /\ UNCHANGED <<world, shared, local, given>>
BY DEF Failed, Refused, Retried

\* The call has its answer.
Answered(t, n) ==
    /\ ~Unanchored(t) /\ Answers(At(t)) /\ ~NonceFell(t)
    /\ nonce' = IF method[t] = "nonce" THEN pending[At(t)] ELSE nonce
    /\ given' = IF method[t] = "nonce" /\ pending[At(t)] > given THEN pending[At(t)] ELSE given
    /\ highest' = IF n > highest THEN n ELSE highest
    /\ last' = At(t)
    /\ pinned' = IF view[t] THEN [pinned EXCEPT ![t] = At(t)] ELSE pinned
    /\ answeredBy' = IF view[t] THEN [answeredBy EXCEPT ![t] = @ \union {At(t)}] ELSE answeredBy
    /\ Return(t, "idle")
    /\ UNCHANGED <<world, health, view>>

\* A check of the candidate is passed, and the call goes on to the next.
Passed(t) ==
    /\ ~Idle(t)
    /\ \/ pc' = [pc EXCEPT ![t] = "gate"] /\ \E n \in Nat : seen' = [seen EXCEPT ![t] = n]
       \/ pc' = [pc EXCEPT ![t] = "ask"] /\ seen' = seen
    /\ \/ health' = health
       \/ \E h \in Heads : health' = [health EXCEPT ![At(t)] = [at |-> h, fresh |-> TRUE]]
    /\ UNCHANGED <<world, highest, nonce, last, method, index, switched, local, given>>

LEMMA AskIs ==
    ASSUME NEW t, NEW n, Ask(t, n)
    PROVE  Answered(t, n) \/ Failed(t)
BY DEF Ask, Answered

LEMMA JudgeIs ==
    ASSUME NEW t, NEW n, Judge(t, n)
    PROVE  Answered(t, n) \/ Failed(t)
BY AskIs DEF Judge

LEMMA AtIsName ==
    ASSUME RTyping, NEW t \in Threads, ~Idle(t)
    PROVE  At(t) \in Names /\ index[t] \in DOMAIN Endpoints
BY EndpointFacts DEF RTyping, CallsOK, At

\* A step of a thread begins a call, refuses or moves on from a candidate, passes one of
\* its checks, gives the answer, or opens or closes a view.
LEMMA StepIs ==
    ASSUME RTyping, NEW t \in Threads, Step(t)
    PROVE  \/ \E m \in MethodsOf[t] : Call(t, m)
           \/ ~Idle(t) /\ Failed(t)
           \/ ~Idle(t) /\ \E n \in Nat : Answered(t, n)
           \/ Passed(t)
           \/ OpenView(t) \/ CloseView(t)
<1>1. ASSUME ~Idle(t), NEW e, e = At(t), health[e] # None
      PROVE  health[e].at \in Heads /\ Height(health[e].at) \in Nat
  BY <1>1, AtIsName, RpcAssumption DEF RTyping, ObjectOK, Probed
<1>2. CASE ProbeCached(t)
  <2>1. ~Idle(t)
    BY <1>2 DEF ProbeCached, Idle
  <2>2. Height(health[At(t)].at) \in Nat
    BY <1>1, <1>2, <2>1 DEF ProbeCached, CacheServes
  <2>3. CASE switched[t]
    BY <1>2, <2>1, <2>2, <2>3 DEF ProbeCached, Passed, shared
  <2>4. CASE ~switched[t]
    BY <1>2, <2>1, <2>2, <2>4, JudgeIs DEF ProbeCached
  <2>5. QED
    BY <2>3, <2>4
<1>3. CASE Probe(t)
  <2>1. ~Idle(t)
    BY <1>3 DEF Probe, Idle
  <2>2. \A h \in HeadersOf(At(t)) : h \in Heads /\ Height(h) \in Nat
    BY RpcAssumption DEF HeadersOf
  <2>3. QED
    BY <1>3, <2>1, <2>2 DEF Probe, Passed
<1>4. CASE Gate(t)
  <2>1. ~Idle(t) /\ seen[t] \in Nat
    BY <1>4 DEF Gate, Idle, RTyping, CallsOK
  <2>2. QED
    BY <1>4, <2>1, JudgeIs DEF Gate, Passed, shared
<1>5. CASE AskNow(t)
  <2>1. ~Idle(t) /\ seen[t] \in Nat
    BY <1>5 DEF AskNow, Idle, RTyping, CallsOK
  <2>2. QED
    BY <1>5, <2>1, AskIs DEF AskNow
<1>6. QED
  BY <1>2, <1>3, <1>4, <1>5 DEF Step

-----------------------------------------------------------------------------
(* Types                                                                     *)

LEMMA TryTypes ==
    ASSUME RTyping, NEW t \in Threads, NEW i \in DOMAIN Endpoints, Try(t, i), method' = method
           \/ \E m \in MethodsOf[t] : method' = [method EXCEPT ![t] = m]
    PROVE  CallsOK'
BY EndpointFacts DEF RTyping, CallsOK, Try, Idle, Kinds

LEMMA ReturnTypes ==
    ASSUME RTyping, NEW t \in Threads, NEW how \in {"idle", "refused"}, Return(t, how)
    PROVE  CallsOK'
BY EndpointFacts DEF RTyping, CallsOK, Return, Idle, Kinds

LEMMA WatchTypes == ASSUME RTyping, Watch PROVE (fitting \in [Threads -> SUBSET Names])'
BY DEF Watch, RTyping, HistoryOK

LEMMA StepTypes == ASSUME RTyping, NEW t \in Threads, Step(t), Watch PROVE RTyping'
<1> USE DEF world, shared, calls, local
<1>0. DOMAIN Endpoints \subseteq Nat /\ fitting' \in [Threads -> SUBSET Names]
  BY EndpointFacts, WatchTypes
<1>1. CASE \E m \in MethodsOf[t] : Call(t, m)
  <2>1. PICK m \in MethodsOf[t] : Call(t, m)
    BY <1>1
  <2>2. PICK i \in DOMAIN Endpoints : Try(t, i)
    BY <2>1 DEF Call, Candidates
  <2>3. CallsOK'
    BY <2>1, <2>2, TryTypes DEF Call
  <2>4. QED
    BY <1>0, <2>1, <2>3 DEF Call, RTyping, ObjectOK, WorldOK, LocalOK, HistoryOK
<1>2. CASE ~Idle(t) /\ Failed(t)
  <2>1. CallsOK'
    <3>1. CASE Refused(t)
      BY <3>1, ReturnTypes DEF Refused
    <3>2. CASE Retried(t)
      BY <3>2, TryTypes DEF Retried, Rest, Candidates
    <3>3. QED
      BY <1>2, <3>1, <3>2, FailedIs
  <2>2. QED
    BY <1>0, <1>2, <2>1, FailedIs DEF RTyping, ObjectOK, WorldOK, LocalOK, HistoryOK
<1>3. CASE ~Idle(t) /\ \E n \in Nat : Answered(t, n)
  <2>1. PICK n \in Nat : Answered(t, n)
    BY <1>3
  <2>2. At(t) \in Names /\ pending[At(t)] \in 0..MaxNonce
    BY <1>3, AtIsName DEF RTyping, WorldOK
  <2>3. CallsOK'
    BY <2>1, ReturnTypes DEF Answered
  <2>4. ObjectOK'
    BY <2>1, <2>2 DEF Answered, RTyping, ObjectOK
  <2>5. LocalOK'
    BY <2>1, <2>2 DEF Answered, RTyping, LocalOK
  <2>6. QED
    BY <1>0, <2>1, <2>2, <2>3, <2>4, <2>5 DEF Answered, RTyping, WorldOK, HistoryOK
<1>4. CASE Passed(t)
  <2>1. At(t) \in Names
    BY <1>4, AtIsName DEF Passed
  <2>2. ObjectOK'
    <3>1. \A h \in Heads : [at |-> h, fresh |-> TRUE] \in Probed
      BY DEF Probed
    <3>2. health' \in [Names -> Probed \union {None}]
      BY <1>4, <2>1, <3>1 DEF Passed, RTyping, ObjectOK
    <3>3. QED
      BY <1>4, <3>2 DEF Passed, RTyping, ObjectOK
  <2>3. CallsOK'
    BY <1>4 DEF Passed, RTyping, CallsOK, Idle
  <2>4. QED
    BY <1>0, <1>4, <2>2, <2>3 DEF Passed, RTyping, WorldOK, LocalOK, HistoryOK
<1>5. CASE OpenView(t) \/ CloseView(t)
  BY <1>0, <1>5 DEF OpenView, CloseView, RTyping, ObjectOK, WorldOK, CallsOK, LocalOK, HistoryOK, Idle
<1>6. QED
  BY <1>1, <1>2, <1>3, <1>4, <1>5, StepIs

LEMMA DriftTypes == ASSUME RTyping, Drift, Watch PROVE RTyping'
<1>1. fitting' \in [Threads -> SUBSET Names]
  BY WatchTypes
<1>2. WorldOK'
  <2>1. (drift \in 0..MaxDrift)'
    BY RpcAssumption DEF Drift, RTyping, WorldOK
  <2>2. PICK e \in Names :
          \/ \E h \in Heads : head' = [head EXCEPT ![e] = h] /\ UNCHANGED <<pending, down>>
          \/ \E n \in 0..MaxNonce : pending' = [pending EXCEPT ![e] = n] /\ UNCHANGED <<head, down>>
          \/ down' = (down \ {e}) \union ({e} \ down) /\ UNCHANGED <<head, pending>>
    BY DEF Drift
  <2>3. QED
    BY <2>1, <2>2 DEF RTyping, WorldOK
<1>3. QED
  BY <1>1, <1>2 DEF Drift, RTyping, ObjectOK, CallsOK, LocalOK, HistoryOK, shared, calls, local, Idle

LEMMA ExpireTypes == ASSUME RTyping, NEW e \in Names, Expire(e), Watch PROVE RTyping'
<1>1. fitting' \in [Threads -> SUBSET Names]
  BY WatchTypes
<1>2. ObjectOK'
  BY DEF Expire, RTyping, ObjectOK, Probed
<1>3. QED
  BY <1>1, <1>2 DEF Expire, RTyping, WorldOK, CallsOK, LocalOK, HistoryOK, world, calls, local, Idle

LEMMA RTypingStep == RTyping /\ [RNext]_rvars => RTyping'
<1>1. ASSUME RTyping, UNCHANGED rvars PROVE RTyping'
  BY <1>1 DEF rvars, world, shared, calls, local, RTyping, ObjectOK, WorldOK, CallsOK, LocalOK,
              HistoryOK, Idle
<1>2. QED
  BY <1>1, StepTypes, DriftTypes, ExpireTypes DEF RNext

\* Every field, and every local of a call, keeps its type.
THEOREM TransportTypes == RSpec => []RTyping
BY RTypingInitially, RTypingStep, PTL DEF RSpec

-----------------------------------------------------------------------------
(* The pending nonce                                                         *)

\* The field is what the last caller was given, and callers were given no more.
NonceIsGiven == IF nonce = None THEN given = 0 ELSE nonce = given

LEMMA NonceStep ==
    ASSUME RTyping, NonceIsGiven, [RNext]_rvars
    PROVE  NonceIsGiven' /\ (nonce' # nonce => nonce' >= given)
<1>0. None \notin 0..MaxNonce /\ MaxNonce \in Nat /\ given \in 0..MaxNonce
  BY RpcAssumption DEF RTyping, HistoryOK
<1>1. CASE UNCHANGED <<nonce, given>>
  BY <1>1 DEF NonceIsGiven
<1>2. ASSUME NEW t \in Threads, NEW n \in Nat, ~Idle(t), Answered(t, n)
      PROVE  NonceIsGiven' /\ (nonce' # nonce => nonce' >= given)
  <2>1. pending[At(t)] \in 0..MaxNonce
    BY <1>2, AtIsName DEF RTyping, WorldOK
  <2>2. nonce = None \/ nonce \in 0..MaxNonce
    BY DEF RTyping, ObjectOK
  <2>3. CASE method[t] = "nonce"
    BY <1>0, <1>2, <2>1, <2>2, <2>3 DEF Answered, NonceFell, NonceIsGiven
  <2>4. CASE method[t] # "nonce"
    BY <1>2, <2>4 DEF Answered, NonceIsGiven
  <2>5. QED
    BY <2>3, <2>4
<1>3. ASSUME NEW t \in Threads, Step(t)
      PROVE  UNCHANGED <<nonce, given>> \/ (~Idle(t) /\ \E n \in Nat : Answered(t, n))
  BY <1>3, StepIs, FailedIs DEF Call, Passed, OpenView, CloseView, shared
<1>4. QED
  BY <1>1, <1>2, <1>3 DEF RNext, rvars, shared, Drift, Expire

\* No caller is given a pending nonce below one that a caller was given before.
THEOREM NoncesGrow == RSpec => NonceNeverFalls
<1>1. RInit => NonceIsGiven
  BY DEF RInit, NonceIsGiven
<1>2. RTyping /\ NonceIsGiven /\ [RNext]_rvars => NonceIsGiven'
  BY NonceStep
<1>3. RTyping /\ NonceIsGiven /\ [RNext]_rvars => [nonce' # nonce => nonce' >= given]_rvars
  BY NonceStep
<1>4. QED
  BY <1>1, <1>2, <1>3, TransportTypes, PTL DEF RSpec, NonceNeverFalls

-----------------------------------------------------------------------------
(* Views                                                                     *)

\* Who answered in the view is who it is pinned to, and a running call asks nobody else.
PinHolds(t) ==
    /\ ~Idle(t) => index[t] \in Candidates(t)
    /\ ~view[t] => pinned[t] = None /\ answeredBy[t] = {}
    /\ answeredBy[t] \subseteq {pinned[t]}

\* PinHolds reads the state of one thread only.
LEMMA PinFrame ==
    ASSUME NEW u \in Threads, PinHolds(u), pc'[u] = pc[u], index'[u] = index[u], view'[u] = view[u],
           pinned'[u] = pinned[u], answeredBy'[u] = answeredBy[u]
    PROVE  PinHolds(u)'
BY DEF PinHolds, Idle, Candidates

LEMMA PinStep ==
    ASSUME RTyping, NEW t \in Threads, PinHolds(t), Step(t)
    PROVE  PinHolds(t)'
<1> USE DEF calls, local
<1>1. CASE \E m \in MethodsOf[t] : Call(t, m)
  BY <1>1 DEF Call, Try, PinHolds, Candidates, RTyping, CallsOK
<1>2. CASE ~Idle(t) /\ Failed(t)
  BY <1>2, FailedIs DEF Refused, Retried, Return, Try, Rest, PinHolds, Candidates, Idle, RTyping, CallsOK
<1>3. CASE ~Idle(t) /\ \E n \in Nat : Answered(t, n)
  <2>1. PICK n \in Nat : Answered(t, n)
    BY <1>3
  <2>2. Idle(t)'
    BY <2>1 DEF Answered, Return, Idle, RTyping, CallsOK
  <2>3. At(t) \in Names /\ (pinned[t] = None \/ pinned[t] = At(t))
    BY <1>3, AtIsName DEF PinHolds, Candidates, At
  <2>4. CASE view[t]
    <3>1. /\ view' = view /\ pinned'[t] = At(t)
          /\ answeredBy'[t] = answeredBy[t] \union {At(t)}
      BY <2>1, <2>4 DEF Answered, RTyping, LocalOK
    <3>2. answeredBy[t] \subseteq Names /\ None \notin Names
      BY EndpointFacts DEF RTyping, LocalOK
    <3>3. QED
      BY <2>2, <2>3, <2>4, <3>1, <3>2 DEF PinHolds
  <2>5. CASE ~view[t]
    BY <2>1, <2>2, <2>5 DEF Answered, PinHolds
  <2>6. QED
    BY <2>4, <2>5
<1>4. CASE Passed(t)
  BY <1>4 DEF Passed, PinHolds, Candidates
<1>5. CASE OpenView(t) \/ CloseView(t)
  BY <1>5 DEF OpenView, CloseView, PinHolds, Idle, RTyping, LocalOK
<1>6. QED
  BY <1>1, <1>2, <1>3, <1>4, <1>5, StepIs

\* A step of one thread leaves the call and the view of every other alone.
LEMMA OthersKeep ==
    ASSUME RTyping, NEW t \in Threads, Step(t), NEW u \in Threads \ {t}
    PROVE  /\ pc'[u] = pc[u] /\ method'[u] = method[u] /\ index'[u] = index[u]
           /\ switched'[u] = switched[u] /\ seen'[u] = seen[u]
           /\ view'[u] = view[u] /\ pinned'[u] = pinned[u] /\ answeredBy'[u] = answeredBy[u]
<1> USE DEF calls, local, RTyping, CallsOK, LocalOK
<1>1. CASE \E m \in MethodsOf[t] : Call(t, m)
  BY <1>1 DEF Call, Try
<1>2. CASE Failed(t)
  BY <1>2, FailedIs DEF Refused, Retried, Return, Try
<1>3. CASE \E n \in Nat : Answered(t, n)
  BY <1>3 DEF Answered, Return
<1>4. CASE Passed(t)
  BY <1>4 DEF Passed
<1>5. CASE OpenView(t) \/ CloseView(t)
  BY <1>5 DEF OpenView, CloseView
<1>6. QED
  BY <1>1, <1>2, <1>3, <1>4, <1>5, StepIs

Pins == \A t \in Threads : PinHolds(t)

LEMMA PinsStep == ASSUME RTyping, Pins, [RNext]_rvars PROVE Pins'
<1>1. ASSUME UNCHANGED <<calls, local>> PROVE Pins'
  BY <1>1, PinFrame DEF Pins, calls, local
<1>2. ASSUME NEW t \in Threads, Step(t), NEW u \in Threads PROVE PinHolds(u)'
  BY <1>2, PinStep, PinFrame, OthersKeep DEF Pins
<1>3. QED
  BY <1>1, <1>2 DEF Pins, RNext, rvars, Drift, Expire

LEMMA PinsAlways == RSpec => []Pins
<1>1. RInit => Pins
  BY DEF RInit, Pins, PinHolds, Idle
<1>2. RTyping /\ Pins /\ [RNext]_rvars => Pins'
  BY PinsStep
<1>3. QED
  BY <1>1, <1>2, TransportTypes, PTL DEF RSpec

\* All answers of one view come from one endpoint, whatever the other threads do.
THEOREM ViewsKeepEndpoint == RSpec => []ViewKeepsEndpoint
<1>1. Pins => ViewKeepsEndpoint
  BY DEF Pins, PinHolds, ViewKeepsEndpoint
<1>2. QED
  BY <1>1, PinsAlways, PTL

-----------------------------------------------------------------------------
(* Reads outside a view                                                      *)

Reads(t) == ~Idle(t) /\ method[t] = "read" /\ ~view[t]

\* The endpoints that fitted all along are still to be tried, and were probed at the head
\* they have.
UntriedFit(t) ==
    /\ ~Idle(t) /\ switched[t] => last # None
    /\ ~Idle(t) => \A e \in fitting[t] : Fits(e)
    /\ Reads(t) =>
          /\ \A e \in fitting[t] : \E j \in DOMAIN Endpoints : index[t] <= j /\ Endpoints[j] = e
          /\ pc[t] # "probe" /\ At(t) \in fitting[t] => seen[t] = Height(head[At(t)])

\* An endpoint that fitted all along answers: the candidate a read fails at did not.
LEMMA FitAnswers ==
    ASSUME NEW t \in Threads, RTyping, PinHolds(t), UntriedFit(t), Step(t), Watch,
           Reads(t), At(t) \in fitting[t]
    PROVE  \/ \E n \in Nat : Answered(t, n)
           \/ /\ Passed(t)
              /\ At(t) \in fitting'[t] => seen'[t] = Height(head'[At(t)])
<1>1. /\ At(t) \in Names /\ Fits(At(t)) /\ head[At(t)] \in Heads
      /\ Height(head[At(t)]) \in Nat /\ Lag \in Nat /\ highest \in Nat /\ seen[t] \in Nat
  BY AtIsName, RpcAssumption DEF Reads, UntriedFit, RTyping, WorldOK, ObjectOK, CallsOK
<1>2. Answers(At(t)) /\ ~Stale(Height(head[At(t)])) /\ At(t) \notin Foreign
  BY <1>1 DEF Fits, Answers, Stale
<1>3. ASSUME NEW n \in Nat, Ask(t, n) PROVE Answered(t, n)
  BY <1>2, <1>3 DEF Ask, Answered, Unanchored, NonceFell, Reads
<1>4. CASE ProbeCached(t)
  <2>1. health[At(t)] # None /\ health[At(t)].fresh /\ ~switched[t]
    BY <1>4 DEF ProbeCached, CacheServes, Reads
  <2>2. Height(health[At(t)].at) = Height(head[At(t)])
    BY <1>1, <2>1 DEF Fits
  <2>3. QED
    BY <1>1, <1>2, <1>3, <1>4, <2>1, <2>2 DEF ProbeCached, Judge
<1>5. CASE Probe(t)
  <2>1. PICK h \in HeadersOf(At(t)) :
          /\ health' = [health EXCEPT ![At(t)] = [at |-> h, fresh |-> TRUE]]
          /\ seen' = [seen EXCEPT ![t] = Height(h)]
    BY <1>2, <1>5 DEF Probe
  <2>2. h \in Heads /\ Height(h) \in Nat
    BY RpcAssumption DEF HeadersOf
  <2>3. Passed(t)
    BY <1>2, <1>5, <2>1, <2>2 DEF Probe, Passed, Idle
  <2>4. ASSUME At(t) \in fitting'[t] PROVE seen'[t] = Height(head'[At(t)])
    <3>1. pc'[t] = "gate" /\ head' = head /\ seen'[t] = Height(h)
      BY <1>2, <1>5, <2>1 DEF Probe, world, RTyping, CallsOK
    <3>2. /\ health'[At(t)] = [at |-> h, fresh |-> TRUE] /\ ~Idle(t)'
          /\ [at |-> h, fresh |-> TRUE] # None
      <4>1. [at |-> h, fresh |-> TRUE] \in [at : Heads, fresh : BOOLEAN]
        BY <2>2
      <4>2. [at |-> h, fresh |-> TRUE] # None
        BY <4>1, RpcAssumption
      <4>3. health'[At(t)] = [at |-> h, fresh |-> TRUE]
        BY <1>1, <2>1 DEF RTyping, ObjectOK
      <4>4. QED
        BY <3>1, <4>2, <4>3 DEF Idle
    <3>3. ASSUME NEW e, e = At(t) PROVE Fits(e)' => h = head'[e]
      BY <3>2, <3>3 DEF Fits
    <3>4. \A e \in fitting'[t] : Fits(e)'
      BY <3>2 DEF Watch
    <3>5. QED
      BY <2>4, <3>1, <3>3, <3>4
  <2>5. QED
    BY <2>3, <2>4
<1>6. CASE Gate(t)
  <2>1. seen[t] = Height(head[At(t)])
    BY <1>6 DEF Gate, UntriedFit, Reads
  <2>2. switched[t] => Agrees(t)
    BY <1>1, <1>2, <2>1 DEF UntriedFit, Reads, Fits, Agrees
  <2>3. CASE ~switched[t]
    BY <1>1, <1>2, <1>3, <1>6, <2>1, <2>3 DEF Gate, Judge
  <2>4. CASE switched[t]
    <3>1. /\ pc' = [pc EXCEPT ![t] = "ask"]
          /\ UNCHANGED <<world, shared, method, index, switched, seen, local, given>>
      BY <1>2, <1>6, <2>1, <2>2, <2>4 DEF Gate
    <3>2. QED
      BY <2>1, <3>1, <1>6 DEF Passed, Gate, Idle, shared, world, At
  <2>5. QED
    BY <2>3, <2>4
<1>7. CASE AskNow(t)
  BY <1>1, <1>3, <1>7 DEF AskNow
<1>8. CASE (\E m \in MethodsOf[t] : Call(t, m)) \/ OpenView(t) \/ CloseView(t)
  BY <1>8 DEF Call, OpenView, CloseView, Reads
<1>9. QED
  BY <1>4, <1>5, <1>6, <1>7, <1>8 DEF Step

\* UntriedFit reads one call, and of the shared fields only what Watch tracks.
LEMMA FitFrame ==
    ASSUME NEW u \in Threads, UntriedFit(u), Watch, pc'[u] = pc[u], method'[u] = method[u],
           index'[u] = index[u], switched'[u] = switched[u], seen'[u] = seen[u], view'[u] = view[u],
           last # None => last' # None
    PROVE  UntriedFit(u)'
<1>1. Idle(u)' <=> Idle(u)
  BY DEF Idle
<1>2. ~Idle(u) => \A e \in fitting'[u] : e \in fitting[u] /\ Fits(e)' /\ head'[e] = head[e]
  BY <1>1 DEF Watch
<1>3. Reads(u)' <=> Reads(u)
  BY <1>1 DEF Reads
<1>4. ASSUME Reads(u)
      PROVE  /\ \A e \in fitting'[u] : \E j \in DOMAIN Endpoints : index'[u] <= j /\ Endpoints[j] = e
             /\ pc'[u] # "probe" /\ Endpoints[index'[u]] \in fitting'[u]
                   => seen'[u] = Height(head'[Endpoints[index'[u]]])
  BY <1>2, <1>4 DEF UntriedFit, Reads, At
<1>5. ~Idle(u)' => \A e \in fitting'[u] : Fits(e)'
  BY <1>1, <1>2
<1>6. ~Idle(u)' /\ switched'[u] => last' # None
  BY <1>1 DEF UntriedFit
<1>7. QED
  BY <1>3, <1>4, <1>5, <1>6 DEF UntriedFit, At

\* The candidate a read turns to after one that did not fit leaves no fitting one behind.
LEMMA FitStep ==
    ASSUME NEW t \in Threads, RTyping, PinHolds(t), UntriedFit(t), Step(t), Watch
    PROVE  /\ UntriedFit(t)'
           /\ Reads(t) /\ pc'[t] = "refused" => fitting[t] = {}
<1> USE DEF calls, local, shared
<1>0. /\ ~Idle(t)' => \A e \in fitting'[t] : Fits(e)' /\ e \in fitting[t] /\ head'[e] = head[e]
      /\ DOMAIN Endpoints \subseteq Nat
      /\ fitting[t] \subseteq Names
  BY EndpointFacts DEF Watch, RTyping, HistoryOK
<1>1. CASE \E m \in MethodsOf[t] : Call(t, m)
  <2>1. PICK i \in Candidates(t) : (\A j \in Candidates(t) : i <= j) /\ Try(t, i)
    BY <1>1 DEF Call
  <2>2. pc'[t] = "probe" /\ index'[t] = i /\ switched'[t] = (last # None /\ Endpoints[i] # last)
    BY <2>1 DEF Try, RTyping, CallsOK
  <2>3. last' = last /\ view' = view /\ Idle(t)
    BY <1>1 DEF Call
  <2>4. ~view[t] => \A e \in fitting[t] : \E j \in DOMAIN Endpoints : i <= j /\ Endpoints[j] = e
    BY <1>0, <2>1 DEF PinHolds, Candidates, Names
  <2>5. QED
    BY <1>0, <2>2, <2>3, <2>4 DEF UntriedFit, Reads, Idle
<1>2. CASE ~Idle(t) /\ Failed(t) /\ (Reads(t) => At(t) \notin fitting[t])
  <2>1. last' = last /\ view' = view
    BY <1>2, FailedIs
  <2>2. ASSUME Reads(t), NEW e \in fitting[t]
        PROVE  \E j \in Rest(t) : Endpoints[j] = e
    <3>1. PICK j \in DOMAIN Endpoints : index[t] <= j /\ Endpoints[j] = e
      BY <2>2 DEF UntriedFit
    <3>2. j # index[t]
      BY <1>2, <2>2, <3>1 DEF At
    <3>3. pinned[t] = None /\ ~OneShot(method[t]) /\ j \in Candidates(t)
      BY <2>2, <3>1 DEF PinHolds, Reads, OneShot, Candidates
    <3>4. index[t] \in Nat /\ j \in Nat
      BY <1>0 DEF RTyping, CallsOK
    <3>5. QED
      BY <3>1, <3>2, <3>3, <3>4 DEF Rest
  <2>3. CASE Refused(t)
    BY <2>2, <2>3 DEF Refused, Return, UntriedFit, Reads, Idle, RTyping, CallsOK
  <2>4. CASE Retried(t)
    <3>1. PICK i \in Rest(t) : (\A j \in Rest(t) : i <= j) /\ Try(t, i)
      BY <2>4 DEF Retried
    <3>2. /\ pc'[t] = "probe" /\ index'[t] = i /\ method' = method
          /\ switched'[t] = (last # None /\ Endpoints[i] # last)
      BY <2>4, <3>1 DEF Retried, Try, RTyping, CallsOK
    <3>3. \A j \in Rest(t) : j \in DOMAIN Endpoints
      BY DEF Rest, Candidates
    <3>4. Reads(t)' => Reads(t)
      BY <1>2, <2>1, <3>2 DEF Reads
    <3>5. QED
      BY <1>0, <2>1, <2>2, <3>1, <3>2, <3>3, <3>4 DEF UntriedFit, Reads, Idle
  <2>5. QED
    BY <1>2, <2>3, <2>4, FailedIs
<1>3. CASE ~Idle(t) /\ \E n \in Nat : Answered(t, n)
  BY <1>3 DEF Answered, Return, UntriedFit, Reads, Idle, RTyping, CallsOK
<1>4. CASE Passed(t) /\ (Reads(t) /\ At(t) \in fitting[t] =>
                           (At(t) \in fitting'[t] => seen'[t] = Height(head'[At(t)])))
  <2>1. /\ pc'[t] \in {"gate", "ask"} /\ index' = index /\ method' = method /\ switched' = switched
        /\ view' = view /\ last' = last
    BY <1>4 DEF Passed, RTyping, CallsOK
  <2>2. ~Idle(t) /\ ~Idle(t)' /\ (Reads(t)' => Reads(t))
    BY <1>4, <2>1 DEF Passed, Reads, Idle
  <2>3. Reads(t) /\ Endpoints[index'[t]] \in fitting'[t]
          => seen'[t] = Height(head'[Endpoints[index'[t]]])
    BY <1>0, <1>4, <2>1, <2>2 DEF At
  <2>4. QED
    BY <1>0, <2>1, <2>2, <2>3 DEF UntriedFit, At
<1>5. CASE OpenView(t) \/ CloseView(t)
  BY <1>5 DEF OpenView, CloseView, UntriedFit, Reads, Idle
<1>6. QED
  <2>1. CASE Reads(t) /\ At(t) \in fitting[t]
    BY <1>3, <1>4, <2>1, FitAnswers DEF Reads
  <2>2. CASE ~(Reads(t) /\ At(t) \in fitting[t])
    BY <1>1, <1>2, <1>3, <1>4, <1>5, <2>2, StepIs
  <2>3. QED
    BY <2>1, <2>2

Untried == \A t \in Threads : UntriedFit(t)

RefusedRightly ==
    \A t \in Threads :
       ~Idle(t) /\ pc'[t] = "refused" /\ method[t] = "read" /\ ~view[t] => fitting[t] = {}

LEMMA UntriedStep ==
    ASSUME RTyping, Pins, Untried, [RNext]_rvars
    PROVE  Untried' /\ [RefusedRightly]_rvars
<1>1. CASE UNCHANGED rvars
  BY <1>1 DEF rvars, world, shared, calls, local, Untried, UntriedFit, Reads, Idle, Fits, At
<1>2. CASE Watch /\ (Drift \/ \E e \in Names : Expire(e))
  BY <1>2, FitFrame DEF Drift, Expire, shared, calls, local, Untried, RefusedRightly, Idle
<1>3. CASE Watch /\ \E t \in Threads : Step(t)
  <2>1. PICK t \in Threads : Step(t)
    BY <1>3
  <2>2. last # None => last' # None
    BY <2>1, StepIs, FailedIs, AtIsName, EndpointFacts
    DEF Call, Answered, Passed, OpenView, CloseView, shared
  <2>3. ASSUME NEW u \in Threads \ {t}
        PROVE  UntriedFit(u)' /\ pc'[u] = pc[u]
    BY <1>3, <2>1, <2>2, OthersKeep, FitFrame DEF Untried
  <2>4. UntriedFit(t)' /\ (Reads(t) /\ pc'[t] = "refused" => fitting[t] = {})
    BY <1>3, <2>1, FitStep DEF Untried, Pins
  <2>5. QED
    BY <2>3, <2>4 DEF Untried, RefusedRightly, Reads, Idle
<1>4. QED
  BY <1>1, <1>2, <1>3 DEF RNext

\* A read outside a view is refused only when no endpoint could have answered during all
\* of the call.
THEOREM LossIsSurvived == RSpec => LossSurvived
<1>1. RInit => Untried
  BY DEF RInit, Untried, UntriedFit, Reads, Idle
<1>2. RTyping /\ Pins /\ Untried /\ [RNext]_rvars => Untried'
  BY UntriedStep
<1>3. RTyping /\ Pins /\ Untried /\ [RNext]_rvars =>
        [\A t \in Threads :
            /\ ~Idle(t) /\ pc'[t] = "refused"
            /\ method[t] = "read" /\ ~view[t]
            => fitting[t] = {}]_rvars
  BY UntriedStep DEF RefusedRightly
<1>4. QED
  BY <1>1, <1>2, <1>3, TransportTypes, PinsAlways, PTL DEF RSpec, LossSurvived
=============================================================================
