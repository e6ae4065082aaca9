--------------------------- MODULE FastPathProofs ---------------------------
(***************************************************************************)
(* Proofs about FastPath for every set of events, every configuration and  *)
(* any number of failures and crashes.                                     *)
(***************************************************************************)
EXTENDS FastPath, FiniteSetTheorems, TLAPS

USE DEF Steps

LEMMA TypeOKInitially == Init => TypeOK
<1> SUFFICES ASSUME Init PROVE TypeOK
  OBVIOUS
<1>1. pc \in {"exited"} /\ pc \notin Steps
  BY DEF Init
<1>2. crashes \in 0..MaxCrashes
  BY ConfigAssumption DEF Init
<1>3. QED
  BY <1>1, <1>2 DEF Init, TypeOK

\* The arrival rank of a new row is a natural number.
LEMMA RankIsNat ==
    Cardinality({f \in Events : inbox[f] # "absent"}) + 1 \in Nat
<1>1. IsFiniteSet({f \in Events : inbox[f] # "absent"})
  BY EventsAssumption, FS_Subset
<1>2. QED
  BY <1>1, FS_CardinalityType

LEMMA TypeOKStep == TypeOK /\ [Next]_vars => TypeOK'
<1> SUFFICES ASSUME TypeOK, [Next]_vars PROVE TypeOK'
  OBVIOUS
<1> USE DEF TypeOK, world, database, book, process
<1>1. ASSUME NEW e \in Events, GrowOld(e) PROVE TypeOK'
  BY <1>1 DEF GrowOld
<1>2. ASSUME NEW e \in Events, BackoffElapses(e) PROVE TypeOK'
  BY <1>2 DEF BackoffElapses
<1>3. ASSUME NEW e \in Events, ReadSidecarLine(e) PROVE TypeOK'
  BY <1>3, RankIsNat DEF ReadSidecarLine, Enqueue
<1>4. ASSUME NEW k \in Keys, MonitorExit(k) PROVE TypeOK'
  BY <1>4 DEF MonitorExit
<1>5. CASE RowStep
  <2>1. CASE Decide
    BY <2>1 DEF Decide
  <2>2. CASE Apply
    BY <2>2, EventsAssumption DEF Apply, EventRow
  <2>3. CASE MarkDecision
    BY <2>3 DEF MarkDecision
  <2>4. CASE Notify
    BY <2>4 DEF Notify
  <2>5. CASE HandOff
    BY <2>5 DEF HandOff
  <2>6. CASE Analyse
    BY <2>6 DEF Analyse
  <2>7. CASE Complete
    BY <2>7 DEF Complete, NextRow
  <2>8. CASE AdvanceOffset
    BY <2>8 DEF AdvanceOffset, NextRow
  <2>9. QED
    BY <1>5, <2>1, <2>2, <2>3, <2>4, <2>5, <2>6, <2>7, <2>8 DEF RowStep
<1>6. CASE LoopStep
  <2>1. CASE FetchFeed
    BY <2>1 DEF FetchFeed
  <2>2. CASE FeedDone
    BY <2>2 DEF FeedDone
  <2>3. CASE StartBatch
    BY <2>3 DEF StartBatch, Due
  <2>4. CASE EndBatch
    BY <2>4 DEF EndBatch
  <2>5. CASE EndPost
    BY <2>5 DEF EndPost
  <2>6. ASSUME NEW e \in Events, FeedItem(e) PROVE TypeOK'
    BY <2>6, RankIsNat DEF FeedItem, Enqueue
  <2>7. ASSUME NEW e \in Events, TakeRow(e) PROVE TypeOK'
    BY <2>7 DEF TakeRow
  <2>8. ASSUME NEW e \in Events, TakeCompleted(e) PROVE TypeOK'
    BY <2>8 DEF TakeCompleted
  <2>9. QED
    BY <1>6, <2>1, <2>2, <2>3, <2>4, <2>5, <2>6, <2>7, <2>8 DEF LoopStep
<1>7. CASE FailRow
  BY <1>7 DEF FailRow, Failures
<1>8. CASE Boot
  BY <1>8, ConfigAssumption DEF Boot
<1>9. CASE Crash
  BY <1>9, ConfigAssumption DEF Crash
<1>10. CASE UNCHANGED vars
  BY <1>10 DEF vars
<1>11. QED
  BY <1>1, <1>2, <1>3, <1>4, <1>5, <1>6, <1>7, <1>8, <1>9, <1>10 DEF Next

\* Every variable keeps the type its table column or program variable has.
THEOREM Typing == Spec => []TypeOK
BY TypeOKInitially, TypeOKStep, PTL DEF Spec

-----------------------------------------------------------------------------
(* The safety invariants.  Recorded, Announced and HandedOff are what a    *)
(* step may establish and no step, crashes included, may take back.        *)

IInv == TypeOK /\ Progress /\ DoneIsComplete

\* The ledger, the outboxes and the age of an event only move forward.
Forward == \A e \in Events :
    /\ Recorded(e) => Recorded(e)'
    /\ Announced(e) => Announced(e)'
    /\ HandedOff(e) => HandedOff(e)'

LEMMA StepIsForward == TypeOK /\ [Next]_vars => Forward
<1> SUFFICES ASSUME TypeOK, [Next]_vars PROVE Forward
  OBVIOUS
<1> USE DEF TypeOK, Forward, Recorded, Announced, HandedOff, IsTrade,
            world, database, book, process
<1>1. ASSUME NEW e \in Events, GrowOld(e) \/ BackoffElapses(e) \/ ReadSidecarLine(e)
      PROVE  Forward
  BY <1>1 DEF GrowOld, BackoffElapses, ReadSidecarLine
<1>2. ASSUME NEW k \in Keys, MonitorExit(k) PROVE Forward
  BY <1>2 DEF MonitorExit
<1>3. CASE Apply
  BY <1>3 DEF Apply, EventRow, IsNewToLedger
<1>4. CASE Decide \/ MarkDecision \/ Notify
  BY <1>4 DEF Decide, MarkDecision, Notify
<1>5. CASE HandOff \/ Analyse
  BY <1>5 DEF HandOff, Analyse
<1>6. CASE Complete \/ AdvanceOffset
  BY <1>6 DEF Complete, AdvanceOffset
<1>7. CASE LoopStep
  BY <1>7 DEF LoopStep, FetchFeed, FeedDone, StartBatch, EndBatch, EndPost, FeedItem,
              TakeRow, TakeCompleted
<1>8. CASE FailRow \/ Boot \/ Crash
  BY <1>8 DEF FailRow, Boot, Crash
<1>9. CASE UNCHANGED vars
  BY <1>9 DEF vars
<1>10. QED
  BY <1>1, <1>2, <1>3, <1>4, <1>5, <1>6, <1>7, <1>8, <1>9 DEF Next, RowStep

LEMMA IInvInitially == Init => IInv
<1> SUFFICES ASSUME Init PROVE Progress /\ DoneIsComplete
  BY TypeOKInitially DEF IInv
<1>1. Progress
  BY DEF Init, Progress
<1>2. DoneIsComplete
  BY DEF Init, DoneIsComplete
<1>3. QED
  BY <1>1, <1>2

\* Steps that leave the ledger, the marks and the decision alone keep Progress if they
\* bring the thread to a place where it owes nothing yet.
LEMMA ProgressAtRest ==
    ASSUME TypeOK, TypeOK', Progress, Forward,
           UNCHANGED <<ledger, fills, marks>>,
           decision' = "none",
           pc' \notin Steps \ {"decide"},
           completed' \subseteq completed
    PROVE  Progress'
<1>1. \A e \in Events : fills'[e] = IF ledger'[e] = "filled" THEN 1 ELSE 0
  BY DEF Progress
<1>2. \A e \in marks' : IsTrade(e)' /\ Recorded(e)'
  BY DEF Progress, Forward, IsTrade, TypeOK
<1>3. \A e \in completed' : Recorded(e)' /\ Announced(e)' /\ HandedOff(e)'
  BY DEF Progress, Forward, TypeOK
<1>4. QED
  BY <1>1, <1>2, <1>3 DEF Progress

LEMMA ProgressStep == TypeOK /\ TypeOK' /\ Forward /\ Progress /\ [Next]_vars => Progress'
<1> SUFFICES ASSUME TypeOK, TypeOK', Forward, Progress, [Next]_vars PROVE Progress'
  OBVIOUS
<1> USE DEF world, database, book, process
<1>1. ASSUME NEW e \in Events, GrowOld(e) \/ BackoffElapses(e) \/ ReadSidecarLine(e)
      PROVE  Progress'
  <2>1. UNCHANGED <<ledger, fills, marks, decision, pc, cur, completed>>
    BY <1>1 DEF GrowOld, BackoffElapses, ReadSidecarLine
  <2>2. QED
    BY <2>1 DEF Progress, Forward, TypeOK, IsTrade, IsNewToLedger
<1>2. ASSUME NEW k \in Keys, MonitorExit(k) PROVE Progress'
  BY <1>2 DEF MonitorExit, Progress, Forward, TypeOK, IsTrade, IsNewToLedger
<1>3. CASE Decide
  <2>1. CopyEnabled /\ IsNewToLedger(cur) => decision' # "none"
    <3> SUFFICES ASSUME CopyEnabled, IsNewToLedger(cur) PROVE decision' # "none"
      OBVIOUS
    <3>1. cur \notin marks
      BY DEF Progress, Recorded, IsNewToLedger
    <3>2. NeedsDecision(cur)
      BY <3>1 DEF NeedsDecision, IsNewToLedger
    <3>3. QED
      BY <1>3, <3>2 DEF Decide, PaperDecision
  <2>2. decision' # "none" => IsTrade(cur)'
    BY <1>3 DEF Decide, PaperDecision, NeedsDecision, IsTrade
  <2>3. QED
    BY <1>3, <2>1, <2>2 DEF Decide, Progress, Forward, TypeOK, IsTrade, IsNewToLedger
<1>4. CASE Apply
  <2>1. \A e \in Events : fills'[e] = IF ledger'[e] = "filled" THEN 1 ELSE 0
    BY <1>4 DEF Apply, EventRow, IsNewToLedger, Progress, TypeOK
  <2>2. Recorded(cur)'
    BY <1>4 DEF Apply, EventRow, IsNewToLedger, Recorded, IsTrade, TypeOK
  <2>3. decision' # "none" => IsTrade(cur)'
    BY <1>4 DEF Apply, EventRow, Progress, IsTrade
  <2>4. \A e \in marks' : IsTrade(e)' /\ Recorded(e)'
    BY <1>4 DEF Apply, EventRow, Progress, Forward, TypeOK, IsTrade
  <2>5. \A e \in completed' : Recorded(e)' /\ Announced(e)' /\ HandedOff(e)'
    BY <1>4 DEF Apply, EventRow, Progress, Forward, TypeOK
  <2>6. QED
    BY <1>4, <2>1, <2>2, <2>3, <2>4, <2>5 DEF Apply, EventRow, Progress
<1>5. CASE MarkDecision
  BY <1>5 DEF MarkDecision, Progress, Forward, TypeOK, IsTrade
<1>6. CASE Notify
  <2>1. Announced(cur)'
    BY <1>6 DEF Notify, WorthANotice, Announced, TypeOK
  <2>2. QED
    BY <1>6, <2>1 DEF Notify, Progress, Forward, TypeOK, IsTrade
<1>7. CASE HandOff
  <2>1. PICK e \in Events : e = cur
    BY <1>7 DEF HandOff, TypeOK
  <2>2. HandedOff(e)'
    BY <1>7, <2>1 DEF HandOff, HandedOff, TypeOK
  <2>3. Recorded(e)' /\ Announced(e)'
    BY <1>7, <2>1 DEF HandOff, Progress, Forward
  <2>4. CASE ~once
    <3>1. cur' = e /\ pc' = "complete" /\ decision' = "none" /\ completed' = completed
      BY <1>7, <2>1, <2>4 DEF HandOff
    <3>2. QED
      BY <1>7, <2>2, <2>3, <3>1 DEF HandOff, Progress, Forward, TypeOK, IsTrade
  <2>5. CASE once
    <3>1. pc' = "batch" /\ decision' = "none" /\ completed' = completed \cup {e}
      BY <1>7, <2>1, <2>5 DEF HandOff
    <3>2. QED
      BY <1>7, <2>2, <2>3, <3>1 DEF HandOff, Progress, Forward, TypeOK, IsTrade
  <2>6. QED
    BY <2>4, <2>5
<1>8. CASE Analyse
  BY <1>8 DEF Analyse, Progress, Forward, TypeOK, IsTrade, HandedOff
<1>9. CASE Complete
  BY <1>9 DEF Complete, NextRow, Progress, Forward, TypeOK, IsTrade
<1>10. CASE AdvanceOffset
  BY <1>10 DEF AdvanceOffset, NextRow, Progress, Forward, TypeOK, IsTrade
<1>11. CASE LoopStep
  <2>1. CASE FetchFeed \/ FeedDone \/ StartBatch \/ EndBatch \/ EndPost
    BY <1>11, <2>1 DEF FetchFeed, FeedDone, StartBatch, EndBatch, EndPost, Progress, Forward,
                       TypeOK, IsTrade
  <2>2. ASSUME NEW e \in Events, FeedItem(e) PROVE Progress'
    BY <2>2 DEF FeedItem, Progress, Forward, TypeOK, IsTrade
  <2>3. ASSUME NEW e \in Events, TakeRow(e) PROVE Progress'
    BY <2>3 DEF TakeRow, Progress, Forward, TypeOK, IsTrade
  <2>4. ASSUME NEW e \in Events, TakeCompleted(e) PROVE Progress'
    BY <2>4 DEF TakeCompleted, First, Progress, Forward, TypeOK, IsTrade
  <2>5. QED
    BY <1>11, <2>1, <2>2, <2>3, <2>4 DEF LoopStep
<1>12. CASE FailRow
  BY <1>12, ProgressAtRest DEF FailRow
<1>13. CASE Boot
  BY <1>13 DEF Boot, Progress, Forward, TypeOK, IsTrade
<1>14. CASE Crash
  BY <1>14, ProgressAtRest DEF Crash
<1>15. CASE UNCHANGED vars
  BY <1>15 DEF vars, Progress, Forward, TypeOK, IsTrade, IsNewToLedger
<1>16. QED
  BY <1>1, <1>2, <1>3, <1>4, <1>5, <1>6, <1>7, <1>8, <1>9, <1>10, <1>11, <1>12, <1>13, <1>14,
     <1>15 DEF Next, RowStep

\* Only complete_event makes a row 'done', and it does so at the end of the row's journey.
LEMMA NewlyDone ==
    ASSUME TypeOK, [Next]_vars, NEW e \in Events, inbox'[e] = "done", inbox[e] # "done"
    PROVE  pc = "complete" /\ cur = e
<1> USE DEF TypeOK, world, database, book, process
<1>1. ASSUME NEW f \in Events, GrowOld(f) \/ BackoffElapses(f) PROVE FALSE
  BY <1>1 DEF GrowOld, BackoffElapses
<1>2. ASSUME NEW f \in Events, ReadSidecarLine(f) \/ FeedItem(f) PROVE FALSE
  BY <1>2 DEF ReadSidecarLine, FeedItem, Enqueue
<1>3. ASSUME NEW f \in Events, TakeRow(f) \/ TakeCompleted(f) PROVE FALSE
  BY <1>3 DEF TakeRow, TakeCompleted
<1>4. ASSUME NEW k \in Keys, MonitorExit(k) PROVE FALSE
  BY <1>4 DEF MonitorExit
<1>5. ~(Decide \/ Apply \/ MarkDecision \/ Notify \/ HandOff \/ Analyse \/ AdvanceOffset)
  BY DEF Decide, Apply, EventRow, MarkDecision, Notify, HandOff, Analyse, AdvanceOffset
<1>6. ~(FetchFeed \/ FeedDone \/ StartBatch \/ EndBatch \/ EndPost \/ FailRow \/ Boot \/ Crash)
  BY DEF FetchFeed, FeedDone, StartBatch, EndBatch, EndPost, FailRow, Boot, Crash
<1>7. CASE Complete
  BY <1>7 DEF Complete
<1>8. CASE UNCHANGED vars
  BY <1>8 DEF vars
<1>9. QED
  BY <1>1, <1>2, <1>3, <1>4, <1>5, <1>6, <1>7, <1>8 DEF Next, RowStep, LoopStep

LEMMA IInvStep == IInv /\ [Next]_vars => IInv'
<1> SUFFICES ASSUME IInv, [Next]_vars PROVE IInv'
  OBVIOUS
<1>1. TypeOK' /\ Forward
  BY TypeOKStep, StepIsForward DEF IInv
<1>2. Progress'
  BY <1>1, ProgressStep DEF IInv
<1>3. DoneIsComplete'
  <2> SUFFICES ASSUME NEW e \in Events, inbox'[e] = "done"
               PROVE  Recorded(e)' /\ Announced(e)' /\ HandedOff(e)'
    BY DEF DoneIsComplete
  <2>1. Recorded(e) /\ Announced(e) /\ HandedOff(e)
    <3>1. CASE inbox[e] = "done"
      BY <3>1 DEF IInv, DoneIsComplete
    <3>2. CASE inbox[e] # "done"
      BY <3>2, NewlyDone DEF IInv, Progress
    <3>3. QED
      BY <3>1, <3>2
  <2>2. QED
    BY <1>1, <2>1 DEF Forward
<1>4. QED
  BY <1>1, <1>2, <1>3 DEF IInv

\* The inductive invariant: at every place of the thread, what the databases know of the
\* event in hand.
THEOREM Inductive == Spec => []IInv
BY IInvInitially, IInvStep, PTL DEF Spec

\* No retry, failure or crash makes an event move the paper book twice.
THEOREM NeverFilledTwice == Spec => []AtMostOneFill
<1>1. IInv => AtMostOneFill
  BY DEF IInv, Progress, AtMostOneFill
<1>2. QED
  BY <1>1, Inductive, PTL

\* A 'paper:' mark is never found without the ledger's record of the event.
THEOREM MarkAfterLedger == Spec => []MarkFollowsLedger
<1>1. IInv => MarkFollowsLedger
  BY DEF IInv, TypeOK, Progress, Recorded, MarkFollowsLedger
<1>2. QED
  BY <1>1, Inductive, PTL

\* A completed inbox row means the ledger and both outboxes have their part.
THEOREM NothingLeftUndone == Spec => []DoneIsComplete
BY Inductive, PTL DEF IInv

\* The three of them: the databases agree on an event whatever interrupted its handling.
THEOREM AllDatabasesAgree == Spec => []DatabasesAgree
BY NeverFilledTwice, MarkAfterLedger, NothingLeftUndone, PTL DEF DatabasesAgree

\* Only the ledger transaction adds fills, and only to the event in hand.
LEMMA OnlyApplyFills ==
    ASSUME TypeOK, [Next]_vars, NEW e \in Events, fills'[e] # fills[e]
    PROVE  Apply /\ cur = e /\ IsNewToLedger(e) /\ Executes(e)
<1> USE DEF TypeOK, world, database, book, process
<1>1. ASSUME NEW f \in Events, GrowOld(f) \/ BackoffElapses(f) \/ ReadSidecarLine(f) PROVE FALSE
  BY <1>1 DEF GrowOld, BackoffElapses, ReadSidecarLine
<1>2. ASSUME NEW f \in Events, FeedItem(f) \/ TakeRow(f) \/ TakeCompleted(f) PROVE FALSE
  BY <1>2 DEF FeedItem, TakeRow, TakeCompleted
<1>3. ASSUME NEW k \in Keys, MonitorExit(k) PROVE FALSE
  BY <1>3 DEF MonitorExit
<1>4. ~(Decide \/ MarkDecision \/ Notify \/ HandOff \/ Analyse \/ Complete \/ AdvanceOffset)
  BY DEF Decide, MarkDecision, Notify, HandOff, Analyse, Complete, AdvanceOffset
<1>5. ~(FetchFeed \/ FeedDone \/ StartBatch \/ EndBatch \/ EndPost \/ FailRow \/ Boot \/ Crash)
  BY DEF FetchFeed, FeedDone, StartBatch, EndBatch, EndPost, FailRow, Boot, Crash
<1>6. CASE Apply
  BY <1>6 DEF Apply, EventRow
<1>7. CASE UNCHANGED vars
  BY <1>7 DEF vars
<1>8. QED
  BY <1>1, <1>2, <1>3, <1>4, <1>5, <1>6, <1>7 DEF Next, RowStep, LoopStep

\* No sell is executed without a decision of its own, on a first attempt or on a retry.
THEOREM SellsAreDecided == Spec => NoUndecidedSell
<1>1. IInv /\ [Next]_vars =>
        [\A e \in Events : CopyEnabled /\ Kind[e] = "sell" /\ fills'[e] # fills[e]
            => cur = e /\ decision = "sell_requested"]_vars
  <2> SUFFICES ASSUME IInv, [Next]_vars, NEW e \in Events,
                      CopyEnabled, Kind[e] = "sell", fills'[e] # fills[e]
               PROVE  cur = e /\ decision = "sell_requested"
    OBVIOUS
  <2>1. Apply /\ cur = e /\ IsNewToLedger(e) /\ Executes(e)
    BY OnlyApplyFills DEF IInv
  <2>2. decision # "none"
    BY <2>1 DEF IInv, Progress, Apply, EventRow
  <2>3. QED
    BY <2>1, <2>2 DEF Executes
<1>2. QED
  BY <1>1, Inductive, PTL DEF Spec, NoUndecidedSell

-----------------------------------------------------------------------------
(* Stale buys.                                                             *)

\* A buy that is stale and not executed, and of which the thread holds no decision to
\* execute it.
Sealed(e) ==
    /\ age[e] # "fresh"
    /\ ledger[e] # "filled"
    /\ cur = e => decision # "accepted"

\* No row of the ledger is written but by its transaction, which wants a decision for a buy.
LEMMA LedgerStays ==
    ASSUME IInv, [Next]_vars, NEW e \in Events, Kind[e] = "buy", Sealed(e)
    PROVE  ledger'[e] # "filled"
<1> USE DEF IInv, TypeOK, Sealed, world, database, book, process
<1>1. ASSUME NEW f \in Events, GrowOld(f) \/ BackoffElapses(f) \/ ReadSidecarLine(f)
      PROVE  ledger'[e] # "filled"
  BY <1>1 DEF GrowOld, BackoffElapses, ReadSidecarLine
<1>2. ASSUME NEW f \in Events, FeedItem(f) \/ TakeRow(f) \/ TakeCompleted(f)
      PROVE  ledger'[e] # "filled"
  BY <1>2 DEF FeedItem, TakeRow, TakeCompleted
<1>3. ASSUME NEW k \in Keys, MonitorExit(k) PROVE ledger'[e] # "filled"
  BY <1>3 DEF MonitorExit
<1>4. CASE Decide \/ MarkDecision \/ Notify \/ HandOff \/ Analyse \/ Complete \/ AdvanceOffset
  BY <1>4 DEF Decide, MarkDecision, Notify, HandOff, Analyse, Complete, AdvanceOffset
<1>5. CASE FetchFeed \/ FeedDone \/ StartBatch \/ EndBatch \/ EndPost \/ FailRow \/ Boot \/ Crash
  BY <1>5 DEF FetchFeed, FeedDone, StartBatch, EndBatch, EndPost, FailRow, Boot, Crash
<1>6. CASE Apply
  <2>1. cur \in Events /\ (cur = e => ~Executes(cur))
    BY <1>6 DEF Apply, Executes
  <2>2. QED
    BY <1>6, <2>1 DEF Apply, EventRow
<1>7. CASE UNCHANGED vars
  BY <1>7 DEF vars
<1>8. QED
  BY <1>1, <1>2, <1>3, <1>4, <1>5, <1>6, <1>7 DEF Next, RowStep, LoopStep

\* A stale event does not become fresh, and a decision to buy is made of a fresh one only.
LEMMA NotDecidedAgain ==
    ASSUME IInv, [Next]_vars, NEW e \in Events, Kind[e] = "buy", Sealed(e)
    PROVE  age'[e] # "fresh" /\ (cur' = e => decision' # "accepted")
<1> USE DEF IInv, TypeOK, Sealed, world, database, book, process
<1>1. ASSUME NEW f \in Events, GrowOld(f) \/ BackoffElapses(f) \/ ReadSidecarLine(f)
      PROVE  age'[e] # "fresh" /\ (cur' = e => decision' # "accepted")
  BY <1>1 DEF GrowOld, BackoffElapses, ReadSidecarLine
<1>2. ASSUME NEW f \in Events, FeedItem(f) \/ TakeRow(f) \/ TakeCompleted(f)
      PROVE  age'[e] # "fresh" /\ (cur' = e => decision' # "accepted")
  <2>1. age' = age /\ decision' = decision
    BY <1>2 DEF FeedItem, TakeRow, TakeCompleted
  <2>2. CASE FeedItem(f)
    BY <2>1, <2>2 DEF FeedItem
  <2>3. CASE TakeRow(f) \/ TakeCompleted(f)
    <3>1. decision = "none"
      BY <2>3 DEF TakeRow, TakeCompleted, Progress
    <3>2. QED
      BY <2>1, <3>1
  <2>4. QED
    BY <1>2, <2>2, <2>3
<1>3. ASSUME NEW k \in Keys, MonitorExit(k)
      PROVE  age'[e] # "fresh" /\ (cur' = e => decision' # "accepted")
  BY <1>3 DEF MonitorExit
<1>4. CASE Decide
  BY <1>4, EventsAssumption DEF Decide, PaperDecision, MayBuy
<1>5. CASE Apply \/ MarkDecision \/ Notify \/ HandOff \/ Analyse \/ Complete \/ AdvanceOffset
  BY <1>5, EventsAssumption DEF Apply, MarkDecision, Notify, HandOff, Analyse, Complete, AdvanceOffset
<1>6. CASE FetchFeed \/ FeedDone \/ StartBatch \/ EndBatch \/ EndPost \/ FailRow \/ Boot \/ Crash
  BY <1>6, EventsAssumption
  DEF FetchFeed, FeedDone, StartBatch, EndBatch, EndPost, FailRow, Boot, Crash
<1>7. CASE UNCHANGED vars
  BY <1>7 DEF vars
<1>8. QED
  BY <1>1, <1>2, <1>3, <1>4, <1>5, <1>6, <1>7 DEF Next, RowStep, LoopStep

\* A buy that is stale and out of the thread's hand is never executed, by no retry and
\* after no restart.
THEOREM StaleBuysAreNotMade == Spec => StaleNeverBought
<1>1. ASSUME NEW e \in Events, Kind[e] = "buy"
      PROVE  Spec => []((age[e] # "fresh" /\ cur # e /\ ledger[e] # "filled")
                        => [](ledger[e] # "filled"))
  <2>1. (age[e] # "fresh" /\ cur # e /\ ledger[e] # "filled") => Sealed(e)
    BY DEF Sealed
  <2>2. Sealed(e) => ledger[e] # "filled"
    BY DEF Sealed
  <2>3. IInv /\ [Next]_vars /\ Sealed(e) => Sealed(e)'
    BY <1>1, LedgerStays, NotDecidedAgain DEF Sealed
  <2>4. QED
    BY <2>1, <2>2, <2>3, Inductive, PTL DEF Spec
<1>2. QED
  BY <1>1 DEF StaleNeverBought

-----------------------------------------------------------------------------
(* The order of arrival.                                                   *)

\* A pass takes the oldest rows that are due, so that behind a row of the batch there is no
\* older one without an attempt but in the batch itself, in the second phase, or in hand.
\* That nothing arrives during a pass, and that a row which waits has had its first
\* attempt, is what keeps this true.
BatchIsOldest ==
    /\ pc \notin Steps => cur = NoEvent
    /\ pc \notin Steps \cup {"batch"} => batch = {}
    /\ pc \in {"post", "analyse"} => once
    /\ once /\ pc \in {"analyse", "complete", "advance"} => batch = {}
    /\ pc = "advance" => inbox[cur] # "pending"
    /\ \A e \in waiting : inbox[e] \notin {"absent", "pending"}
    /\ \A e \in batch, f \in Events :
          Before(f, e) /\ inbox[f] = "pending" => f \in batch \cup completed \cup {cur}

\* What is older than one of the oldest rows is one of them.
LEMMA OldestAreClosed ==
    ASSUME NEW S \in SUBSET Events, NEW e \in S, NEW f \in S, TypeOK, Before(f, e),
           Cardinality({g \in S : Before(g, e)}) < BatchLimit
    PROVE  Cardinality({g \in S : Before(g, f)}) < BatchLimit
<1> DEFINE A == {g \in S : Before(g, f)}
           B == {g \in S : Before(g, e)}
<1>1. A \subseteq B
  BY DEF Before, TypeOK
<1>2. IsFiniteSet(B)
  BY EventsAssumption, FS_Subset
<1>3. Cardinality(A) <= Cardinality(B) /\ Cardinality(A) \in Nat /\ Cardinality(B) \in Nat
  BY <1>1, <1>2, FS_Subset, FS_CardinalityType
<1>4. Cardinality(A) < BatchLimit
  <2> HIDE DEF A
  <2> QED
    BY <1>3, ConfigAssumption
<1>5. QED
  BY <1>4

LEMMA BatchInitially == Init => BatchIsOldest
BY DEF Init, BatchIsOldest

LEMMA BatchStep == TypeOK /\ BatchIsOldest /\ [Next]_vars => BatchIsOldest'
<1> SUFFICES ASSUME TypeOK, BatchIsOldest, [Next]_vars PROVE BatchIsOldest'
  OBVIOUS
<1> USE EventsAssumption DEF TypeOK, BatchIsOldest, Before, world, database, book, process
<1>1. ASSUME NEW e \in Events, GrowOld(e) PROVE BatchIsOldest'
  BY <1>1 DEF GrowOld
<1>2. ASSUME NEW e \in Events, BackoffElapses(e) PROVE BatchIsOldest'
  BY <1>2 DEF BackoffElapses
<1>3. ASSUME NEW e \in Events, ReadSidecarLine(e) PROVE BatchIsOldest'
  BY <1>3 DEF ReadSidecarLine, Enqueue
<1>4. ASSUME NEW k \in Keys, MonitorExit(k) PROVE BatchIsOldest'
  BY <1>4 DEF MonitorExit
<1>5. CASE RowStep
  <2>1. CASE Decide
    BY <2>1 DEF Decide
  <2>2. CASE Apply
    BY <2>2 DEF Apply
  <2>3. CASE MarkDecision
    BY <2>3 DEF MarkDecision
  <2>4. CASE Notify
    BY <2>4 DEF Notify
  <2>5. CASE HandOff
    BY <2>5 DEF HandOff
  <2>6. CASE Analyse
    BY <2>6 DEF Analyse
  <2>7. CASE Complete
    BY <2>7 DEF Complete, NextRow
  <2>8. CASE AdvanceOffset
    BY <2>8 DEF AdvanceOffset, NextRow
  <2>9. QED
    BY <1>5, <2>1, <2>2, <2>3, <2>4, <2>5, <2>6, <2>7, <2>8 DEF RowStep
<1>6. CASE LoopStep
  <2>1. CASE FetchFeed
    BY <2>1 DEF FetchFeed
  <2>2. CASE FeedDone
    BY <2>2 DEF FeedDone
  <2>3. CASE StartBatch
    <3>1. Due \in SUBSET Events /\ \A f \in Events : inbox[f] = "pending" => f \in Due
      BY DEF Due
    <3>2. ASSUME NEW e \in batch', NEW f \in Events, Before(f, e), inbox[f] = "pending"
          PROVE  f \in batch'
      <4>1. e \in Due /\ Cardinality({g \in Due : Before(g, e)}) < BatchLimit
        BY <2>3, <3>2 DEF StartBatch
      <4>2. Cardinality({g \in Due : Before(g, f)}) < BatchLimit
        BY <3>1, <3>2, <4>1, OldestAreClosed
      <4>3. QED
        BY <2>3, <3>1, <3>2, <4>2 DEF StartBatch
    <3>3. QED
      BY <2>3, <3>2 DEF StartBatch
  <2>4. CASE EndBatch
    BY <2>4 DEF EndBatch
  <2>5. CASE EndPost
    BY <2>5 DEF EndPost
  <2>6. ASSUME NEW e \in Events, FeedItem(e) PROVE BatchIsOldest'
    BY <2>6 DEF FeedItem, Enqueue
  <2>7. ASSUME NEW e \in Events, TakeRow(e) PROVE BatchIsOldest'
    BY <2>7 DEF TakeRow
  <2>8. ASSUME NEW e \in Events, TakeCompleted(e) PROVE BatchIsOldest'
    BY <2>8 DEF TakeCompleted
  <2>9. QED
    BY <1>6, <2>1, <2>2, <2>3, <2>4, <2>5, <2>6, <2>7, <2>8 DEF LoopStep
<1>7. CASE FailRow
  BY <1>7 DEF FailRow
<1>8. CASE Boot
  BY <1>8 DEF Boot
<1>9. CASE Crash
  BY <1>9 DEF Crash
<1>10. CASE UNCHANGED vars
  BY <1>10 DEF vars
<1>11. QED
  BY <1>1, <1>2, <1>3, <1>4, <1>5, <1>6, <1>7, <1>8, <1>9, <1>10 DEF Next

\* The thread takes a row up in one place only.
LEMMA TakenUp ==
    ASSUME TypeOK, Next, NEW e \in Events, pc = "batch", pc' = "decide", cur' = e
    PROVE  TakeRow(e)
<1> USE DEF world, database, book, process
<1>1. ASSUME NEW f \in Events, GrowOld(f) \/ BackoffElapses(f) \/ ReadSidecarLine(f) PROVE FALSE
  BY <1>1 DEF GrowOld, BackoffElapses, ReadSidecarLine
<1>2. ASSUME NEW f \in Events, FeedItem(f) \/ TakeCompleted(f) PROVE FALSE
  BY <1>2 DEF FeedItem, TakeCompleted
<1>3. ASSUME NEW k \in Keys, MonitorExit(k) PROVE FALSE
  BY <1>3 DEF MonitorExit
<1>4. ~RowStep
  BY DEF RowStep, Decide, Apply, MarkDecision, Notify, HandOff, Analyse, Complete, AdvanceOffset
<1>5. ~(FetchFeed \/ FeedDone \/ StartBatch \/ EndBatch \/ EndPost \/ FailRow \/ Boot \/ Crash)
  BY DEF FetchFeed, FeedDone, StartBatch, EndBatch, EndPost, FailRow, Boot, Crash
<1>6. ASSUME NEW f \in Events, TakeRow(f) PROVE TakeRow(e)
  BY <1>6 DEF TakeRow
<1>7. QED
  BY <1>1, <1>2, <1>3, <1>4, <1>5, <1>6 DEF Next, LoopStep

\* No event is taken while an older one has not had its first attempt, whatever was
\* retried, handed over to the second phase or interrupted before, and for any batch.
THEOREM OldestFirst == Spec => ArrivalPriority
<1>1. TypeOK /\ BatchIsOldest /\ [Next]_vars =>
        [\A e \in Events : pc = "batch" /\ pc' = "decide" /\ cur' = e
            => \A f \in Events : Before(f, e) /\ inbox[f] = "pending" => f \in completed]_vars
  <2> SUFFICES ASSUME TypeOK, BatchIsOldest, Next, NEW e \in Events, NEW f \in Events,
                      pc = "batch", pc' = "decide", cur' = e,
                      Before(f, e), inbox[f] = "pending"
               PROVE  f \in completed
    OBVIOUS
  <2>1. TakeRow(e)
    BY TakenUp
  <2>2. e \in batch /\ f \notin batch
    BY <2>1 DEF TakeRow, First
  <2>3. cur = NoEvent
    BY DEF BatchIsOldest
  <2>4. QED
    BY <2>2, <2>3, EventsAssumption DEF BatchIsOldest
<1>2. Spec => []BatchIsOldest
  BY BatchInitially, BatchStep, Typing, PTL DEF Spec
<1>3. QED
  BY <1>1, <1>2, Typing, PTL DEF Spec, ArrivalPriority
=============================================================================
