------------------------------- MODULE Ingress -------------------------------
(***************************************************************************)
(* From a block of the chain to the broadcast attempt: WalletQueueBridge   *)
(* carries what WalletStream's outbox holds into SignalQueue and into the  *)
(* fences of the execution journal.  The three stores are different        *)
(* databases: the bridge commits to one after the other, and may end in    *)
(* between.                                                                *)
(***************************************************************************)
EXTENDS WalletStream, SignalQueue

ASSUME IngressAssumption == Signals = Trades

ivars == <<wvars, qvars>>

ITypeOK == WTypeOK /\ QTypeOK

IInit == WInit /\ QInit

-----------------------------------------------------------------------------
(* poll_once of the bridge, one commit at a time.                          *)

\* The bridge goes on with delivery e.
At(e, next) ==
    /\ poll' = next
    /\ item' = e
    /\ UNCHANGED <<target, last, batch, rolled, todo>>

\* One delivery is acknowledged; a batch of reverted ids always ends with an exception.
Delivered(next) ==
    IF todo = {item} THEN EndPoll
    ELSE /\ poll' = next
         /\ item' = NoBlock
         /\ todo' = todo \ {item}
         /\ UNCHANGED <<target, last, batch, rolled>>

Acknowledge(outbox) == [outbox EXCEPT ![item] = "acked"]

Fence(e) ==
    /\ poll = "fence" /\ e \in todo
    /\ RecordSourceReorg(e)
    /\ At(e, "cancel")
    /\ UNCHANGED <<head, store, past, table, service, mishaps>>

Cancel ==
    /\ poll = "cancel"
    /\ CancelReorged(item)
    /\ At(item, "ackRevert")
    /\ UNCHANGED <<head, store, past, journal, service, mishaps>>

\* "wallet_reorg_outbox_ack_lost" is raised for an id that was acknowledged before.
AckRevert ==
    /\ poll = "ackRevert"
    /\ \/ /\ reverts[item] = "pending"
          /\ reverts' = Acknowledge(reverts)
          /\ Delivered("fence")
       \/ reverts[item] # "pending" /\ UNCHANGED reverts /\ EndPoll
    /\ UNCHANGED <<head, checkpoint, known, signals, past, qvars>>

\* Mutant of EnqueueEvent: the outbox is acknowledged before the queue has the signal.
EnqueueEvent_AckFirst(e) ==
    /\ poll = "enqueue" /\ e \in todo
    /\ signals' = [signals EXCEPT ![e] = "acked"]
    /\ UNCHANGED table
    /\ At(e, "ackSignal")
    /\ UNCHANGED <<head, checkpoint, known, reverts, past, journal, service, mishaps>>

EnqueueEvent(e) ==
    /\ poll = "enqueue" /\ e \in todo
    /\ Enqueue(e)
    /\ At(e, "ackSignal")
    /\ UNCHANGED <<head, store, past, journal, service, mishaps>>

\* The adapter has one poller: what it was handed is still pending ("ack_lost" is not raised).
AckSignal ==
    /\ poll = "ackSignal"
    /\ signals[item] = "pending"
    /\ signals' = Acknowledge(signals)
    /\ Delivered("enqueue")
    /\ UNCHANGED <<head, checkpoint, known, reverts, past, qvars>>

Bridge ==
    \/ \E e \in todo : Fence(e) \/ EnqueueEvent(e)
    \/ Cancel \/ AckRevert \/ AckSignal

-----------------------------------------------------------------------------
INext ==
    \/ (\E b \in Blocks : NewHead(b)) /\ UNCHANGED qvars
    \/ PollStep /\ UNCHANGED qvars
    \/ Bridge
    \/ Queue /\ UNCHANGED wvars

ISpec == IInit /\ [][INext]_ivars

-----------------------------------------------------------------------------
(* Properties.                                                             *)

\* The stream is at a block of the chain: it has noticed every reorg below that block.
UpToDate == checkpoint # NoBlock /\ checkpoint \in Chain[head]

\* A signal that has gone out and whose block is abandoned is fenced, or will be before
\* anything else is delivered, as soon as the stream is on the chain again.
AbandonedIsFenced ==
    UpToDate =>
        \A e \in Trades \ parted :
            signals[e] = "acked" /\ BlockOf[e] \notin Chain[head] => reverts[e] = "pending" \/ e \in fenced

\* No swap after the first checkpoint is skipped: neither by the end of a process nor by the
\* chain moving between two reads of one poll.
NothingMissed ==
    UpToDate =>
        \A e \in Trades \ parted :
            BlockOf[e] \in Chain[checkpoint] /\ Height[BlockOf[e]] > Height[origin] => known[e] = "active"

\* Whatever was polled, however deep the chain forked and whenever the process ended, the
\* stream's record of the chain's swaps is complete, and so is what it takes back
\* (WalletRpcAdapter, EvmRpcProvider).  Excepted are the swaps that were parted from it in one
\* of two ways: a rewind of one block came down on another fork than the one it left, or the
\* head that a batch made the checkpoint was not the last block it read.
StreamFollowsChain == AbandonedIsFenced /\ NothingMissed

\* What the outbox holds acknowledged is in the queue, wherever the bridge may have ended.
AckedIsQueued == \A e \in Trades : signals[e] = "acked" => status[e] # "absent"

\* While a reverted signal is waiting for its fence, no new signal enters the queue
\* (ARCHITECTURE.md:77).
RevertsFirst == (\E e \in Trades : reverts[e] = "pending") => rows' = rows
NoDeliveryWhileReverting == [][RevertsFirst]_ivars

\* An acknowledged revert is effective: a signal that had not been attempted by then never is.
RevertHolds == \A e \in Trades : reverts[e] = "acked" /\ e \notin attempted => e \notin attempted'
RevertedNotAttempted == [][RevertHolds]_ivars

\* The bridge between the two databases: nothing is lost between them, reverts overtake
\* signals, and a revert that was taken over holds for good.
DeliveryIsSafe == [][AckedIsQueued' /\ RevertsFirst /\ RevertHolds]_ivars
=============================================================================
