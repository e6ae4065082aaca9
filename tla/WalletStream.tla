---------------------------- MODULE WalletStream ----------------------------
(***************************************************************************)
(* The wallet source of an EVM chain: EvmRpcProvider reads blocks,         *)
(* WalletRpcAdapter.poll turns the watched wallets' swaps into events, and *)
(* CheckpointStore commits checkpoint, events and delivery outbox in one   *)
(* transaction.                                                            *)
(*                                                                         *)
(* A block stands for its hash and its number.  Every read of the chain is *)
(* a step of its own, and the chain may have moved on since the one before.*)
(* A poll that raises (an endpoint fails, lags behind, or contradicts what *)
(* was read) or whose process dies ends and leaves what it has committed.  *)
(***************************************************************************)
EXTENDS Integers, FiniteSets

CONSTANTS
    Blocks,
    Genesis,
    Parent,         \* [Blocks \ {Genesis} -> Blocks]
    Height,         \* [Blocks -> Nat]
    Trades,         \* swaps of watched wallets in a block; the event id contains its hash
    BlockOf,        \* [Trades -> Blocks]
    NoBlock,
    MaxGap,         \* maximum_blocks_per_poll
    MaxDepth,       \* bound: how many blocks a reorg abandons at once
    FirstHeads      \* bound: the heads the first poll may find

ASSUME WalletStreamAssumption ==
    /\ NoBlock \notin Blocks
    /\ \A b \in Blocks : Height[b] \in Nat
    /\ Genesis \in Blocks /\ Height[Genesis] = 0
    /\ \A b \in Blocks \ {Genesis} : Parent[b] \in Blocks /\ Height[b] = Height[Parent[b]] + 1
    /\ BlockOf \in [Trades -> Blocks \ {Genesis}] /\ NoBlock \notin Trades
    /\ MaxGap \in Nat \ {0} /\ MaxDepth \in Nat /\ FirstHeads \subseteq Blocks

VARIABLES
    head,           \* the chain's newest block
    checkpoint,     \* wallet_checkpoints: block number and hash
    origin,         \* the first checkpoint (history)
    parted,         \* swaps on which the checkpoint's chain and what was read differ (history)
    known,          \* wallet_source_events
    signals,        \* wallet_delivery_outbox: signal:<event>
    reverts,        \* wallet_delivery_outbox: reorg:<event>
    poll,           \* what the poller does next
    target,         \* the head it has read: the next checkpoint
    last,           \* the last block it has read
    batch,          \* the events it has found
    rolled,         \* the events that this poll has rolled back
    todo,           \* the deliveries handed to the bridge
    item            \* the one it is at

store  == <<checkpoint, known, signals, reverts>>
poller == <<poll, target, last, batch, rolled, todo, item>>
past   == <<origin, parted>>
wvars  == <<head, store, past, poller>>

ParentClosed(S) == \A b \in S \ {Genesis} : Parent[b] \in S

\* A block and its ancestors: the smallest set that holds it and the parents of its blocks.
Chain == [b \in Blocks |->
    {c \in Blocks : \A S \in SUBSET Blocks : b \in S /\ ParentClosed(S) => c \in S}]

BlockAt(n) == CHOOSE b \in Chain[head] : Height[b] = n
Pending(outbox) == {e \in Trades : outbox[e] = "pending"}

Reading == {"rewind", "pending", "head", "blocks", "commit"}
Handing == {"fence", "cancel", "ackRevert", "enqueue", "ackSignal"}

WTypeOK ==
    /\ head \in Blocks /\ parted \subseteq Trades
    /\ checkpoint \in Blocks \cup {NoBlock} /\ origin \in Blocks \cup {NoBlock}
    /\ known \in [Trades -> {"none", "active", "reorged"}]
    /\ signals \in [Trades -> {"none", "pending", "acked", "cancelled"}]
    /\ reverts \in [Trades -> {"none", "pending", "acked"}]
    /\ \A e \in Trades :
          /\ known[e] = "none" <=> signals[e] = "none"
          /\ known[e] = "reorged" => signals[e] # "pending" /\ reverts[e] # "none"
    /\ poll \in {"idle"} \cup Reading \cup Handing
    /\ target \in Blocks \cup {NoBlock} /\ last \in Blocks \cup {NoBlock}
    /\ batch \subseteq Trades /\ rolled \subseteq Trades /\ todo \subseteq Trades
    /\ poll \in Handing => todo # {}
    /\ poll \in Reading => todo = {}
    /\ poll = "idle" => target = NoBlock /\ last = NoBlock /\ batch \cup rolled \cup todo = {}
    /\ item \in todo \cup {NoBlock}
    /\ item # NoBlock <=> poll \in {"cancel", "ackRevert", "ackSignal"}

WInit ==
    /\ head = Genesis
    /\ checkpoint = NoBlock /\ origin = NoBlock /\ parted = {}
    /\ known = [e \in Trades |-> "none"]
    /\ signals = [e \in Trades |-> "none"]
    /\ reverts = [e \in Trades |-> "none"]
    /\ poll = "idle" /\ target = NoBlock /\ last = NoBlock
    /\ batch = {} /\ rolled = {} /\ todo = {} /\ item = NoBlock

\* The chain grows by a block, or a longer or equally long fork takes its place.
NewHead(b) ==
    /\ b \notin Chain[head]
    /\ Height[b] \in {Height[head], Height[head] + 1}
    /\ Cardinality(Chain[head] \ Chain[b]) <= MaxDepth
    /\ head' = b
    /\ UNCHANGED <<store, past, poller>>

-----------------------------------------------------------------------------
(* A poll.                                                                 *)

\* poll returns or raises: what it had in memory is gone.
EndPoll ==
    /\ poll' = "idle" /\ target' = NoBlock /\ last' = NoBlock
    /\ batch' = {} /\ rolled' = {} /\ todo' = {} /\ item' = NoBlock

FailPoll == poll # "idle" /\ EndPoll /\ UNCHANGED <<head, store, past>>

Continue(next) == poll' = next /\ UNCHANGED <<target, last, batch, rolled, todo, item>>

\* The batch goes to the bridge, which looks at its reverted ids first.
HandOver(events, reverted) ==
    IF events \cup reverted = {} THEN EndPoll
    ELSE /\ poll' = IF reverted # {} THEN "fence" ELSE "enqueue"
         /\ todo' = IF reverted # {} THEN reverted ELSE events
         /\ target' = NoBlock /\ last' = NoBlock /\ batch' = {} /\ rolled' = {}
         /\ UNCHANGED item

\* Nothing is scanned from before the first poll.
FirstPoll ==
    /\ poll = "idle" /\ checkpoint = NoBlock /\ head \in FirstHeads
    /\ checkpoint' = head /\ origin' = head
    /\ UNCHANGED <<head, known, signals, reverts, parted, poller>>

StartPoll ==
    /\ poll = "idle" /\ checkpoint # NoBlock
    /\ Continue(IF checkpoint = BlockAt(Height[checkpoint]) THEN "pending" ELSE "rewind")
    /\ UNCHANGED <<head, store, past>>

Above(n) == {e \in Trades : known[e] = "active" /\ Height[BlockOf[e]] > n}

\* Mutant of RollBack: the rollback withdraws the events and leaves no word for the bridge.
RollBack_Silent(gone) ==
    /\ known' = [e \in Trades |-> IF e \in gone THEN "reorged" ELSE known[e]]
    /\ signals' = [e \in Trades |-> IF e \in gone /\ signals[e] = "pending" THEN "cancelled" ELSE signals[e]]
    /\ reverts' = [e \in Trades |-> IF e \in gone /\ signals[e] = "pending" THEN "pending" ELSE reverts[e]]

\* A word that was acknowledged before is not given again (INSERT OR IGNORE).
RollBack(gone) ==
    /\ known' = [e \in Trades |-> IF e \in gone THEN "reorged" ELSE known[e]]
    /\ signals' = [e \in Trades |-> IF e \in gone /\ signals[e] = "pending" THEN "cancelled" ELSE signals[e]]
    /\ reverts' = [e \in Trades |-> IF e \in gone /\ reverts[e] = "none" THEN "pending" ELSE reverts[e]]

\* The swaps that only one of two chains has.
Apart(a, b) == {e \in Trades : (BlockOf[e] \in Chain[a]) # (BlockOf[e] \in Chain[b])}

\* rollback_after: one block back, to the hash that is canonical there.
Rewind ==
    LET to == Height[checkpoint] - 1 IN
    /\ poll = "rewind"
    /\ RollBack(Above(to))
    /\ checkpoint' = BlockAt(to)
    /\ parted' = {e \in parted \cup Apart(checkpoint, BlockAt(to)) : Height[BlockOf[e]] <= to}
    /\ rolled' = Above(to)
    /\ poll' = "pending"
    /\ UNCHANGED <<head, origin, target, last, batch, todo, item>>

\* What an earlier poll has left is delivered before anything is read.
RepeatDeliveries ==
    /\ poll = "pending"
    /\ IF Pending(signals) \cup Pending(reverts) = {} THEN Continue("head")
       ELSE HandOver(Pending(signals), Pending(reverts))
    /\ UNCHANGED <<head, store, past>>

\* events_after reads the head.  At the checkpoint's height there is nothing to commit; further
\* ahead than MaxGap it raises.
ReadHead ==
    LET gap == Height[head] - Height[checkpoint] IN
    /\ poll = "head"
    /\ \/ gap = 0 /\ HandOver({}, rolled)
       \/ /\ gap \in 1..MaxGap
          /\ poll' = "blocks" /\ target' = head /\ last' = checkpoint
          /\ UNCHANGED <<batch, rolled, todo, item>>
    /\ UNCHANGED <<head, store, past>>

\* A block that does not follow the one before raises.
ReadBlock ==
    LET b == BlockAt(Height[last] + 1) IN
    /\ poll = "blocks"
    /\ \/ Parent[b] # last /\ EndPoll
       \/ /\ Parent[b] = last
          /\ last' = b
          /\ batch' = batch \cup {e \in Trades : BlockOf[e] = b}
          /\ poll' = IF Height[b] = Height[target] THEN "commit" ELSE "blocks"
          /\ UNCHANGED <<target, rolled, todo, item>>
    /\ UNCHANGED <<head, store, past>>

Fresh == {e \in batch : known[e] # "active"}

\* commit_batch; the checkpoint is the head that was read before the blocks.
CommitBatch ==
    /\ poll = "commit"
    /\ known' = [e \in Trades |-> IF e \in Fresh THEN "active" ELSE known[e]]
    /\ signals' = [e \in Trades |-> IF e \in Fresh THEN "pending" ELSE signals[e]]
    /\ checkpoint' = target
    /\ parted' = parted \cup Apart(last, target)
    /\ HandOver(Fresh, rolled)
    /\ UNCHANGED <<head, reverts, origin>>

PollStep ==
    \/ FirstPoll \/ StartPoll \/ Rewind \/ RepeatDeliveries
    \/ ReadHead \/ ReadBlock \/ CommitBatch \/ FailPoll
=============================================================================
