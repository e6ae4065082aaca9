----------------------------- MODULE PoolPrice -----------------------------
(***************************************************************************)
(* The price of the native asset from one approved pool                    *)
(* (EvmV2PoolPriceCache of fomo/execution/pool_prices.py): the log of a    *)
(* Sync event is proven by reads of the chain, the price is kept, and a    *)
(* quote asks for it while it is fresh.  Threads bring logs, old ones and  *)
(* those of blocks that were reorganised away; the chain changes between   *)
(* the reads.  A block is its height and its version; every block has one  *)
(* Sync event.                                                             *)
(***************************************************************************)
EXTENDS Integers, Sequences, FiniteSets

CONSTANTS
    Feeds,              \* the threads that bring logs
    Reserves,           \* [versions -> the reserves of the pool in a block of that version]
    Depth,              \* confirmation_depth
    PublicationAge, FetchAge,   \* the age limits of require_fresh
    NoPrice,
    MaxHeight, MaxForks, MaxClockTime  \* bounds: the chain, its reorganisations, the time

VARIABLES
    chain,          \* the canonical blocks, [version, at], by height
    forks,          \* reorganisations so far: the version of new blocks
    announced,      \* the blocks that were reorganised away and whose removal is still to come
    instant,        \* the time
    feed,           \* [Feeds -> [at, block, published, since, sound]]: a log, and whether the reads bear it out
    latest,         \* _latest: [block, published, fetched] or NoPrice
    late            \* history: the blocks whose removal came between their proof and their storing

priceVars == <<chain, forks, announced, instant, feed, latest, late>>

Block(h) == <<h, chain[h].version>>
OnChain(b) == b[1] \in DOMAIN chain /\ Block(b[1]) = b
NoBlock == <<0, 0>>
Quiet == [at |-> "idle", block |-> NoBlock, published |-> 0, since |-> 0, sound |-> TRUE]

PriceInit ==
    /\ chain = <<>> /\ forks = 0 /\ announced = {} /\ instant = 0
    /\ feed = [f \in Feeds |-> Quiet]
    /\ latest = NoPrice /\ late = {}

-----------------------------------------------------------------------------
(* The chain.                                                                *)

Mine ==
    /\ Len(chain) < MaxHeight
    /\ chain' = Append(chain, [version |-> forks, at |-> instant])
    /\ UNCHANGED <<forks, announced, instant, feed, latest, late>>

\* the blocks from height h on are replaced, by none at first
Fork(h) ==
    /\ forks < MaxForks
    /\ forks' = forks + 1
    /\ announced' = announced \cup {Block(i) : i \in h..Len(chain)}
    /\ chain' = SubSeq(chain, 1, h - 1)
    /\ UNCHANGED <<instant, feed, latest, late>>

Later ==
    /\ instant < MaxClockTime /\ instant' = instant + 1
    /\ UNCHANGED <<chain, forks, announced, feed, latest, late>>

-----------------------------------------------------------------------------
(* A thread with a log: ingest_sync_log.  The node answers a read by height  *)
(* from the chain as it is then.                                             *)

At(f, step) == feed[f].at = step
Moves(f, r) == feed' = [feed EXCEPT ![f] = r]

\* the log of any block there is, or of one that was reorganised away
Arrive(f, b) ==
    /\ At(f, "idle")
    /\ Moves(f, [Quiet EXCEPT !.at = "block", !.block = b, !.since = instant])
    /\ UNCHANGED <<chain, forks, announced, instant, latest, late>>

ReadBlock(f) ==
    /\ At(f, "block")
    /\ LET h == feed[f].block[1]
       IN  Moves(f, [feed[f] EXCEPT !.at = "state", !.sound = OnChain(feed[f].block),
                                    !.published = IF h \in DOMAIN chain THEN chain[h].at ELSE 0])
    /\ UNCHANGED <<chain, forks, announced, instant, latest, late>>

\* the head; the logs of the block, which the node has of any block it saw; the tokens,
\* the factory's pair and the reserves at the height
ReadState(f) ==
    /\ At(f, "state")
    /\ LET h == feed[f].block[1]
       IN  Moves(f, [feed[f] EXCEPT !.at = "check", !.sound = /\ @
                                                              /\ h \in DOMAIN chain
                                                              /\ Reserves[chain[h].version] = Reserves[feed[f].block[2]]
                                                              /\ Len(chain) - h >= Depth])
    /\ UNCHANGED <<chain, forks, announced, instant, latest, late>>

Recent(now, published, fetched) ==
    /\ now - published \in 0..PublicationAge
    /\ now - fetched \in 0..FetchAge

\* a mutant: the second read of the block is not compared
ProvenByFirst(f) == feed[f].sound /\ Recent(feed[f].since, feed[f].published, feed[f].since)

\* the block is read once more; the age is judged as of the log's arrival
Proven(f) ==
    /\ feed[f].sound /\ OnChain(feed[f].block)
    /\ Recent(feed[f].since, feed[f].published, feed[f].since)

ReadCheck(f) ==
    /\ At(f, "check")
    /\ Moves(f, IF Proven(f) THEN [feed[f] EXCEPT !.at = "store"] ELSE Quiet)
    /\ UNCHANGED <<chain, forks, announced, instant, latest, late>>

\* under the lock: the price of a lower block does not replace that of a higher one
Store(f) ==
    /\ At(f, "store")
    /\ latest' = IF latest = NoPrice \/ feed[f].block[1] >= latest.block[1]
                 THEN [block |-> feed[f].block, published |-> feed[f].published, fetched |-> feed[f].since]
                 ELSE latest
    /\ Moves(f, Quiet)
    /\ UNCHANGED <<chain, forks, announced, instant, late>>

\* a call fails
ReadFails(f) ==
    /\ feed[f].at \in {"block", "state", "check"}
    /\ Moves(f, Quiet)
    /\ UNCHANGED <<chain, forks, announced, instant, latest, late>>

\* the log comes once more, marked as removed
Removed(b) ==
    /\ b \in announced
    /\ announced' = announced \ {b}
    /\ latest' = IF latest # NoPrice /\ latest.block = b THEN NoPrice ELSE latest
    /\ late' = IF \E f \in Feeds : At(f, "store") /\ feed[f].block = b THEN late \cup {b} ELSE late
    /\ UNCHANGED <<chain, forks, instant, feed>>

\* latest and require_fresh: what a quote may be sized by
Answer == IF latest # NoPrice /\ Recent(instant, latest.published, latest.fetched) THEN latest.block ELSE NoPrice

Blocks == (1..MaxHeight) \X (0..MaxForks)

PriceNext ==
    \/ Mine \/ Later \/ \E h \in DOMAIN chain : Fork(h)
    \/ \E b \in announced : Removed(b)
    \/ \E f \in Feeds :
         \/ \E b \in Blocks : (OnChain(b) \/ b[2] < forks) /\ Arrive(f, b)
         \/ ReadBlock(f) \/ ReadState(f) \/ ReadCheck(f) \/ Store(f) \/ ReadFails(f)

-----------------------------------------------------------------------------
(* Properties.                                                               *)

\* The price that is given out is that of a canonical block, as long as no removal is under
\* way: whatever logs came twice, late or out of order, and whatever the chain did between
\* the reads; only a block whose removal overtook its storing may stay (ingest_sync_log
\* and latest).
AnswerIsCanonical ==
    Answer # NoPrice => OnChain(Answer) \/ Answer \in announced \/ Answer \in late
=============================================================================
