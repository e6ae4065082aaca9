# fomo-watcher in TLA+

This directory holds TLA+ modules for the parts of fomo-watcher whose correctness
depends on the order in which things happen: durable queues that are retried after
failures and crashes, worker threads beside a main loop, two databases that do not
commit together, an execution path that must never send a transaction twice, a ledger that
two threads write, files that are rotated under their readers, and configuration that is
edited while it is read. TLC checks the modules on small instances; TLAPS proves the central
safety properties for every value of the constants.

- [1 The system](#1-the-system): inventory of the components
- [2 The modules](#2-the-modules): state and actions against the code
- [3 The runs](#3-the-runs): what is checked, bounds, fairness
- [4 The proofs](#4-the-proofs)
- [5 Where code and documents disagree](#5-where-code-and-documents-disagree)
- [6 What is not modelled](#6-what-is-not-modelled)
- [7 Plan](#7-plan)

To check a module, `tlc -config FastPath.cfg MCFastPath`; to check its proofs,
`tlapm FastPathProofs.tla`. `PROJECT.json` lists the runs, the source lines every
definition stands for, the mutants that show that a property can fail, the hazards
and the theorems.

## 1 The system

fomo-watcher follows the trades of selected traders ("KOLs"), copies them on paper,
analyses and announces them. It learns of a trade in three ways: it polls the Fomo
REST feed, it reads a file to which a Node sidecar appends what the site's realtime
channel says, and it watches wallets on EVM chains and Solana over RPC. A second half,
an execution engine that would copy trades with real money, is complete but hard-locked.

```
 REST feed ---\                                  +-> notification_outbox -> NotificationWorker -> platforms
               >-> event_inbox -> main loop -----+
 sidecar file -/        |        (fast path)     +-> post_trade_outbox --> PostTradeWorker -> profiles,
                        v                                                    verdicts, journal, audit file
                  paper ledger <- market monitor (marks, exit rules)

 wallet RPC -> checkpoint + outbox -> bridge -> signal_queue -> ExecutionService -> coordinator
                                                    ^                                  |
 sidecar (signal-queue.js) -------------------------+         journal <- broadcast <---+
                                                                 ^
                                                       receipt recovery <- chain
```

Two SQLite files matter to the first half: the *state database* (`monitoring.py`,
`app.py: class State`: inbox, outboxes, marks, key-value) and the *portfolio database*
(`portfolio/ledger.py`). Every method commits by itself; nothing spans both.

### Components

**Signal fast path** (`app.py`: `feed_events`, `process_pending_events`,
`process_fast_event`, `paper_copy_trade`, `sidecar_events`, `run`).
*State*: `event_inbox` (status pending/retry/done/dead, attempts, next attempt), the
`sent` marks, the cursor of the sidecar file, the first-start flag.
*Operations*: enqueue (INSERT OR IGNORE), claim the oldest due rows, decide, apply to the
ledger, mark, notify, hand off, complete, fail with backoff.
*Hard*: six commits in two databases for each signal, each of which may be the last before
a crash; retried rows; `--once` and daemon order the same steps differently.
*Correct when*: a signal moves the book at most once; a completed row left nothing
undone; a retry never executes what a first attempt would refuse; arrivals keep their
order; every stored signal settles.

**Paper ledger** (`portfolio/ledger.py`, `exit_policy.py`, `monitoring.py`).
*State*: events, fills, positions with average cost and stage, daily sums, marks, limits,
the actual wallet's receipts, holdings and allocation lots.
*Operations*: `apply_event`, `evaluate_exit_rules`, `update_market_marks`,
`pretrade_guard`, `apply_chain_receipt`, `reverse_chain_receipt`.
*Hard*: the monitor thread sells while the main thread decides; limits over midnight;
an exit of a position that is closed and opened again; a receipt reversed after later ones.
*Correct when*: the ledger is a book (an id is entered once, money moves by entries only), its
tables agree, the limits hold for what is held, no exit is lost, the wallet holds what the
receipts that stand add up to.

**Post-trade worker** (`app.py`: `PostTradeWorker`, `process_post_trade_event`).
*State*: `post_trade_outbox`, `post_trade_steps`, `risk_decisions`; effects in the
wallet-intelligence database, the execution journal's `execution_intents` and
`risk-decisions.ndjson`.
*Operations*: drain, four steps (profile, risk, journal, risk audit), each an effect and
its mark, complete, retry, give up.
*Hard*: effect and mark are in different stores; the verdict depends on an exposure and
a policy that change between attempts; the thread can end while the process goes on.
*Correct when*: one verdict everywhere, completed means analysed, hand-offs settle.

**Notification outbox** (`app.py`: `NotificationWorker`).
*State*: one row per event and channel. *Operations*: enqueue, drain, suppress, send, commit.
*Hard*: the send precedes the commit and its answer can be lost; the configuration changes
over a restart. *Correct when*: sent means delivered, settled rows stay silent,
repetitions are bounded by attempts and interruptions, a row settles.

**Execution journal and nonce leases** (`execution/journal.py`, `chain_managers.py`).
*State*: jobs, hashes, reservations, capital account, nonce leases, attempts, reorg
fences, circuit breaker. *Operations*: one transaction for each method.
*Hard*: concurrent callers, stale pending counts, released nonces, capital of a
transaction whose fate is unknown. *Correct when*: money is neither lost nor given back
twice, no nonce is held twice, what may be on its way stays held, evidence is permanent.

**Coordinator, service, broadcaster, recovery** (`execution/coordinator.py`,
`service.py`, `rpc_adapters.py`, `recovery.py`).
*State*: none of their own between two calls; everything durable is in the journal.
*Hard*: crash, raise or lost answer at every step; two services after an expired lease;
reorgs of the source and of the wallet's own chain; receipts that are stale when applied.
*Correct when*: nothing is sent twice, money follows the transaction, a job ends as the
finalized chain says, a signal reverted in time is never sent.

**Signal queue** (`execution/signal_queue.py`, `execution/service.py`,
`sidecar/signal-queue.mjs`). *State*: rows with claim owner and expiry, one service
lease. *Operations*: enqueue, acquire the service, claim, finish, cancel. *Hard*: leases
that end during work, owners that die, a late finish, a cancellation beside a claim.
*Correct when*: one executor for a signal, a decision is final, no claim strands its signal.

**Wallet watching** (`watching/wallet.py`, `checkpoints.py`, `queue_bridge.py`,
`evm_rpc.py`, `solana_rpc.py`). *State*: a checkpoint (block, hash) for each chain,
events, delivery outbox. *Hard*: reorgs deeper than the rewind, an event that comes back,
a crash between delivery and acknowledgement. *Correct when*: no swap is missed, what went
out from an abandoned block is fenced, reverts go before new signals.

**RPC transport** (`watching/rpc_transport.py`). *State*: one object for each chain, shared
by threads: the probes of its endpoints, the highest head, the last pending nonce, the endpoint
that answered last; a pinned view for each thread. *Hard*: the chain, other threads and the
network move between two requests of one call. *Correct when*: a nonce never falls, a view
has one endpoint, the loss of an endpoint is survived.

**RPC health** (`execution/rpc_pool.py`, `networks.py`, `web/rpc_management.py`). *State*: a
window of samples, switches in memory and on disk. *Hard*: windows that are cut, rates of few
samples, restarts. *Correct when*: a failure is remembered as long as it counts.

**Risk engine and pipeline** (`risk/engine.py`, `risk/pipeline.py`). *State*: an engine made of two
files, their modification times, the signals already seen. *Hard*: an operator saves a file between
two steps of a reload; a verdict the database refuses is computed again by an engine that
remembers it. *Correct when*: no edit is lost, verdicts are explained, a wallet vouches for its
own trader only, and less evidence never approves more.

**Strategies and routes** (`signals/strategy.py`, `signals/envelope.py`,
`execution/fast_path.py`, `execution/routing.py`): judgements without state.
*Correct when*: stricter settings copy less, a refused quote counts for nothing.
**Pool prices** (`execution/pool_prices.py`): a price proven by several reads of a chain that may be
reorganised between them. *Correct when*: what is given out is canonical.

**Audit trail** (`audit.py`, `sidecar/fast-shadow.mjs`, `web/audit_index.py`). *State*: a bounded
queue in memory, the file, its archives and its rotation marker, the console's index.
*Hard*: a rotation is several file operations, each of which may be the last; the clock may be set
back; readers resume at byte offsets. *Correct when*: what was appended is kept for
its days and found by the index. **Sidecar feed** (`sidecar_events` in `app.py`): cursors
for each generation of the sidecar's file. *Correct when*: no event is skipped.

**Performance, profiles, leaderboards** (`intelligence/`). *State*: verified fills, market marks and the
profiles materialised from them; the events of the feed and a cache of behaviour profiles; hourly
snapshots of the ranking and the files made from them. *Hard*: late rows, caches filled by several
threads, two workers that capture one slot. *Correct when*: profiles do not depend on the order of
arrival, the cache is what the events say, the files follow the store.

**Web console** (`web/`): pages that read; the wallet settings (two files and a trail), the
switches of chains, the change bus that tells WebSocket clients what changed. *Correct when*: no
sequence of requests leaves settings that the watcher or the risk engine refuses, and a client
misses nothing while it keeps up.

**Feed, position and thesis polling** (`feed_events`, `position_events`, `run`): baselines and
last-seen sets. **Transaction building and AMM arithmetic** (`direct_v2/3/4.py`,
`v3_math.py`, ...): 256-bit arithmetic and encodings. **Wallet vault and key keeper**
(`wallet_vault.py`, `sidecar/src/privy-keeper.js`): secrets.

### How the parts interact

- The main thread and the workers share only the databases: a hand-off is an INSERT, the
  worker finds it on its next drain.
- The market monitor and the main thread share the ledger behind its lock: the
  monitor may sell between the main thread's decision and its commit.
- The sidecar and the watcher share a file; its committed offset moves when a row is done.
- Execution services share the journal; the only thing that keeps two of them from
  running at once is a lease of 30 s that an `execute` may outlive.
- systemd starts a process that has ended (`deploy/systemd`, `Restart=always`).

### Hazards

`PROJECT.json` lists forty, each with its line and the properties that cover it. A few more are
known and no run is about them; they are described in sections 5 and 6: the history before a
first start, a nonce lease that outlives its executor, one job that ends a poll of the recovery,
outboxes that are never pruned, and what the bounded audit queue loses in a crash.

## 2 The modules

| module | models | extends |
|---|---|---|
| `FastPath` | main thread from intake to completion, the ledger's decision whether an event is new | |
| `PostTrade` | analysis outbox, its worker, the in-line analysis of `--once` | |
| `NotificationOutbox` | notification outbox and its worker | |
| `ExecutionJournal` | every transaction of the journal, by any caller: the *abstract specification* | |
| `Execution` | executors, recovery and chain, step by step | `ExecutionJournal` |
| `SignalQueue` | the queue, its leases, the services that consume it | |
| `WalletStream` | an EVM chain, the poll block by block, the checkpoint store | |
| `Ingress` | the bridge, and both of the above with it | `WalletStream`, `SignalQueue` |
| `PaperBook` | what a book of trades promises: the *abstract specification* of the ledger | |
| `PaperLedger` | the paper portfolio under the dispatcher and the market monitor | `Totals`, instantiates `PaperBook` |
| `Totals` | sums of numbers over finite sets, counted by the unit instead of by recursion, so that they can be proved about | |
| `ActualWallet` | receipts of the real wallet, applied and reversed | `Totals` |
| `RpcTransport` | one transport, its endpoints, the threads that share it, request by request | |
| `RpcHealth` | samples and status of the endpoints, the switches of the console | |
| `RiskEngine` | registry, signal and checks of one evaluation, as operators | |
| `RiskPipeline` | the worker that evaluates with an engine it reloads from two files | `RiskEngine` |
| `CopyStrategy`, `RouteChoice` | intents and sizing, the local gate, the choice of a route, as operators | |
| `PoolPrice` | the price of one pool, proven while the chain moves | |
| `WalletSettings` | the two files of wallet settings and their trail | `RiskEngine` |
| `NdjsonLog` | the rotated log file and its two writers | |
| `AuditIndex`, `SidecarFeed` | the readers of such a file: the console's index, the watcher | `NdjsonLog` |
| `Performance`, `BehaviorProfiles`, `Leaderboard` | the stores of profiles and of the ranking | `Totals` (the first) |
| `ChangeBus` | the dashboard's change bus and its clients | |
| `MCDecisions` | what is decided from files, samples and facts: six modules on one set of inputs | `RiskPipeline`, `CopyStrategy`, `RouteChoice`, `RpcHealth`, `WalletSettings`, `PoolPrice` |
| `MCRecords` | what is kept and who reads it: seven modules side by side | `AuditIndex`, `SidecarFeed`, `Performance`, `BehaviorProfiles`, `Leaderboard`, `ActualWallet`, `ChangeBus` |
| `MC*` | instances for TLC | the module |
| `*Proofs` | theorems: `WorkerProofs` about `PostTrade` and `RpcTransport`, `ExecutionProofs` also about `ExecutionJournal`, `IngressProofs` also about `SignalQueue`, `DecisionsProofs` and `RecordsProofs` about the modules of `MCDecisions` and `MCRecords` | those modules, `TLAPS` |

`FastPath`, `PostTrade` and `NotificationOutbox` meet in two tables: `noted` and `posted`
of the first are the rows that the action `Enqueue` of the third and `HandOff` of the
second create. `Execution` composes with `ExecutionJournal` by extension: each of its actions
conjoins one operator of the journal, or leaves the journal alone, with the executor's own
step, and `JSpec` is a property of it. `Ingress` composes in the same way: a step of the
bridge conjoins an operator of the queue or of the fences with one of the outbox. The
executor that `SignalQueue` reduces to two commits is the one of `Execution`. `PaperLedger`
implements `PaperBook` under the refinement mapping of its `INSTANCE`: the entries are the
fills, invested and profit are two columns of the positions.

`MCDecisions` and `MCRecords` hold components that do not interact: the variable `question`,
or `family`, is chosen in the initial state and says whose actions the behaviour consists
of, the variables of the others keep their initial values. The properties are the modules' own, and so
are the specifications the theorems are about (`PipelineSpec`, `PriceSpec`, `HealthSpec`, `SettingsSpec`;
`BusSpec`, `BehaviorSpec`, `BoardSpec`, `AuditSpec`, `FeedSpec`): each has the actions that the family has.

All of them treat a database transaction as one step and everything between two
transactions, a failure or the death of the process included, as something another
actor may interleave with. Ids, tokens, prices and texts are model values; time is kept
only as far as the code compares it with something.

### FastPath

| in the model | in the code |
|---|---|
| `inbox`, `attempts`, `waiting`, `arrival` | `event_inbox`: `status`, `attempts`, `next_attempt_at > now`, rank by `created_at` |
| `baselined`, `initialized` | ids given to `mark_sent` by the first poll, `kv account_feed_initialized` |
| `marks` | ids with a row `paper:<id>` in `sent` |
| `noted`, `posted` | ids with rows in the two outboxes |
| `ledger`, `fills`, `open` | `portfolio_events.status`, rows of `portfolio_fills`, positions with quantity |
| `age` | "fresh" up to the copy gate (5 s), "recent" up to the notification's limit (300 s), "old" |
| `pc`, `cur`, `decision`, `batch`, `window`, `completed`, `once` | locals of `run`, `process_pending_events`, `process_fast_event` |
| `ReadSidecarLine`, `FetchFeed`, `FeedItem`, `FeedDone` | intake at the top of the loop, with the first-start baseline |
| `StartBatch`, `TakeRow`, `EndBatch` | `due_events` and the loop of `process_pending_events` |
| `Decide` | `paper_copy_trade`; exposure and strategy may reject any buy, the age gate and a missing token must |
| `Apply` | `PortfolioLedger.apply_event` in its transaction |
| `MarkDecision`, `Notify`, `HandOff`, `Complete`, `AdvanceOffset` | the commits that follow |
| `TakeCompleted`, `Analyse`, `EndPost` | the second phase of `--once` |
| `FailRow` | the `except` branch at any of these steps: `fail_event` with backoff, dead at `max_retries` |
| `MonitorExit` | an exit rule sells the position on the monitor's thread |
| `Crash`, `Boot` | the process dies; systemd or the user starts it, in any of `StartModes` |

### PostTrade

`status`, `attempts`, `waiting`, `arrival` are `post_trade_outbox`; `marked` is
`post_trade_steps`, `verdict` the stored decision, `profiled`, `journal`, `audit` and
`audited` the three other stores. The thread's place is a step and a phase: in phase
"effect" the step's effect is still to happen, in phase "mark" its commit is. `Evaluate`
chooses *any* verdict for a trade: exposure and policy may have changed since the last
attempt. `MarkStep` stores the verdict in the same transaction for the risk step only.
`FailRow` is the `except` branch, `ThreadDies` an exception outside the `try` block
(reading the row, the failure's own commit). `TakeInline` is a `--once` process.

### NotificationOutbox

A row is a pair of event and channel. `delivered` counts the copies the platform has,
which the code cannot see. `Send`, `SendFails` and `AnswerLost` are the three outcomes of a
request; `CommitSent` and `CommitFailed` the transactions that follow. `Restart` chooses the
enabled channels anew: the configuration is read at start-up, so nothing else
changes it. `Enqueue` uses the channels that are enabled when it runs, and adds rows for new
channels to an event that has some already.

### ExecutionJournal

One operator for each transaction; its guard is the conjunction of the conditions under
which the method does not raise. A call that raises or finds its work done changes
nothing and is no step. `JNext` lets *any caller* apply any transaction to any intent
at any time, with any pending count for the nonce manager: what is true of `JSpec` does
not lean on the coordinator's discipline. `transition_job` is restricted to the targets
that the code asks for (`Preparation`); the table itself is complete. Operator actions
(a capital snapshot, closing the breaker) are steps too.

### Execution

Each executor has a program counter that names its next step: reserve, quote, read the
pending count, lease, simulate, build, sign, bind, claim, attempt, send, persist. `Raise`
takes any step before the claim to `CleanUp`, the exception handler that calls
`fail_unsubmitted_job` and passes over its refusal; after the claim an exception ends the
call. `Deliver` hands any signal to any idle executor at any time, repeatedly:
that over-approximates the queue, whose claims and service lease expire during work.
`Send` is where the node takes the bytes or not and the answer comes or not; `NoAnswer`
ends the call because the transport never repeats a one-shot method. The chain has a pool,
blocks, finality and reorgs; it mines in nonce order. The recovery reads a receipt (`Look`)
and applies it later (`Reconcile`): what it read may be stale by then.

In the shipped code live trading is locked three times: the schema has
`CHECK(live_armed=0)`, the assembly adds a blocker, and no production code constructs the
recovery or the queue bridge. With `LiveArmed = FALSE` no executor ever leaves "idle",
and every property holds of an engine that does nothing; the runs therefore set it to
TRUE and check the design behind the lock, which the unit tests exercise in the same way by
rewriting the schema. The proofs hold for both values.

### SignalQueue

| in the model | in the code |
|---|---|
| `rows`, `status` | `signal_queue`: rows by `sequence`, `status` ("absent": no row) |
| `claimant`, `lock` | the owner whose `lease_until_ms` is in the future: of a row, of the service lock; `Nobody` when there is none or it has ended, `Gone` when its owner is dead |
| `fenced`, `breaker`, `recorded`, `attempted` | what the queue's decisions need of the journal: reorg fences, the circuit breaker, jobs, broadcast attempts |
| `step`, `cur`, `verdict` | locals of `process_one` |
| `Enqueue`, `CancelReorged`, `AcquireService`, `Claim`, `Finish` | the transactions of `DurableSignalQueue`; the Node ingress has the same INSERT |
| `Check` | normalisation, age, strategy and the fence: any signal may be dropped, a fenced one must be |
| `ReadControl`, `Reserve`, `Submit` | the control row, the reservation, the broadcast attempt: three moments between which the world moves |
| `Raise`, `Die` | an exception ends `run_forever`, hence the process; the next has a new owner id |
| `LockExpires`, `ClaimExpires` | the clock passes `lease_until_ms` |

Clocks are not modelled: a lease may end at any moment, with the one order the code
guarantees (a claim is taken after the lock and for as long, so that it never ends first).
The model lets a redelivered signal be executed. With the default ages it is dropped as late,
since 30 s of lease exceed 5 s of age, so that the model allows more than the code.

### WalletStream and Ingress

`Parent` and `Height` give a tree of blocks, `head` the chain's tip; `NewHead` is growth or
a reorg by at most `MaxDepth` blocks, and what was abandoned may come back. A poll is a sequence of single reads: the hash at the
checkpoint (`StartPoll`), the hash at the rewind (`Rewind`), the head (`ReadHead`), each block
(`ReadBlock`), and the commit (`CommitBatch`); the chain may move between any two of
them. `known`, `signals`, `reverts` are the columns of `wallet_source_events` and of the outbox;
`parted` is history: the swaps that only one of two chains has where the code passes from one to the
other, at a rewind (`Rewind`) and at the commit of a head that is not the last block read
(`CommitBatch`); what a later rewind takes back is no longer parted.
`rolled` is the local `reverted`, which the bridge gets when no revert is pending and whose
acknowledgement then fails (`AckRevert`). `FailPoll` is an endpoint that fails, lags or
contradicts itself, or the end of the process. The bridge commits to three databases, one
after the other: `Fence` (journal), `Cancel` (queue), `AckRevert` (outbox);
`EnqueueEvent` (queue), `AckSignal` (outbox). It is modelled with a journal given, as
`tests/test_wallet_queue_bridge.py` uses it; no script constructs the bridge yet.

### PaperLedger, PaperBook

| in the model | in the code |
|---|---|
| `seen`, `fills`, `pos`, `daily` | `portfolio_events`, `portfolio_fills`, `portfolio_positions` with their marks, `portfolio_daily` |
| `desk` | the dispatcher between `paper_copy_trade` and `apply_event` |
| `monitor` | the market thread: idle, prices fetched, marks stored |
| `policy` | `exit-policy.json`, read in every round |
| `Decide`, `ApplyEvent` | the decision with `pretrade_guard`, and the booking, in a transaction of its own |
| `Fetch`, `ApplyMarks`, `Evaluate` | `open_position_tokens` and the request, `update_market_marks`, `evaluate_exit_rules` over all positions in one transaction |
| `SavePolicy`, `Tick`, `Restart` | the console, the clock, the end of the process between two transactions |

Money, prices and quantities are integers, the cost of a part is rounded half up as in the code.
The clock shows odd instants and leaders trade at even ones, so that an exit never has the
time of a trade by accident of a clock of few ticks. An exit's id is its rule and
the generation of its position, which the code takes from the time of the last trade.
`PaperBook` says what holds whatever decides about trades: entries are only added, an id is
entered once, a position's cost and profit move by its entries.

### ActualWallet

`ApplyChainReceipt` remembers what was there before (`pre_state_json`), changes the holding, and
opens a lot or takes from the strategy's lots, oldest first. The code takes from them in a loop; `TakenFrom` says what
that loop takes from one lot: what the earlier ones (`Earlier`) leave of the sale, as far as the lot
goes. `ReverseChainReceipt` puts back what was remembered. That is right newest first only; `disordered` remembers the tokens for which it
was called in another order, of which the property then says nothing (section 5).

### RpcTransport

A call is a program counter over requests: probe (or a cached probe), the comparison with the
endpoint that answered last, the request. Fields of the object (`health`, `highest`, `nonce`, `last`) are
shared and unlocked, the view is thread-local, and between two requests any thread may go on and
`Drift` may move a head, a mempool or an endpoint. `Watch` is history: the endpoints that could
have answered during all of a call.

### RiskEngine, RiskPipeline

`RiskEngine` has the registry, the signal and the twelve checks as operators over
records; `Checks` is `evaluate`. `RiskPipeline` has one file operation per step. A start reads both
files and stats them afterwards, a reload stats both and reads them afterwards: `raced` marks an
engine of a start for which that made a difference. `Judge` picks the wallet (`Candidates`,
`Unidentified`), builds the signal and evaluates it, `Save` keeps the verdict, `Refuse` is a
database that does not.

### CopyStrategy, RouteChoice

Operators only: `FomoIntent`, `WalletIntent`, `Gate`; `Problems`, `Select`, `LiveBlockers`. An address or a
token is a pair of its letters and its spelling, since EVM compares the first and Solana both. NaN
is a value that no comparison accepts.

### RpcHealth, WalletSettings, PoolPrice

`RpcHealth`: `ProbeCycle` stores a sample for each endpoint that is configured and whose chain is on,
and prunes; `Status` and `Selected` are what the console and the routes read; `SaveEndpoint`,
`SetChain` and `Restart` are the switches in memory, in `.env` and in `network-settings.json`.
`WalletSettings`: a request is one change of a file, then one line of the trail for each step of
`WriteTrail`, all under one lock; `Interrupted` ends it in between. `UpsertKol` looks its id up as it came and stores
it without blanks, as `_upsert_kol` and `_normalize_kol` do: with blanks around it, it appends a second entry. `PoolPrice`: `Arrive`, then
`ReadBlock`, `ReadState`, `ReadCheck` (three reads of the chain), `Store`; `Fork` replaces blocks,
`Removed` brings the removal of a log, which may overtake its storing.

### NdjsonLog, AuditIndex, SidecarFeed

A line is written in one piece; a byte offset is the number of lines before it. A rotation is
`Archive`, `Truncate`, `Mark`, `MarkLegacy`, then the append: any of them may fail or be the last. The
parameter of `LogNext` selects the writer: the thread of `audit.py`, which reads its markers for each
record, or the queue of the Node sidecar, which keeps them in memory. `AuditIndex` adds a
sync of four steps beside the first, `SidecarFeed` a poll beside the second: each commit of `sidecar_events` is a step (`PollMarker`, `PollResume`,
`PollLast`, `PollFresh`), and so are the transaction of a line (`PollLine`), that of a completed event
(`Complete`) and the committed offset after either (`Advance`); the watcher may end between any two
(`PollStops`). There are the cursors of every generation and of a former host, and the records whose completion
moves the committed offset.

### Performance, BehaviorProfiles, Leaderboard

`Performance`: `IngestFills` (a batch in one transaction, with the profiles of its traders),
`IngestMarketHistory`, `IngestSocial`, `RebuildAll`, and the opening of an older database in steps
(`Upgrade`, `ReadMissing`, `MaterializeMissing`). The rows of one wallet and token are taken by time and
then by rowid (`InOrder`: the n-th is the one with n - 1 before it) and booked one after the other
(`Books`): a lot for each row, of which a sale takes what the older lots leave of it (`Consumed`, in
place of the code's queue). The property compares the book with a definition unit by unit (`Matched`): each unit sold
at its price, less the price of the unit bought in its turn. `BehaviorProfiles`: `AskRevision`, `AskCache`, `Compute`, `StoreCache` are four moments
of a snapshot, for each console. `Leaderboard`: a capture is
`Fetch`, `ReadSlot`, `Commit`, `WriteHourly`, `Finalize`, `WriteDaily`, by two workers; an attempt may fail
instead and records that. `twoSlots` is history: while a capture was under way for one slot something was
recorded for another. From then on the ids are not in the order of the hours and a day may never be
finalized, so that the property says nothing more.

### ChangeBus

`RoundBegins`, `Look` (one source), `Publish` are the watcher's round; `Connect`, `BeginWaiting`,
`Wake`, `Send` the loop of a client. A source's signature is a counter.

## 3 The runs

| run | instance | question |
|---|---|---|
| `FastPath` | a REST buy and a sidecar sell of one position, 1 crash, daemon or `--once`, passes of 2 rows | Do the databases tell one story of each signal, is it decided, in order? |
| `FastPathLive` | a buy and a thesis from the sidecar that compete for passes of 1 row, 1 crash, daemon | Does every signal settle, is no stale buy executed? |
| `PostTrade` | a trade and a thesis, two verdicts, 1 crash, 1 in-line analysis | One verdict, complete analysis, repetitions explained, every hand-off settles? |
| `NotificationOutbox` | one event, two platforms and the console, 3 attempts, 1 crash | Do rows and deliveries agree, does every row settle? |
| `Execution` | two executors, two intents, a balance for one or both, 1 crash, 1 chain reorg | Sent once, money with its transaction, ends as finalized, implements the journal? |
| `SignalQueue` | two services, two signals, 1 mishap | One executor, no stranded claim? |
| `Ingress` | two forks of two blocks, two swaps in one block, one service, reorgs of two blocks, forks that return | Nothing missed, abandoned is fenced, delivery safe? |
| `PaperLedger` | two leaders in one token, three buys and a sell, two prices, a day boundary, two policies | Is it a book, do its tables agree, do the limits hold, is no exit lost? |
| `PaperExit` | the same, but two buys of one leader have one time | Is an exit of the second cycle taken? (it is not: section 5) |
| `RpcTransport` | two endpoints of a chain that forks, one of another, two threads, one change outside | Does a nonce fall, a view change its endpoint, a loss go unsurvived? |
| `Decisions` | six modules, one input or one small instance for each | Are edits, failures and identities kept, settings usable, prices canonical, judgements cautious? |
| `Records` | seven modules, one small instance for each | Is what was written kept and found, do derived stores follow their sources? |

Several invariants are conjunctions of parts that are defined and commented one by one, and that
the proofs treat one by one: `DatabasesAgree` (`AtMostOneFill`, `MarkFollowsLedger`, `DoneIsComplete`),
`AnalysisIsWhole` (`OneVerdict`, `DoneIsAnalysed`), `DeliveriesExplained` (`SentWasDelivered`,
`DuplicatesExplained`), `OneTransactionEach` (`SentOnce`, `SentNoncesDistinct`), `StreamFollowsChain`
(`AbandonedIsFenced`, `NothingMissed`), `DeliveryIsSafe` (`AckedIsQueued`, `NoDeliveryWhileReverting`,
`RevertedNotAttempted`), `TablesAgree` (with `PrincipalExact`), `DecisionsAreCautious`
(`WorseNeverApproves`, `StricterNeverBuys`, `RejectedNeverCounts`), `ProfilesAreRight`, `LogIsIndexed`.
`PROJECT.json` names for every property of every run a plausible bug of the code that breaks it.
The type invariants are theorems (section 4) where a module has proofs; no run repeats them.

### Bounds

Every bound is a constant. `MaxCrashes` = 1 suffices for what a crash can disturb here:
all recovery is a restart from the databases, so a second crash starts from a state that a
first one could have left; the proofs remove the bound for the safety properties.
`MaxRetries` = 2 (3 for notifications) gives a first failure that is retried and a last one
that is not. `BatchLimit` = 1 makes two rows compete for a pass; the 2 of `FastPath` lets one pass, and
the second phase of `--once`, hold both. Two events are enough
for what relates two: order, one position, starvation. Two intents and two executors are
enough for every pair property, and give the case of both executors at one intent.
`MaxReorgs` = 1 gives a receipt that is read before a reorg and applied after it.
`0..Cardinality(Intents)` covers all the pending counts that differ from each other to
`NextNonce` on this many leases. `MaxInline` bounds how many rows `--once` processes take.
`MaxMishaps` counts what is free to happen to a service: its death, and a lease that ends
under it while it lives; exceptions that the code raises itself end a service as well and are
not counted, so that with 1 a slow owner may still have successors that end. In `Ingress` it is 0: the
poller fails at every step, and what happens to services is `SignalQueue`'s question.

The tree of `Ingress` has the blocks that make a difference: two forks of the same height that
take turns as often as they like, by one block (`MaxDepth` = 2 allows it) or by two, deeper than the rewind goes. `MaxGap` = 2
lets a poll read two blocks; the first checkpoint is the first block or the one with the swaps (`FirstHeads`). The two
swaps are interchangeable (symmetry): the properties of the run are safety and
quantify over both.

`PaperLedger`: one leader that buys twice and sells and another that buys once, in any order, again
after a restart, are what it takes to close a position and open it again while a limit is shared;
`MaxTime` and `DayLength` put the booking of an order of the first day into the second; prices 2 and 4
reach the stop loss, the multiple and the trailing stop from one another. `RpcTransport`: one change
of the outside (`MaxDrift`) may fall between any two requests; two heads above a common one are a
fork; `Lag` = 0 is the strictest setting. `Decisions`: two edits put one between the two halves of a
reload and one after it; four samples are kept and evaluated, so that failures leave the window by
count and by age, and of them three must have succeeded (`SuccessRate` = 75): one failure is borne
among four and not among three; four saves import, edit and delete one id, or bring one back with blanks around it; one fork and two threads
bring a log late, twice and after its removal. `Records`: two turns of the day and one stop put a
crash at any step of a rotation (for the sidecar's writer, two in all: `FewTurns`); one retention day; three lines, of which two have one event; seven
fills cover both sides, two lots, a tie, an unproven fill and two claimants, an invalid row;
two slots a day and four slots, the first of which is the last of its day (`FirstHour` = 1), so that they lie on
three days and two days end; one client at a time and three revisions overrun one.

Deadlock is checked where the system has something left to do in every state: `FastPath`,
`FastPathLive`, `PostTrade`, `NotificationOutbox`, `Execution`, `SignalQueue`, `Ingress` and
`RpcTransport`. `PaperLedger` and `PaperExit` stop when time has reached its bound and every order is
booked; in `Decisions` an input of an operator is a state that does not move; in
`Records` a family stops when its rows have all arrived.

### Fairness

- `FastPath`: weak fairness of the loop (it never waits for anything but a timeout), of the
  backoff's clock, and of `Boot`, which `Restart=always` of the systemd unit justifies. None
  of intake, the monitor, or growing old.
- `PostTrade`, `NotificationOutbox`: weak fairness of the thread's work and of the clock.
  Not of `Restart`: nothing restarts a *thread* that has ended while its process lives,
  so both liveness properties say "or the thread has stopped", and that is a weakness of the
  code, not of the model.
- `SignalQueue`: weak fairness of the services (a loop that waits for nothing but a lease;
  that somebody starts a service again is an assumption, as `deploy/systemd` has a unit for
  the watcher and the sidecar but none for this script yet) and of the clock. Mishaps are finitely many, and `FairQSpec` adds that
  reverts and the operator's resets do not trip and close the breaker for ever between two
  reads of one service. A row whose processing *always* raises (a whitelist file that stays
  stale) is outside of this: it comes back every 30 s, and the rows behind it wait.
- `Ingress`: none; its properties are safety.
- `ExecutionJournal`, `Execution`: `JSpec` and `XSpec` state none. Nothing in production
  polls the recovery or feeds the executors, so no liveness is claimed. `FairXSpec` belongs to the
  disagreement about leases in section 5: even if executors run, signals are redelivered and
  the recovery polls for ever, the lease stays.
- `PaperLedger`, `RpcTransport`, `Decisions`, `Records`: none; their properties are safety. A market
  thread, a console or an operator may simply never act.

### What the properties say

The comments above the definitions state them. The ones to read first:

- `DoneIsComplete` relates the inbox to both outboxes and the other database after any
  number of failed attempts; it fails as soon as a step is skipped on a retry.
- `NoUndecidedSell`: an undecided sell liquidates the whole position (the ledger's path for
  disabled copying), so a retry that skips the decision would be expensive.
- `StaleNeverBought` looks at two moments: once a buy is stale and out of the thread's hand
  it stays unexecuted for ever.
- `OneVerdict`: three stores and several attempts with different opinions.
- `EndsAsFinalized`, `MoneyStaysWithTransaction`, `SentOnce`: several actors and the chain.
- `AbandonedIsFenced`, `NothingMissed`: what a stream with one checkpoint knows of a chain that
  moves under its reads.
- `LimitsHold`, `SinkingIsSold`, `TablesAgree`: the ledger's two writers, over cycles of a position
  and over midnight.
- `LossSurvived` compares a refusal with the endpoints that could have answered all the while.
- `NoEditIsLost`, `AnswerIsCanonical`, `CacheIsCurrent`: what was checked may have changed by the
  time it is used.
- `RecordIsKept`, `IndexFollowsLog`, `NothingSkipped`: writers and readers of files whose offsets lose their
  meaning in a rotation.

Some properties have an exception in their formula: the history of a step after which the code does
not keep the promise. It narrows the hazard the property is about; the property says that there is
no other exception. Section 5 describes the disagreements at more length.

| exception | of | the step after which nothing is said |
|---|---|---|
| `parted` | `StreamFollowsChain` | a rewind of one block that comes down on another fork, or a batch whose last block is not the checkpoint: the swaps that only one of the two chains has |
| `raced` | `NoEditIsLost` | an edit between the read and the stat of `RiskPipeline.__init__` |
| `disordered` | `HoldingIsReceipts` | a receipt reversed before a later one: the later one is wiped with it |
| `padded` | `SettingsAreUsable` | a registry id sent with blanks around it: a second entry of that id |
| equal ids | `SettingsAreUsable` | an import that brought one id twice: one address twice |
| `unmarked` | `NothingSkipped`, `LogIsIndexed` | a rotation that ended between its truncation and its marker: the new file passes for the old one |
| `foreign` | `NothingSkipped` | a file begun at a cursor that is not its generation's own: the lines before that cursor |
| `overlapped` | `LogIsIndexed` | a rotation during a sync: a line without an event id may be shown twice |
| `Tied` | `ProfilesAreRight` | fills of one wallet and token in one second: the order of their arrival |
| `late` | `AnswerIsCanonical` | a removal between the last read and the storing of a block: that block |
| `overrun` | `ChangesAreTold` | a revision between a client's greeting and its first wait, or two while a message is sent: the sources of the (first) one |
| `incomplete` | `FilesFollowStore` | a worker that ends between the commit of a ranking and its files: the hourly file of that slot, which nothing writes later, and the other files until a later capture writes them |
| `twoSlots` | `FilesFollowStore` | two slots captured side by side: ids out of the order of the hours |
| thread stopped | `EveryHandOffSettles`, `EveryNotificationSettles` | a row that raises outside of the try block ends the thread, and nothing restarts it |
| booked after midnight | `LimitsHold` | an order of one day that is booked on the next |

## 4 The proofs

| module | of the specification | theorems |
|---|---|---|
| `FastPathProofs` | `Spec` of `FastPath` | `Typing`, `Inductive`, `NeverFilledTwice`, `MarkAfterLedger`, `NothingLeftUndone`, `AllDatabasesAgree`, `SellsAreDecided`, `StaleBuysAreNotMade`, `OldestFirst` |
| `WorkerProofs` | `Spec` of `PostTrade` | `Typing`, `Inductive`, `RecordsAgree`, `CompletedIsAnalysed`, `AnalysesAreWhole`, `StoredVerdictStays`, `RepeatsExplained` |
| | `RSpec` of `RpcTransport` | `TransportTypes`, `NoncesGrow`, `ViewsKeepEndpoint`, `LossIsSurvived` |
| `NotificationOutboxProofs` | `Spec` of `NotificationOutbox` | `Typing`, `Inductive`, `SentMeansDelivered`, `DuplicatesBounded`, `RowsAccountForDeliveries`, `SettledStaysSilent`, `SwitchedOffStaysSilent` |
| `ExecutionProofs` | `JSpec` of `ExecutionJournal` | `Typing`, `Inductive`, `NoncesNeverShared`, `CapitalStaysHeld`, `AttemptsFollowHashes`, `EvidenceIsKept` |
| | `XSpec` of `Execution` | `XTyping`, `ImplementsJournal`, `XInductive`, `NeverSentTwice`, `MoneyIsHeld`, `NoncesNeverCompete`, `TransactionsAreApart`, `EndsAreTrue`, `RevertedStaysUnsent` |
| `IngressProofs` | `QSpec` of `SignalQueue` | `QTyping`, `OneExecutor`, `DecisionsStand` |
| | `ISpec` of `Ingress` | `NothingLostInDelivery`, `RevertsGoFirst`, `RevertsHold`, `DeliveriesAreSafe`, `ImplementsQueue`, `StreamIsFollowed` |
| `PaperLedgerProofs` | `LSpec` of `PaperLedger` | `LedgerTypes`, `LedgerKeepsTheBook`, `LimitsAreKept`, `TablesAlwaysAgree`, `SinkingIsAlwaysSold` |
| | `WalletSpec` of `ActualWallet` | `HoldingsAreReceipts` |
| `DecisionsProofs` | `PipelineSpec` of `RiskPipeline` | `PipelineTyping`, `EditsAreSeen`, `DuplicatesAreExplained`, `IdentitiesAgree` |
| | `PriceSpec` of `PoolPrice` | `PriceTyping`, `AnswersAreCanonical` |
| | `HealthSpec` of `RpcHealth`, `SettingsSpec` of `WalletSettings` | `FailuresAreRemembered`, `SettingsStayUsable` |
| | the operators of `RiskEngine`, `RouteChoice`, `CopyStrategy` | `ApprovalNeedsFacts`, `RefusedCountsNothing`, `RouteIsWorthwhile`, `StricterCopiesLess`, `CopiesAreCapped` |
| `RecordsProofs` | `BusSpec`, `BehaviorSpec`, `BoardSpec` | `ClientsAreTold`, `CacheStaysCurrent`, `FilesStayInStep` |
| | `AuditSpec` of `AuditIndex`, `FeedSpec` of `SidecarFeed` | `AuditIsIndexed`, `StreamIsTaken` |
| | `PerformanceSpec` of `Performance` | `ProfilesAlwaysRight` |

They assume what the modules `ASSUME` of their constants and nothing else: that what is called a number is
one, that a marker such as `None` or NaN is none of the values it stands beside, that the sets of
events, intents, clients, threads and observed wallets are finite, that a batch and a day are not empty and a
window of health has room for the three samples the code asks for, that an older database holds only fills the code would
have inserted, that heights grow along a chain, and that no two receipts have one id. In
particular there is no bound on crashes, retries, reorgs, turns of the day or rotations other than that it is
a number. Two theorems about a specification name more than that as hypotheses of their own: `TablesAlwaysAgree` and
`SinkingIsAlwaysSold` (below).

- **FastPath.** None of the invariants is inductive: `DoneIsComplete` needs to know what the
  thread has done before it reached "complete". `Progress` says which databases know the event in
  hand at each program counter, that a decision belongs to a trade in hand, and that a fill
  is counted by a ledger row. `TypeOK /\ Progress /\` the invariants are inductive. `StaleBuysAreNotMade` needs what may not be in the
  thread's hand either (`Sealed`), `OldestFirst` that the batch has no older row outside of it (`BatchIsOldest`): nothing arrives during
  a pass, and a row that waits has had its first attempt.
- **PostTrade.** `Marks` says that a mark vouches for its effect and for the marks before
  it, and that before the risk mark no store knows of a decision; `InHand` the same for the row
  in hand. The point is the window between evaluating and storing: the opinion of an attempt
  that dies there never left the thread. `LinesAccounted`, for `RepeatsExplained`: the lines of a row
  are at most its attempts and the interruptions since, one fewer while the audit step is still to run.
- **RpcTransport.** `NonceNeverFalls` is guarded by the object's own last nonce, which no thread lowers.
  For `LossSurvived` the endpoints that could have answered during all of a call are a history
  (`Watch`); the invariant says that the endpoints a call has passed over are not among them.
- **NotificationOutbox.** `Pursuit`: the row in hand and those of the batch are unsettled,
  wanted, and not twice in hand; "sent" implies one copy has arrived.
- **ExecutionJournal.** `Identity` ties the hash, the lease and the binding to the job's
  state; with it `HeldUntilFailed` and `AttemptIsPrecommitted` are inductive.
  `NoncesDistinct` follows from `NextNonce` exceeding every lease held.
- **Execution.** `ImplementsJournal` shows every step to be one of the journal's or a
  stutter, so the journal's theorems carry over. On top of them: at most one executor is at
  an intent past its reservation, a send is preceded by its attempt and followed by no
  other, the claim follows the bound lease, and a report held by the recovery cannot become
  untrue (finality is permanent, "reorged" only reopens a job).

- **SignalQueue.** `OneExecutorPerSignal` needs that whoever is about to submit has reserved
  (`ReservedBeforeSubmit`): the second to come finds the job and does not get there.
- **Ingress.** `ImplementsQueue` shows that the bridge does to the queue only what
  `SignalQueue`'s free sources may do, so that the queue's theorems carry over. `ItemPrepared`,
  `RevertIsFenced` and `NothingReverting` say what is committed at each place of the bridge.
  `StreamIsFollowed` holds for any tree of blocks, reorgs of any depth and forks that return, with the exception `parted`
  of its formula. A chain is the smallest set that holds a block and the parents of its
  blocks, so that an induction over it is the choice of a set. The invariant: but for parted swaps, those that stand are
  exactly those of the checkpoint's chain above the first checkpoint (`ActiveIsRead`, `ReadIsActive`); a batch is what lies
  between two blocks of one chain (`BlocksRead`). A rewind takes back what is above the block it comes to, and below it the
  two chains differ in parted swaps only; it never starts from the first block, which is on every chain.

- **PaperLedger.** `LedgerKeepsTheBook` is the refinement of `PaperBook`, for every set of positions,
  orders, prices, limits and policies. Its invariant adds two facts to the type: the order on
  the desk is not entered yet (`DeskUnseen`), and the id of every fill is (`FillsSeen`); together
  they make the id of a new entry new. The arithmetic is in lemmas of its own: the rounded cost of a
  part is at most the cost (`CostOfPart`, `CostOfWhole`), so that an exit takes out no more
  than what is invested and leaves a position of its type.
  The ledger's sums are those of `Totals`, which counts units: adding an element, joining two sets, adding up
  pointwise or by parts (by days, by positions) are facts about the cardinalities of finite sets.
  `LimitsAreKept` needs that what the desk accepted *still fits* when it is booked (`StillFits`): meanwhile only
  exits change the holdings, and they open nothing, raise no cost and buy nothing (`Relief`); and a day that has begun
  since is not the day of the trade. A closed position has no cost (`ClosedEmpty`), so it counts from nothing
  when it is bought again. `TablesAlwaysAgree` gets the balance of each position from the refinement: a step of the book
  moves fills, cost and profit by the same entries (`BookBalances`). The days are the sums of their fills
  (`DailyTells`), every fill lies on a day of the clock (`Dated`: an exit is dated after the last trade, by two
  instants at the most), and the cash follows by adding up the fills once by day and once by position. It assumes
  finitely many positions and, for `PrincipalExact`, that a stake buys whole units at every price (`WholeUnits`): then what is
  recovered is a number of stakes, and the division of what is due by the price leaves nothing.
  `SinkingIsAlwaysSold` assumes what `PaperExit` shows to be necessary, that no two orders of a position have one
  time (`DistinctTimes`; the code does not see to it, section 5), with the odd and even instants of the model's clock
  (`EvenTimes`) and that a stake buys at least one unit (`BuysSomething`). The invariant (`Stops`) says where a generation can come from: the
  time of a booked order, which no later order of the position has, or the round that took the principal out, which is
  followed in its instant by one round at most, and then by none until the clock moves. So the id of a stop loss of a generation that
  is open was never entered, and a position that sinks is due. A position that sells a part of itself was worth twice its
  cost, and what is left is worth at least its cost, however that is rounded (`PartKeepsItsWorth`).
- **ActualWallet.** What is taken from the lots is counted by the unit: each unit of a lot has a place in the queue, behind
  the units of the earlier lots, and the places of all are the numbers up to their sum, one for one (`QueueGives`). A sale
  takes the units with the first places, hence what is sold, and no more from a lot than it has (`SaleTakes`). With it a
  receipt keeps the holding and the lots *backed* by the receipts that stand (`ReceiptBacked`). A reversal puts back what
  a receipt remembered, so the invariant (`TokenBacked`) says of that too what it is backed by: the standing receipts
  journalled before it (`StandingBefore`). Newest first, those are the ones that stand afterwards.

- **RiskPipeline.** `EditsAreSeen` needs marks: what was read of a file is its content as of some edit, and the
  state it was stat'ed in is no later (`DraftMarks`); what the worker keeps is no later than what its engine is
  made of (`EngineMarks`). `DuplicatesAreExplained` follows the trace of an event: the engine remembers only
  what has a verdict, was refused one or is about to be saved (`Traces`). `IdentitiesAgree` rests on a
  lemma about a registry that loads: a wallet found under a chain and an author is the one found by its address.
- **PoolPrice.** Every block proven, in a feed's hands or given out, is *accounted for*: on the chain, or its removal is
  announced and still to come, or it came before the storing.
- **RpcHealth.** The samples lie newest first, and the last failure lies just behind those that came after it until
  it is pruned (`FailureIsStored`); what is selected is the least healthy endpoint of an order on numbers, which
  exists because a finite set has a greatest value (`GreatestValue`).
- **WalletSettings.** `NoClash` (two entries of one address have one id), a registry that loads, and `IdsDiffer` (an id is
  there twice only if a request brought it with blanks around it) are kept by every request, one lemma for each.
- **Operators.** `ApprovalNeedsFacts` (an approved evaluation has every fact within the policy), `RefusedCountsNothing`
  and `RouteIsWorthwhile` (the choice among quotes), `StricterCopiesLess` and `CopiesAreCapped` (the gate)
  hold for all inputs; the parts of `DecisionsAreCautious` are single comparisons of the same operators,
  enumerated by TLC.
- **ChangeBus.** A client that keeps up has been sent each source whose revision lies before its own.
- **BehaviorProfiles.** A cached snapshot is made of rows that are a subset of the events and no fewer than
  the revision it carries, hence all of them if the revision is the present one.
- **Leaderboard.** The invariant goes by stages of a capture: while no slot was captured beside another (`twoSlots`) the ids
  are in the order of the slots, so that the day whose end is looked for is the right one; each file agrees
  with the store except for those the capture in hand is still to write.
- **NdjsonLog.** `LogInv` holds under either writer and whatever the reader does: an archive of a generation still to come holds
  only lines that are still in the file (`LogSafe`), so that overwriting it loses nothing, whatever the number of turns.
- **AuditIndex.** Every indexed row lies before the cursor of its generation and none is ahead of the marker; up to a cursor of the
  writer's generation everything is indexed (`InsertedCovers`, by the least index that is not), and a row is
  there once unless two syncs overlapped.
- **SidecarFeed.** Every line between the furthest foreign cursor of a generation and its own cursor was received
  (`ScannedIsReceived`), and of a generation still to come nothing was scanned that `foreign` does not cover: a poll that
  invents one counts as foreign to it (`NoneAhead`). A step of the poll is one lemma for what it resumes at
  and one for each kind of commit.
- **Performance.** `StoreInv` says that a stored profile is the one of the present fills, marks and identities at the time
  it was computed (`ProfilesFollow`), and that an opening is to make exactly the profiles that are missing
  (`OpeningInStep`). `ProfilesFollow` is inductive because a change concerns only the traders that are rebuilt: who
  has no new row (`OthersFills`), has not traded the token (`OthersMarks`) or is somebody else (`OthersSocials`) has the same profile
  as before. A profile depends on its rows and on which of a wallet and token precedes which, not on their places
  (`SameProfile`, for every bijection that keeps that; `Ranks` and `RowsInOrder` say that the rows of a set come out once each and in order), so
  the opposite order of arrival gives the same one unless two fills of one second tie (`BackwardsIsSame`).
  The profit goes by the book: as long as nothing was sold short, the lots after n rows are what the
  first units leave when as many were sold, and the realised profit is what the units sold brought less what as many of the first
  units bought cost (`InTurn`). `BookInTurn` carries that over one row, with lemmas for a sale: what is taken in turn leaves the same as the larger
  sale from the start (`TakenInTurn`), and is worth the units between (`LotsWorth`). All of this is about sums of
  sequences of any length. The induction is over the set of numbers up to which a fact holds: were one outside of
  it, there would be a least (`UpTo`, by `LeastNatural`), so no induction theorem with an operator as parameter is needed.

**Only model-checked.** Liveness (`EverySignalSettles`, `EveryHandOffSettles`,
`EveryNotificationSettles`, `EveryClaimDecided`): fairness and ENABLED are out of the prover's
reach. `DecisionsAreCautious` compares the operators over the enumerated inputs of `MCDecisions`; the theorems
about those operators generalise its parts to all inputs. `ReservedIsHeld` (a sum over reservations) is stated in `ExecutionJournal` and checked by no run;
`CapitalStaysHeld` and `MoneyIsHeld` prove the rest of what is said about money there.

## 5 Where code and documents disagree

- **A second stop loss is taken for a retry of the first** (run `PaperExit`). portfolio/ledger.py:514
  says that a later buy creates a new generation that must be evaluated from its freshly read quantity and
  cost. The generation is the leader's `created_at`, and two buys of one block or one second have the same.
  When the first was sold by the stop loss before the second is booked, the exit of the second has the id
  of the first, is answered "duplicate", and the position stays open in every later round. With distinct
  times the formula holds (run `PaperLedger`).

The following were met while modelling. No run is about them; where a formula states the promise, it
stays in its module with the note that no run checks it.

- **The first-start baseline is not read** (`FastPath.BaselineNeverNotified`, with `MaxCrashes` = 0).
  README.md:7 promises that the first start only builds a baseline. The first poll marks its items with
  `mark_sent`; `enqueue_event` and what follows never look at that mark. The next poll enqueues the
  same items and announces those younger than 300 s.
- **An audit line can repeat** (`PostTrade.AuditedOnce`, with `PostTrade.cfg`). app.py:1260 calls the analysis
  steps restart-safe and independently idempotent. The audit step appends to a file and marks
  itself afterwards in the database. `AuditRepeatsExplained` bounds the repetitions.
- **A lease survives its executor** (`Execution.UnsubmittedLeaseReclaimed` under `FairXSpec`, one
  executor, one crash). LIVE_EXECUTION_CHECKLIST.md:20 ticks off the safe reclaiming of unsubmitted
  nonce leases, restarts included. Only the exception handler of the execution that took a lease
  releases it; after a crash nothing does. With `MaxCrashes` = 0 the property holds.
- **A reorg of two blocks leaves its older signals out.** wallet.py:59 rewinds one block and adopts the hash it finds there.
  Events of deeper abandoned blocks are neither reverted nor fenced, and swaps of the new fork below that block are never
  read. `StreamFollowsChain` names these swaps as `parted`; without that exception TLC finds both parts of it violated.
- *Wallet stream*: evm_rpc.py:98 reads the head before the blocks and returns it as the
  checkpoint even if the last block read differs. While an abandoned block does not come back
  this only fences a good signal too many. When it does, swaps that went out of the block that was read are not
  fenced, at depth one as well: the chain moves away for the reads and back for the next poll (`parted` again).
- *Execution service*: `service.py:124` keeps an uncertain exception from ending a row, but the
  row comes back after 30 s, when it is too late for its maximum age (or is already recorded):
  it ends as dropped or processed without anybody having looked at the exception.
- *Ledger*: README.md:60 states the daily limit without the day's edge: an order of the last seconds of a
  day that is booked after midnight counts for neither day. `evaluate_exit_rules` promises "the latest
  independent mark", but a late order's price overwrites a newer mark, and `update_market_marks`
  overwrites a newer one with prices as old as its request. `cycleInvestedUsd` leaves out buys of the
  cycle that are dated before its first processed buy.
- *Actual wallet*: `reverse_chain_receipt` out of order puts back a state from before receipts that
  stand. A receipt that was reversed and is included again by the chain is taken for a duplicate.
- *Risk pipeline*: 旧文件/历史文档/RISK_CONTROL_DOCS.md:41 promises that valid changes need no
  restart; `RiskPipeline.__init__` reads the files before it stats them, so that an edit in between is seen
  with the next edit only. A verdict that the database refused is computed again as a duplicate of itself.
- *Wallet settings*: ids of an import may repeat; deleting one removes both, and editing one can make two
  enabled entries of one address, which `enabled_wallets` refuses as a whole. `_upsert_kol` looks up the id as the request
  has it (wallet_management.py:352) and `_normalize_kol` stores it stripped (:167): an id with blanks around it appends a second
  entry of that id, at an address of its own, of which `_set_kol_status` reaches the first only, so that revoking the id
  leaves the other one active. `set_watch_status` does
  not touch `enabled`: a wallet that was created paused is never watched. Emptying an allow list allows
  everything.
- **A rotation may lose the beginning of the new sidecar file** (`SidecarFeed`). The docstring of `_sidecar_resume_offset`
  (app.py:1334) promises to resume a copied stream. After any rotation, announced by its marker or not, the new generation has no cursor,
  and the function falls back to the last cursor of all and then to the furthest of all generations (app.py:1343-1359) as long as it fits the file: once
  the new file has outgrown it when the first poll comes, the lines before it are never read. `foreign` is how far such cursors
  reach, and `NothingSkipped` says that nothing beyond is skipped.
- *Sidecar feed*: app.py:1383 says that a fresh generation keeps reused offsets from colliding; the next
  poll returns to the writer's generation and its cursor, and when the writer comes to the invented generation the cursor that was
  left under it is taken for its own (`foreign` counts it). A rotation whose marker was not written is not seen at
  all (`unmarked`), and what was not yet read of a file when it is archived is read by nobody: the watcher does not
  open archives.
- *Audit index*: a rebuild of its metrics forgets the count of malformed lines and treats an empty `side`
  unlike the sync does (web/audit_index.py:93 and :243).
- *RPC health*: a success rate of 95 % over a window of a few samples bears no failure at all, one of 75 over four bears one:
  "tolerated" begins at a number of samples that no setting names.
- *Leaderboard*: a worker that ends between the commit and the files (leaderboard.py:96) leaves them as they were: the
  slot counts as captured, so that no later attempt writes its hourly file, nor closes the day before if it was the
  first of its day (`incomplete`). A capture that fails records its slot with the next id; one that is under way for an older slot
  then commits behind it, and the end of its day is looked for in the wrong place. `isCurrentRanked` goes by the largest snapshot id, the rows by their hour: a slot that failed
  and was captured later keeps its id.
- *Performance*: profile.py and performance.py promise nothing about it, but fills of one second are matched in the order of
  their arrival, and so are market observations of one token and time from two sources (`_market_rows` orders by time
  only, performance.py:455): which of them is the latest depends on which came first. No instance has two such observations.
- *Change bus*: a client that is slower than two revisions is not told the sources of the first. The greeting reads the revision
  (web/server.py:794) and the loop reads it again (:796): the sources of one that comes between are never told.
- *Pool prices*: quotes priced by the pool never pass `verify_quote_input_price`, whose
  `independent_of` is false for them; a proof may be stored after the removal of its log.
- *RPC transport*: a one-shot send never reaches a backup, not even when the primary fails at the probe, before
  anything was sent.

## 6 What is not modelled

- *The Solana provider*: slots have no parent hashes, continuity is not checked there.
- *Solana's blockhash leases* and the journal's schema migration: the same shape as the EVM
  leases, without the ordering constraint.
- *A service's `Deliver` in `Execution`* is free; that `SignalQueue` refines it is not stated.
- *Ledger*: daily backups, the native balance snapshot, the market value of a day.
- *Retention* (`prune`): suppressed notifications are never deleted, so that outbox grows; *polling of
  positions and theses*; the decoding of a transaction or a message into a signal
  (`signals/fomo.py`); readers that page through archives by the index.
- *Quote providers over HTTP, Pyth*: their answers are inputs. *Rendering, translation*: an action that
  may fail.
- *AMM arithmetic at full width, encodings, cryptography, the vault*: out of TLC's reach or
  pure functions. *The console's pages and its authentication*: they only read, or keep no
  protocol state.

Abstractions a reader should know of. A line of a log is written in one piece, and a file keeps its
identity (rotation truncates in place). The name of an archive can collide; that what it overwrites is never a line that is
not kept elsewhere is part of `LogSafe`, for any number of turns. What the bounded audit queue holds is lost with the process (`Close`);
the properties speak of appended lines. One job that raises ends a poll of the recovery; `Execution` lets
the recovery take any job, since no liveness is claimed of it. Captures of two hours at one time are left
out of `FilesFollowStore`. In `RpcTransport` a request, the comparison with the last nonce and its storing are one step (`Ask`); the code
does not lock the field they share (rpc_transport.py:208-218), which is harmless with the one thread that asks for nonces, as
in the program and in the run, and would let a nonce fall with two. In `CopyStrategy` a minimum that is the Decimal NaN gives no intent; the code
raises in the comparison (strategy.py:103), which gives none either. Scores are rounded down and unit prices whole in `Performance`. In `PoolPrice`
a block has one Sync event and the chain never returns to an abandoned block;
`ingest_sync_log` has no caller in the program yet, only in its tests. In `ChangeBus` a signature is a counter,
as a stat that repeats an old one is not seen by the code either.

## 7 Plan

Done: every module of section 2. Left, in order:

1. **EventPipeline**: `FastPath`, `PostTrade` and `NotificationOutbox` over shared tables,
   with an abstract specification (a signal is received, decided once, announced, analysed)
   and the refinement as a PROPERTY.
2. **Retention** (`prune` beside readers and late retries) and **FeedPolling** (positions,
   thesis baseline, last-seen sets).
3. The rounding directions of `v3_math.py` at a small width, against a reference definition.
