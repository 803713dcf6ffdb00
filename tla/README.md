# Verification of the Uniswap watchers

TLA+ models of the Uniswap v3 watchers in this repository: services that follow
an Ethereum-like chain block by block, process the logs of the Uniswap contracts
into entity tables (`uni-info-watcher` is a port of the Uniswap v3 subgraph) and
serve them over GraphQL.  Paths below are relative to `src/packages/`.

## 1. The system

| Component | Code | State | Operations |
|---|---|---|---|
| Job runner, chain synchronisation | `util/src/job-runner.ts` (`processBlock`, `_indexBlock`, `_pruneChain`, `resetToPrevIndexedBlock`) | tables `block_progress`, `sync_status`, `event`; two pg-boss queues; `_blockAndEventsMap` | index a height, index a block, prune a height, start, crash |
| Job runner, event processing | same file (`_processEvents`, `_updateWatchedContracts`, `handleShutdown`) | the row of the block, `contract` table, watched contracts, `_blockAndEventsMap` | process the events of a block, retry, watch, shut down |
| Server's event watcher | base library `@cerc-io/util` (not in this repository) | none of its own | reacts to completed jobs: advances `latestIndexed`, asks for pruning, pushes the next height |
| Pool event handlers | `uni-info-watcher/src/indexer.ts` | Factory, Bundle, Pool, Token, Tick, Transaction, Mint, Burn, Swap | PoolCreated, Initialize, Mint, Burn, Swap, Flash |
| Interval aggregation | `uni-info-watcher/src/utils/interval-updates.ts` | UniswapDayData, PoolDayData, PoolHourData, TokenDayData, TokenHourData, TickDayData | one update per handler call |
| Pricing | `uni-info-watcher/src/utils/pricing.ts` | Bundle.ethPriceUSD, Token.derivedETH | derived prices, tracked amounts |
| Position handlers | `uni-info-watcher/src/indexer.ts` | Position, PositionSnapshot | IncreaseLiquidity, DecreaseLiquidity, Collect, Transfer |
| Entity versions | `uni-info-watcher/src/database.ts`, `indexer.ts`, `entity/FrothyEntity.ts`, `entity/Subscriber.ts` | a version of each entity per block, the keys of versions above the canonical block, the job runner's cache of that region | load at a block, save, commit, clear, prune, reset |
| Token views | `erc20-watcher/src/indexer.ts`, `database.ts`, `utils/` | Balance, Allowance, Name, Symbol, Decimals | read-through cache of `eth_call`, filled by clients and by events |
| GraphQL servers, clients, state hooks, command line tools | `*/src/resolvers.ts`, `*/src/client.ts`, `*/src/hooks.ts`, `*/src/cli`, `*/src/fill.ts` | none | pass calls on |

How they interact.  The server pushes an index job for a height.  The job runner
takes it, fetches the sibling blocks of that height from upstream and runs
`_indexBlock` for all of them concurrently; each saves its block with the
fetched events and pushes an events job, or aborts and pushes a job for its
parent.  The events job runs the handlers of the configured watcher, then marks
the row complete and the job done.  The server sees the completed jobs: an index
job raises `latestIndexed` and may ask for pruning, an events job pushes the
next height, a prune job may ask for the next one.  `_pruneChain` keeps, at the
height `MAX_REORG_DEPTH` below the latest indexed one, the ancestor of an indexed
block, and makes it canonical.

What is hard: the two queues of one process interleave at every `await`; the
siblings of a height interleave with each other and with the calls a failed job
left running (`Promise.all`); rows are read, held across awaits and written back
whole; event handlers and progress updates commit in different transactions; a
contract watched by one attempt changes what the next attempt does; restarts
discard queues and roll back the database.  PROJECT.json lists each such place.

What makes the parts correct:

* chain synchronisation: parents are processed before their children; the
  canonical pointer climbs one chain, at the right depth, along blocks it keeps;
  no job is lost, so that the tip is reached;
* event processing: the events of watched contracts, those created in the block
  included, are applied once and in log order, stored, and only then is the
  block complete;
* handlers: totals and volumes of factory, tokens, pools and intervals agree,
  liquidity of ticks agrees with that of pools and positions;
* entity versions: what is read at a block is what its own chain's events made of
  it, whatever siblings, the cache, failed handlers, pruning and restarts did, and
  it never changes once the block is complete;
* positions: a position is made of the events applied on the chain, each event is
  applied that should be, a snapshot is the position at its block;
* token views: an answer never differs from an earlier one for the same block, and
  balances are never made up.

## 2. Modules

| Module | Models |
|---|---|
| `ChainSync` | chain synchronisation: the queues, the job runner's two workers, the `_indexBlock` calls in flight, the tables, the server's reactions, crash and restart |
| `MCChainSync` | a block tree for TLC |
| `ChainSyncProofs` | `ChainSync`: type correctness and `ParentsFirst` |
| `CanonicalProofs` | `ChainSync`: `CanonicalDeep`, `CanonicalUnpruned` and `CanonicalChain` |
| `EventProcessing` | the events job of one block: both loops, retries, created contracts, commits, shutdown, crash, repeated jobs |
| `EventLog` | what the events job promises: due events applied in log order, complete after the last |
| `EventProcessingProofs` | `EventProcessing`: type correctness, four invariants, and that it implements `EventLog` |
| `MCEventProcessing` | contracts for TLC |
| `PoolHandlers` | the pool event handlers of `uni-info-watcher`, the prices they derive and the interval data they keep |
| `PoolHandlersProofs` | `PoolHandlers`: type correctness and the six other invariants |
| `MCPoolHandlers` | two pools of three tokens for TLC |
| `EntityStore` | versions of entities by block, the frothy region, the cache of the job runner, and the index jobs, prune jobs and restarts that move them |
| `EntityHistory` | what the versions promise a reader: a tree of blocks, each of which starts from its parent and is fixed once complete |
| `Positions` | the handlers of the position manager's events over `EntityStore`, step by step; shows that it implements `EntityHistory` |
| `PositionsProofs` | `EntityStore` and `Positions`: type correctness, `CacheCoherent`, and that they implement `EntityHistory` |
| `ApplyProofs` | `Positions`: `PositionsAgree`, `EveryEventApplied` and `SnapshotsAgree` |
| `MCPositions` | a fork, three tokens and two pools for TLC |
| `TokenViews` | `erc20-watcher`: clients and the events job share the views of token contracts |
| `TokenViewsProofs` | `TokenViews`: type correctness and four invariants |
| `MCTokenViews` | four kinds of token contracts and two clients for TLC |
| `InductionLemmas` | lemmas the proofs share: least elements, finite sets one element at a time, sums of functions |

`Positions` EXTENDS `EntityStore`, as its actions are composed of the store's:
an index job saves a block there and pushes an events job here.  `ChainSync`,
`EventProcessing`, `PoolHandlers` and `TokenViews` each take for granted what the
one before shows: blocks are processed after their parents, events one at a time
and in order.

### ChainSync and the code

* `progress`, `isPruned`: the `block_progress` rows; `savedEvents`: blocks with
  rows in `event`; `applied`: blocks all of whose events reached the entity
  tables; `syncStatus`: the `sync_status` row (the canonical number is the
  number of the canonical block, as the code always writes both).
* `blockQueue`, `eventQueue`: multisets of jobs with copies cut off at
  `MaxCopies`.  Priorities and back-off are abstracted: any queued job may be
  next.  `completions`: completed jobs the server has still to look at.
* `worker` is the block-queue handler (pg-boss gives the runner one job at a
  time), `eventWorker` the event-queue handler, `tasks` the `_indexBlock` calls
  in flight.  A task or a worker has one step for each stretch of code between
  two awaits that another actor could tell apart.  Promise.all is modelled as it
  is: the first `_indexBlock` that throws fails the job (`Throw`), and the calls
  of its siblings go on, `owned = FALSE`.
* `FetchBlocks` takes any non-empty part of a height: upstream may not know of a
  sibling yet.  `FinishEvents` and `FailEvents` write the row the handler read at
  its start, `isPruned` included (`WriteRow`).
* `Start` is `start()`: `deleteAllJobs`, `resetToPrevIndexedBlock`, subscribe.
  When `resetWatcherToBlock` refuses the height the process never subscribes.

The base library is not part of the repository.  What it does is modelled from
how this code uses it and marked external in the map: `pushJob`, job retries,
`updateBlockProgress` (writes the whole row), `resetWatcherToBlock` (asserts, then
discards above the height), and the server's `EventWatcher`.

### EventProcessing and the code

The block's log is chosen in `Init`: each event has an emitting contract and
possibly a contract it creates.  `TakeJob`/`Refetch` read the row and get the
events from `_blockAndEventsMap` or upstream; `Split` is the division into
watched and unwatched events under `subgraphEventsOrder`; `SkipEvent`,
`ProcessEvent` and `UpdateProgress` are the loops, with the order check
(`OutOfOrder`), the parsing of unnamed events (`ParseUnknown`), the contracts
created (`Watch`) and `updateBlockProgress` in a step of its own unless
`lazyUpdateBlockProgress`; `FinishBlock` is the two final commits and the exit of
a process that was told to shut down.  `FailHandler`, `FailWatch`, `FailUpdate`
and `FinishPartly` are the places where one step of several fails; `Crash`,
`Signal` and `Restart` are what happens to the process.  A restart resets the
watcher below the block, so that the block is indexed anew.

`uni-watcher` runs with `lazyUpdateBlockProgress`, parses only events of watched
contracts and watches in the handler; `uni-info-watcher` runs with
`subgraphEventsOrder`, parses all and watches after the handler's commit.  The
runs use these two configurations and a third that has neither option.  Each is put
through the failures of its own shape: a handler that watches last may commit and then
fail to watch (`"watch"`), and the retry creates the contract once more.  `spent` counts
the failures, those after a handler's commit (`afterHandler`), and those by which a
contract created in the block is watched (`onceWatched`).

### PoolHandlers and the code

A handler is one database transaction, and the events job runs one handler at a
time (that it does so, in log order and once, is what `EventProcessing` is about),
so each handler is one action: `HandlePoolCreated`, `HandleInitialize`,
`HandleMint`, `HandleBurn`, `HandleSwap`.  What remains hard is inside the handler
and between handlers: which row a helper reads, the saved one or the one in hand,
and what each later handler finds.

* `factory`, `bundle`, `pool`, `token`, `tick` and the six interval variables are
  the entity tables (`Null`: no row); `entities` holds the ids of Mint, Burn and
  Swap rows, `<transaction>#<txCount>`.
* `chain` is the environment, the pool contracts: tick, liquidity of each
  position, reserves.  A handler is enabled for the events the contract can emit,
  and what the handler reads with `eth_call` comes from there.
* `MoveLiquidity` is what `_handleMint` and `_handleBurn` share; the interval rows
  are computed from the saved pool and factory, as the code updates them before it
  saves these.  `HandleSwap` saves the pool with its new price, finds prices with
  that pool and the old tokens, and saves it again.
* `LoadedTicks` is the pair of loops over crossed ticks, with JavaScript's signed
  remainder; `FindEthPerToken`, `EthPriceInUSD` and `TrackedAmountUSD` are
  `pricing.ts`; `PoolDayRow` and its like are `interval-updates.ts`
  (`poolDayData.close` keeps its first value, as in the code).

* `NewMint`, `NewBurn` and `NewSwap` are the entities of the events, with the
  transaction `loadTransaction` saves for them; `TokenDayRow` and `TokenHourRow` are
  computed from the token in hand and the saved bundle.

Abstractions: amounts are whole numbers and division rounds down; USD amounts count
half dollars and fees millionths, which keeps sums exact; prices are a function of
the tick; fields that merely copy another field of the same call are left out.  The
volumes a swap adds to the rows of a token's hour are left out too, as the rows were
saved before and are not saved again.  A read gives the row last saved: the objects
the base library's cache hands out are taken not to be shared between a reader and
a writer.

### EntityStore, Positions and the code

* `table` holds the rows of all entities, keyed by id and block; `frothy` is
  `FrothyEntity`; `frothyBlocks` and `latestPruned` are the cache of
  `database.ts` (`cachedEntities`).  What the graph library does with them is not in
  this repository and is modelled from how it is used: `FromTable` is
  `getModelEntity` at a block hash (the version of the block, or of the nearest
  ancestor above the canonical block, or else the latest one not pruned at that
  height or below), `FromCache` the same over the cache.  `GetEntity` uses the cache
  for a block that is in it once its lower end is known.
* `CacheUpdatedEntities` and `CommitEntities` are the two halves of a save: the
  cache has the entity at once, the tables when the transaction commits.
  `ClearCachedEntities` is what `processEvent` does when a handler throws.
* `MarkBlocksAsPruned`, `UpdateCanonicalBlock`, `PruneCachedEntities` and
  `PruneFrothyEntities` are the four steps of a prune job that others can come
  between.  The last commits without being waited for, and may fail unnoticed.
  Index and prune jobs have one handler, which takes them in turn, and an index job
  waits until pruning is caught up (`TakeIndexJob`); only the last step of a prune job
  may still be under way then, as nobody waits for it.
  `AddFrothyBlock` is what each index job does to the cache; every
  `clearEntitiesCacheInterval` blocks the lower end is forgotten.  An index job for the
  latest canonical block works on the first row it finds, which is that of the parent
  (`RowFound`).  The `_indexBlock` calls that a failed job leaves running are part of
  `ChainSync` only.
* `ResetStore` is `resetWatcherToBlock` at the start of a job runner.  When some
  block of that height is incomplete it refuses (`ChainSyncResetHeight`).
* A handler is a sequence of steps: `GetPosition`, `CreatePosition` (calls, then
  the default position is saved), `CommitNewPosition` (a transaction of its own),
  `HandleTransfer` or `HandleLiquidity` (fees refreshed by a call that may fail, the
  position changed and saved with its snapshot), `CommitPosition`, `UpdateProgress`.
  Each step that reads, calls or commits may fail (`Throw`).
* `TakeEventsJob` leaves out that a repeated job, whose events have been dropped from
  memory, fetches them again and thereby has the row incomplete until it ends: no
  entity changes, as the events are skipped.  `EventProcessing` (`Refetch`) and
  `ChainSync` (`RefetchEvents`) have it.
* `PoolAt` is the position manager as seen at the end of each block: the pool of a
  token, or `NoPool` when `positions` reverts.  Amounts are counted for one of the
  two tokens; `fees` remembers the block of the last refresh.
* `late` is history, and nothing is promised of the states in which it is set
  (`LiveRows`).  It is set by an events job that writes to a block off the chain:
  `ChainSyncOneUnpruned` shows that this happens and what it does to the block row; the
  versions such a job saves are not pruned either and are found below the canonical
  block.  And it is set by restarts in a row, each of which goes back one more height,
  when one gets below the canonical block and takes a row off the chain for it.

### TokenViews and the code

A *view* is a question about a token contract: balance, allowance, name, symbol,
decimals or total supply.  A caller (a client or the events job) goes through
`Lookup` (the database), `GetBlockByHash`, `FetchValue` and its like (the calls, with
the fallbacks of `utils/index.ts`: a string, then bytes, then a static definition,
then "unknown") and `Save`, and can be overtaken between any two of them.
`UniqueIndex` is the index of the entity, which makes the second insert throw.
`ResetViews` keeps names, symbols and decimals, as `resetWatcherToBlock` of
`erc20-watcher` does.

## 3. Runs

| Run | Shows |
|---|---|
| `ChainSyncFork` | on a chain of four heights with a fork of one block: `ParentsFirst`, `CanonicalUnpruned`, `CanonicalDeep`, `CanonicalChain` |
| `ChainSyncRestart` | `ParentsFirst` and `CanonicalDeep` through upstream, handler and commit failures, a crash and restart, a second server start |
| `ChainSyncProgress` | liveness: the last block is processed (`TipReached`), pruning catches up whenever it is behind (`PrunedInTime`) |
| `Events` | in the configurations of all watchers the loop implements `EventLog` (`AppliesInLogOrder`) and stores what is due (`DueEventsStored`), completes a block only after its last event (`CompleteAfterAll`), leaves created contracts to the end where configured (`CreatedContractsLast`), applies an event twice only after a failure (`AppliedOnce`); every job, the repeated ones and those after a restart too, gets done unless its events are saved already (`JobGetsDone`), and the row ends up complete for good (`RowStaysComplete`) |
| `PoolHandlers` | totals of factory and tokens are the sums over the pools (`TotalsAgree`), volumes agree between five tables (`VolumesAgree`), ticks, pools and positions agree on liquidity (`LiquidityAgrees`), the days of pools and tokens are made of their hours (`DaysMadeOfHours`), a tick's last day is the tick (`TickDayDataCurrent`), the entities of events account for what a pool holds and for its days (`EntitiesAccountForPool`) |
| `Positions` | positions are made of the events of their own chain (`PositionsAgree`), every event that should be is applied (`EveryEventApplied`), snapshots are those of the own chain (`SnapshotsAgree`), the cache says what the tables say (`CacheCoherent`), what is read at blocks is an `EntityHistory` (`KeepsHistory`) |
| `TokenViews` | an answer is the one given before (`AnswersAgree`), balances are the contract's (`BalancesAreTheChains`), nothing is made up without a failure (`MadeUpOnlyAfterFailure`), the events job stores its views (`EventViewsStored`) and gets done (`JobGetsDone`) |
| `ChainSyncOneUnpruned` | *violated*: the row written at the end of `_processEvents` clears `isPruned` at a canonical height |
| `ChainSyncResetHeight` | *violated*: the height a restart goes back to may be incomplete, and then the restart refuses to start |
| `ChainSyncAborted` | *violated*: a block aborted for its parent may never be processed |
| `EventsSkipped` | *violated*: a failure in the second loop makes later events of a created contract be skipped |
| `PoolEntities` | *violated*: two pools with equal `txCount` in one transaction write the same Mint, Burn or Swap id, and the second row replaces the first |

The five violated claims quote a comment or a test; PROJECT.json says which.

Bounds, and why they are enough.

* `MaxReorgDepth = 1` (the code's is 16): pruning compares a height with the one
  `MaxReorgDepth` above; with depth one, heights 1..4 contain three pruning
  rounds, and a fork (`b2`) that ends inside the frothy region.  The proof holds
  for every depth.
* `MaxHeight`: the height at which upstream ends.  `EmptyBlocks` gives some of
  the blocks no events, which makes them complete when saved.
* `MaxCopies = 1`: a second copy of a queued job adds a repetition that the
  retries and the completed-then-pushed-again jobs already give.
* `MaxStray = 1`: one call left running by a failed job when the next job starts,
  enough for a stale call to meet the retry.
* `MaxFaults = 2`, `MaxRestarts = 1`, `MaxServerStarts <= 2`, `MaxRequeues = 1`:
  a failure, a failure in its retry, and a restart in between.
* `Events`: creation, events of the created contract and of another contract, in
  every order the log may have; the configuration is chosen in the initial state.
* `PoolHandlers`: `MaxEvents = 4` mints, burns and swaps over two pools that share
  WETH, `MaxTransactions = 1` (two transactions), `MaxHour = 2` with two hours to the
  day: an hour within a day and a day's change can lie between two events.  Four
  events are enough for: mint before the first swap, swap, burn, swap back, and for
  a change of one pool's prices between two events of the other.  `MaxAmount = 1`;
  a burn takes all or nothing.  The ranges of `usdcWeth` share a tick, one range
  reaches below zero, and the price of `altWeth` crosses an initialized
  tick in both directions.
  `MaxTickIters = 1` (the code's 100) is exceeded by the price moves of `usdcWeth` and
  not by those of `altWeth`.

* `Positions`: a start block, a fork at height one, and two more heights on one side,
  with `MaxReorgDepth = 1`: two prune rounds, the first over the fork, while the
  events of the other branch or of the heights above are being handled.  Token `x`
  has events on both branches and other pools on each; `hot` belongs to the pool whose
  liquidity events are skipped and is transferred on the branch that is pruned;
  `positions` reverts for `gone`.  `clearEntitiesCacheInterval = 2` (the code's is
  configured): the cache loses its lower end and finds it again.  `MaxIncidents = 1`:
  a failing call or commit, a lost commit, a repeated index job, or a crash, at any
  step.  On a smaller instance, a fork with a late empty sibling, every property holds
  with two and with three of them as well; with two, restarts in a row get below the
  canonical block.
* `TokenViews`: two clients and the events job, four kinds of contracts, one failing
  call and one restart: both miss, both insert, and one retries.

Deadlock is not checked: the modelled chain ends, the watcher then waits for the
next block.

Fairness (`ChainSync!Fairness`, `EventProcessing!FairSpec`, `TokenViews!FairSpec`): pg-boss polls as long
as the process runs and every promise settles, hence weak fairness for the
handlers' steps and for the server.  Taking a prune job and taking an events job
are strongly fair: the prune job has a higher priority than the index job
whose retries compete with it, and the event queue has one handler that serves
its jobs in turn.  Failures and crashes have no fairness.  The liveness run has no
crash of the job runner: a starting job runner deletes all jobs, and it is the
server's next start that asks for a height again.  Of the two final transactions of
an events job it lets `saveEvents` fail alone, and not `updateBlockProgress`: after
that, `saveEvents` of every retry fails on the events that are saved, the job is never
done and the next height is never asked for.  (With `"updateBlockProgress"` among its
`FaultKinds` the run finds just this; `JobGetsDone` of `EventProcessing` names it as its
exception.  `RowStaysComplete` shows that the row is written all the same.)

A reorg deeper than `MAX_REORG_DEPTH` is outside of what the code promises
(`uni-info-watcher/src/entity/SyncStatus.ts:30`: "Reorgs older than this block
cannot be processed and processing will halt").  `CanonicalUnpruned` and
`CanonicalChain` therefore assume `ShallowForks`; without it the canonical pointer
follows whichever head the database returns first and may switch chains.

## 4. Proofs

The theorems hold for every value of the constants that satisfies the named
assumptions of the modules: every block tree, reorg depth and bound (`ChainSync`),
every log, set of contracts and configuration (`EventProcessing`), all pools, tokens,
positions and lengths of a day (`PoolHandlers`), every block tree, reorg depth, cache
interval, log and number of incidents (`Positions`), all clients, contracts and events
(`TokenViews`).  The assumptions say that constants are of their type, that there are
finitely many blocks, pools, tokens and positions, and what the chain and the code
guarantee: `ChainAssumption` (a block has its parent one height below),
`DepthAssumption` (`AncestorAt` is the walk over parents), `EventsAssumption`
(factories are watched from the start), `NamesAssumption` (a watcher with
`subgraphEventsOrder` parses the events of contracts it does not watch, as
`uni-info-watcher` does), `PoolsAssumption` (a pool has two tokens, a range is not
empty, prices are not negative), `NullAssumption` (no row is `Null`), `BlockAssumption` and `EventsAssumption` of
`EntityStore` and `Positions` (a finite tree in which a block has its parent one height
below; tokens and their snapshots have ids, which differ as they are rows of two tables; the block the watcher starts from has no
events), `ShallowForks` (siblings differ no deeper than the reorg depth),
`NoEntityAssumption` (no row is `NoEntity`).  TLC evaluates
each of them on the instances of the runs.

| Theorem | States |
|---|---|
| `ChainSyncProofs!Typing` | `Spec => []TypeOK` |
| `ChainSyncProofs!ParentsProcessedFirst` | `Spec => []ParentsFirst` |
| `CanonicalProofs!CanonicalIsDeep` | `Spec => []CanonicalDeep` |
| `CanonicalProofs!CanonicalIsUnpruned` | `Spec => []CanonicalUnpruned` |
| `CanonicalProofs!CanonicalClimbs` | `Spec => CanonicalChain`, an action property |
| `EventProcessingProofs!EventsTyped` | `Spec => []TypeOK` |
| `EventProcessingProofs!CompleteMeansAll` | `Spec => []CompleteAfterAll` |
| `EventProcessingProofs!DueStored` | `Spec => []DueEventsStored` |
| `EventProcessingProofs!OnceUnlessItFails` | `Spec => []AppliedOnce` |
| `EventProcessingProofs!CreatedLast` | `Spec => []CreatedContractsLast` |
| `EventProcessingProofs!EventsImplementLog` | `Spec => AppliesInLogOrder`, the refinement of `EventLog` |
| `PoolHandlersProofs!BasicsHold` | `Spec => []Basics` |
| `PoolHandlersProofs!TypesHold` | `Spec => []TypeOK` |
| `PoolHandlersProofs!TotalsAlwaysAgree` | `Spec => []TotalsAgree` |
| `PoolHandlersProofs!VolumesAlwaysAgree` | `Spec => []VolumesAgree` |
| `PoolHandlersProofs!LiquidityAlwaysAgrees` | `Spec => []LiquidityAgrees` |
| `PoolHandlersProofs!TickDaysAlwaysCurrent` | `Spec => []TickDayDataCurrent` |
| `PoolHandlersProofs!DaysAlwaysMadeOfHours` | `Spec => []DaysMadeOfHours` |
| `PoolHandlersProofs!EntitiesAlwaysAccount` | `Spec => []EntitiesAccountForPool` |
| `PositionsProofs!TypesHold` | `Spec => []TypeOK` |
| `PositionsProofs!CacheAlwaysCoherent` | `Spec => []CacheCoherent` |
| `PositionsProofs!HistoryKept` | `Spec => KeepsHistory`, the refinement of `EntityHistory` |
| `ApplyProofs!PositionsAlwaysAgree` | `Spec => []PositionsAgree` |
| `ApplyProofs!EventsAlwaysApplied` | `Spec => []EveryEventApplied` |
| `ApplyProofs!SnapshotsAlwaysAgree` | `Spec => []SnapshotsAgree` |
| `TokenViewsProofs!Typing` | `Spec => []TypeOK` |
| `TokenViewsProofs!AnswersNeverDiffer` | `Spec => []AnswersAgree` |
| `TokenViewsProofs!BalancesAreRead` | `Spec => []BalancesAreTheChains` |
| `TokenViewsProofs!MadeUpForAReason` | `Spec => []MadeUpOnlyAfterFailure` |
| `TokenViewsProofs!EventsAreIndexed` | `Spec => []EventViewsStored` |

### ChainSync

`Typing`.  `TypeOK` alone is not inductive: when a job completes, `worker.job` enters
`completions`, which is well typed only if the busy worker's job is a job of the
queue; and what the event worker writes is well typed only if it has a block.
`TypeInv` adds these two facts.  One lemma per group of actions proves that it is
preserved; `PushType`, `TakeType` and `ThrowType` are about the operators the
actions share.

`ParentsProcessedFirst`.  `ParentsFirst` says nothing of the calls in flight, which
act on what they read before an await, nor of the canonical block, which is indexed
without a look at its parent.  `ParentsInv` is the conjunction of:

* `RowsReady`: each row is at the start height or has a processed parent with a row;
* `AncestorsKept`: from a row, every ancestor within the reorg depth and above the
  start has a row, of the right height.  It is what makes the block `_pruneChain`
  walks down to one that may be re-indexed as canonical; stating it for all depths
  at once avoids an induction over the depth;
* `CompleteApplied`: a row marked complete, or about to be written back as complete
  by the event handler that read it, has all its events applied;
* `EventsOfRows`, `TasksReady`, `CanonicalHasRow`: the same for queued events, calls
  in flight and the block being made canonical;
* `Stopped`, `FirstHead`: a stopped process has nothing in flight (so that a reset
  cannot pull a row from under a call), and before the first chain head is seen the
  only job is the one for the start height (so that the first canonical block is at
  that height).

`ParentsReset` shows that what `resetWatcherToBlock` keeps is closed under parents.

`CanonicalIsDeep`.  `DeepInv` adds that the height being pruned lies the reorg depth
below the latest indexed one while the prune job runs, and that a stopped process
has one more height of slack than a running one, which its next start uses up.

`CanonicalIsUnpruned` and `CanonicalClimbs`.  A block is on the *trunk* if
some block is its descendant, the reorg depth above it.  With `ShallowForks` a height has
one block on the trunk, so that whichever indexed block `_pruneChain` starts from, it
walks down to that one.  `TrunkInv` says that pruned blocks have rows and are off the
trunk (`PrunedRows`), that prune jobs never ask for a height more than one above the
canonical block and find the trunk among the blocks not pruned (`PruneOrder`), that the
heights of rows have no gaps (`NoGaps`), that there is one first block (`OneFirst`), and
that the canonical block is not pruned and on the trunk (`OnTrunk`).  An event handler
that writes back the row it read can unprune a block but never prune one, which is why
only pruned blocks are spoken of.  `CanonicalClimbs` follows: the step that moves the
pointer takes the trunk block one height up, whose parent is on the trunk.

### EventProcessing

The five invariants share `EventsInv`.  `WorkerShape` and `RowShape` say where in the two
loops the worker is and what the row's counter says of the events behind it; `InOrder`,
that in log order every event up to the last one is applied, will be stored, and has its
contract watched; `OutOfLogOrder` and `SecondLoopLast`, what is left to the loops with
`subgraphEventsOrder`, as long as nothing fails once a created contract is watched (a
failure before that leaves every event the row's index has passed settled,
`SettledSoFar`); `AllNamed`, that a watcher which parses everything has named everything.  `Budget` is the strengthening `AppliedOnce` needs: an
event that is not recorded yet was applied at most once per failure, and not at all
when it waits in the second loop.  `EventsImplementLog` maps each action to a step of
`EventLog` or a stutter, without `subgraphEventsOrder`, which promises no order.

### PoolHandlers

A handler is one long action that saves the same rows several times.  The proof goes in
two layers.

* *What a step does.*  `Basics` is the inductive invariant under everything: rows have
  their types (`TypeInv`), there is a factory and there are tokens once there are
  pools (`Registered`), and nothing is stored of what does not exist yet
  (`NothingBefore`).  From it, `Steps` shows that each action is one of `NextTransaction`,
  `PoolAdded`, `PoolPriced`, `LiquidityMoved` and `SwapMoved`: predicates that give the
  net effect on each table, the sum of the intermediate saves.  `Event` is what mints,
  burns and swaps have in common.
* *What invariants make of it.*  Each of them is proved from these effects alone.

`TotalsAlwaysAgree` and `VolumesAlwaysAgree` are about sums over the rows of a table.
`SumOf` is a fold over a finite set, and the lemmas `SumWithOneMore` and
`SumWithOneChanged` of `InductionLemmas` say how such a sum goes with one row; the rest
is which row of which table gains what.  For volumes the invariant has one conjunct for
each pair of tables.

`LiquidityAlwaysAgrees`.  `LiquidityInv` says what a tick's gross and net liquidity are
in terms of the positions that end at it, that at *every* price the net liquidity of
the ticks up to it is the liquidity of the positions around it (the property says so for
the current price only, and a swap moves the price), and that the pool's liquidity is
that of the positions around its tick.

`TickDaysAlwaysCurrent`: there are no rows of days to come, and the last row equals the
tick, through handlers that save a tick and those that only refresh its day.

`DaysAlwaysMadeOfHours`.  `DaysInv`: a day spans the hours stored of it and opens with
the first, a token's day closes with the last, transactions of hours add up, and the
pool's price lies in the span of today, which is what makes an hour that begins with
the old price stay within the day.

`EntitiesAlwaysAccount`.  `EntitiesInv`: a pool has at most as many entities as events,
and if as many, its totals are theirs.  Saving an entity may replace another of this
pool or of one more; then the count falls behind for good, since an event adds at most
one.  So equality means that nothing was ever replaced.  The days of swaps are those of
their transactions, which are saved with the hour of the block.

`TypesHold` follows from `Basics`, `TotalsAgree` and `LiquidityInv`: that the locked
amounts are not negative is a fact about the contract's reserves.

### EntityStore and Positions

`TypesHold`.  `TypeInv` adds to the types what the handler is at (its block has a row, it
has a position in hand, an event to process and saves that are not committed only at the
steps where it should) and that a row's parent is complete.

`CacheAlwaysCoherent`.  The cache is read by walking down `frothyBlocks` to its lower end
and then in `latestPruned`, the tables by walking down to the canonical block and then to
the latest version not pruned.  That the two end at the same version takes three groups
of facts.

* `PruneInv`, the tree: a block is on the *trunk* when some block is its descendant, the
  reorg depth above it; the block a prune job keeps is on the trunk, complete and the
  next one above the canonical block or the canonical block itself, depending on the step
  of the job; what is pruned is not on the trunk.
* `VersionsInv`, the tables, as long as nothing is `late`: versions of pruned blocks are
  marked and only versions of blocks off the chain are (`MarkedInv`, which speaks of the
  position in hand, the transaction and the cache too); at the height a prune job is at
  only the block it keeps has versions that count (`OneVersionInv`); and what the
  lower end of the cache holds is the latest version there (`LatestInv`).
* `CacheInv`, the cache: `FrothyEntity` has the keys of all versions above the canonical
  block, so that a prune job finds them (`FrothyInv`); what is cached of a block are its
  versions or the uncommitted saves of the current handler (`CacheHolds`); and above a
  block with cached versions, or above the lower end when it is known, the cache has
  all versions of all blocks (`CacheReaches`).  The lower end is the canonical block, or its
  parent for the one step in which a prune job has moved the canonical block and not yet
  the cache (`Base`).

The invariant was not inductive for an earlier form of the model, in which an index job
could begin between the steps of a prune job and a repeated one could bring the canonical
block back into the cache; TLC then showed `CacheCoherent` violated after two incidents.
The code does neither, and the model now follows it (`TakeIndexJob`, `RowFound`).

`HistoryKept`.  `CanonicalInv` adds that the canonical block is on the trunk and that beside
it and the blocks below nothing unpruned is stored.  With it, what is read at a live block
is its own version or else what is read at its parent, on both sides of the canonical
block (`ReadsAlongChain`), although the code reads them in two ways.  So a step that
leaves the versions on the way to a block alone leaves the view alone, wherever the
canonical block moves, and each action is a step of `EntityHistory` or a stutter.
Looking for this proof showed what restarts in a row do to the canonical block (`late`).

`PositionsAlwaysAgree`, `EventsAlwaysApplied` and `SnapshotsAlwaysAgree` share one
invariant, `ApplyInv`.  By `ReadsAlongChain` a read at a live block finds the version of
the nearest ancestor that has one (`ReadsNearest`), so it is enough to know what each
version says, as long as nothing is `late` (`BlocksHold`):

* `MadeAt`: a stored position is made of the events applied on the way to its block;
* `SnapshotAt`: a block that changed a position has its snapshot, which says the same,
  and no other block has one.  So no event of the token is applied between the nearest
  version and the block that is read, and the totals are the same (`NothingSince`);
* `FoundAt`: once an event of a token is processed at a block at which the contract
  knows the position, there is a version, so that `PoolOf` names the pool it was created
  with, and it is not looked up again on that chain;
* `DueAt`: the events applied are due, and those that are due and counted are applied.

`HandlerHolds` says the same of the position in hand, step by step: what is read or
created is made of the events so far, although index jobs, prune jobs and restarts come
between the read and the commit; what is saved is that with the event applied; after the
commit the event is among those applied.  `AppliedInv` keeps the log order and the
budget: an event that is applied and not counted will be applied again
(`AppliedAhead`), which costs the incident that made it so.  What the events add up to
is a recursive function over the parents; `AppendMade` shows that the sums and the owner
follow an event that is appended, and that `Changed` does the same to the position.

### TokenViews

The theorems share one induction.  `ViewsInv` is `TypeInv` together with
`CallsAtAwaits`: what a caller carries from one await to the next belongs to the view
it asks for.  `RowsAreUnique` (one row for a view, by the index), `RowsHoldFetched` (a
row holds what a call returned or a fallback made up), `AnswersFromRows` (a view
answered has a row with that answer, or the answer was fetched by the same caller) and
`JobInOrder` (the events job has stored the views before the one it is at) are
preserved on top of it, and each theorem follows from one or two of them.

### What is not proved

The invariants were model-checked on the instances of the runs before they were proved.

Every invariant, action property and refinement that a run finds to hold is proved.  Only
model-checked is liveness (`TipReached`, `PrunedInTime`, `JobGetsDone`,
`RowStaysComplete`).  Out of the prover's reach: liveness under fairness, ENABLED, and the
induction theorems of the library, whose parameters are operators.  Where an induction is needed it is done by hand over sets:
a finite set of counterexamples has a least element, which leads to a contradiction
(`InductionLemmas`).  The walks over ancestors of `EntityStore` are recursive functions over
a finite tree, and are reasoned about in the same way, with a lowest block for the least
element.

## 5. Not modelled

* Block prefetching (`prefetchBlocksInMem`, a cache in front of upstream), job
  priorities and retry limits.
* `_handleFlash`, which saves the pool as it was and does not commit; demo mode, and
  the fixes for single mainnet contracts and blocks in `pricing.ts` and `indexer.ts`
  other than the one of the position handlers.
* The Latest tables, the relations and the filters of queries: they are kept and read
  by the base library.  The fields of positions that are set once.
* The remaining `eth_call` views of `uni-watcher`; GraphQL servers, resolvers and
  clients (they pass calls on); state checkpoints (two hooks that do nothing); command
  line tools (one-shot wrappers).

## 6. Plan

1. A run of `PoolHandlers` for blocks before `FIRST_GRAFT_BLOCK`, where volumes of pool
   hours are not saved, and pools over `EntityStore` instead of one branch.
2. The runs of the violated claims of `ChainSync` are candidates to be merged where
   later modules ask the more important question: an events job that is late for its
   pruned block corrupts entities as well, which `Positions` could show.
3. What `ChainSync` promises of block rows as an abstract specification, and
   `EntityStore`'s index and prune jobs shown to keep to it.
