------------------------------ MODULE ChainSync ------------------------------
(***************************************************************************)
(* The job runner of packages/util/src/job-runner.ts, as it drives the     *)
(* block_progress and sync_status tables.                                  *)
(*                                                                         *)
(* Two job queues feed one Node process.  The block queue holds index jobs *)
(* (by height, or by hash for a missing parent) and prune jobs; the event  *)
(* queue holds one job per block whose events are to be processed.  Each   *)
(* queue runs one job at a time, but the two handlers interleave at every  *)
(* await, the siblings of one height are indexed concurrently, and a       *)
(* failed job leaves the _indexBlock calls of its siblings running.  The   *)
(* server process listens to completed jobs: it advances latestIndexed,    *)
(* asks for pruning and pushes the next height.                            *)
(*                                                                         *)
(* The block tree is a constant; what upstream shows of a height at one    *)
(* time is any non-empty part of it.  Priorities and back-off delays are   *)
(* abstracted: any queued job may be the next one.                         *)
(***************************************************************************)
EXTENDS Integers, FiniteSets

CONSTANTS
  Blocks,          \* block hashes
  NoBlock,         \* undefined
  Number,          \* block -> height
  Parent,          \* block -> parent hash, NoBlock for the genesis block
  AncestorAt,      \* depth -> block -> the ancestor that deep
  EmptyBlocks,     \* blocks without events
  StartNumber,     \* the height the watcher starts from
  MaxHeight,       \* the height at which the modelled upstream chain ends
  MaxReorgDepth,   \* MAX_REORG_DEPTH
  FaultKinds,      \* which transient failures happen
  MaxFaults,       \* bound: how often they happen
  MaxRestarts,     \* bound: crashes of the job runner
  MaxServerStarts, \* bound: starts of the server
  MaxCopies,       \* bound: copies of one job kept in a queue
  MaxStray         \* bound: calls left running by failed jobs when a job starts

ASSUME ChainAssumption ==
  /\ NoBlock \notin Blocks
  /\ MaxHeight \in Nat
  /\ StartNumber \in 1..MaxHeight
  /\ Number \in [Blocks -> 0..MaxHeight]
  /\ Parent \in [Blocks -> Blocks \cup {NoBlock}]
  /\ \A b \in Blocks : Number[b] > 0 => /\ Parent[b] \in Blocks
                                        /\ Number[Parent[b]] = Number[b] - 1
  /\ EmptyBlocks \subseteq Blocks

\* Upstream has finitely many blocks.
ASSUME BlocksAssumption == IsFiniteSet(Blocks)

ASSUME DepthAssumption ==
  /\ MaxReorgDepth \in Nat \ {0}
  /\ AncestorAt \in [0..MaxReorgDepth -> [Blocks -> Blocks \cup {NoBlock}]]
  /\ \A b \in Blocks : AncestorAt[0][b] = b
  /\ \A k \in 1..MaxReorgDepth, b \in Blocks :
       Number[b] >= k => AncestorAt[k][b] = AncestorAt[k - 1][Parent[b]]

ASSUME BoundAssumption ==
  /\ FaultKinds \subseteq {"upstream", "handler", "saveEvents", "updateBlockProgress"}
  /\ {MaxFaults, MaxRestarts, MaxServerStarts, MaxStray} \subseteq Nat
  /\ MaxCopies \in Nat \ {0}

VARIABLES
  \* the watcher's database
  progress,     \* block_progress rows: "absent", "incomplete" or "complete"
  isPruned,     \* the rows whose isPruned is set
  savedEvents,  \* the blocks whose rows are in the event table
  applied,      \* the blocks all of whose events have reached the entity tables
  syncStatus,   \* the sync_status row
  \* the job queue's database
  blockQueue,   \* QUEUE_BLOCK_PROCESSING: job -> copies queued
  eventQueue,   \* QUEUE_EVENT_PROCESSING: block -> copies queued
  completions,  \* completed jobs the server has not looked at yet
  \* the memory of the job-runner process
  running,           \* the process has started and subscribed to the queues
  worker,            \* the block-queue job being handled
  tasks,             \* the _indexBlock calls in flight
  eventWorker,       \* the event-queue job being handled
  blockAndEventsMap, \* the keys of _blockAndEventsMap
  \* the counters of the named bounds
  spent

dbVars == <<progress, isPruned, savedEvents, applied, syncStatus>>
queueVars == <<blockQueue, eventQueue, completions>>
memoryVars == <<running, worker, tasks, eventWorker, blockAndEventsMap>>
vars == <<dbVars, queueVars, memoryVars, spent>>

Heights == 0..MaxHeight
AtHeight(n) == {b \in Blocks : Number[b] = n}
Rows == {b \in Blocks : progress[b] # "absent"}
Complete == {b \in Blocks : progress[b] = "complete"}

NumberJob(n) == [kind |-> "number", height |-> n, block |-> NoBlock]
BlockJob(b) == [kind |-> "block", height |-> Number[b], block |-> b]
PruneJob(n) == [kind |-> "prune", height |-> n, block |-> NoBlock]
EventsJob(b) == [kind |-> "events", height |-> Number[b], block |-> b]
NoJob == [kind |-> "none", height |-> 0, block |-> NoBlock]

BlockQueueJobs == {NumberJob(n) : n \in Heights} \cup {BlockJob(b) : b \in Blocks}
                    \cup {PruneJob(n) : n \in Heights}
EventsJobs == {EventsJob(b) : b \in Blocks}

\* pushJob; more than MaxCopies copies of one job count as MaxCopies.
Push(queue, j) == [queue EXCEPT ![j] = IF @ < MaxCopies THEN @ + 1 ELSE @]

CanonicalNumber(status) == Number[status.latestCanonical]

\* "Chain pruning not caught up": the test of _indexBlock and of the server.
PruningBehind(status) ==
  /\ status.latestCanonical # NoBlock
  /\ status.latestIndexed - CanonicalNumber(status) > MaxReorgDepth

\* Mutant: one height too far.
PushPruningJobTooHigh(queue, status) ==
  Push(queue, PruneJob(CanonicalNumber(status) + 2))

\* createPruningJob
PushPruningJob(queue, status) == Push(queue, PruneJob(CanonicalNumber(status) + 1))

\* getBlocksAtHeight(n, false)
UnprunedAt(n) == {b \in Rows \ isPruned : Number[b] = n}

\* The row _saveBlockAndFetchEvents writes.
SavedRow(b) == IF b \in EmptyBlocks THEN "complete" ELSE "incomplete"

IdleWorker == [job |-> NoJob, step |-> "idle", blocks |-> {}, canonical |-> NoBlock]
IdleEventWorker == [block |-> NoBlock, step |-> "idle",
                    wasComplete |-> FALSE, wasPruned |-> FALSE]

NewTask(b) == [block |-> b, step |-> "start", isCanonical |-> FALSE,
               target |-> NoBlock, owned |-> TRUE]

Fault(kind) ==
  /\ kind \in FaultKinds
  /\ spent.faults < MaxFaults
  /\ spent' = [spent EXCEPT !.faults = @ + 1]

-----------------------------------------------------------------------------
(* The block queue's handler: processBlock. *)

\* markComplete
CompleteBlockJob ==
  /\ worker' = IdleWorker
  /\ completions' = completions \cup {worker.job}

\* The handler throws: the job is retried later.
RetryBlockJob ==
  /\ worker' = IdleWorker
  /\ blockQueue' = Push(blockQueue, worker.job)

TakeBlockJob(j) ==
  /\ running /\ worker.step = "idle" /\ blockQueue[j] > 0
  /\ Cardinality(tasks) <= MaxStray
  /\ blockQueue' = [blockQueue EXCEPT ![j] = @ - 1]
  /\ worker' = [IdleWorker EXCEPT !.job = j,
                  !.step = CASE j.kind = "number" -> "fetch"
                             [] j.kind = "block" -> "index"
                             [] j.kind = "prune" -> "prune"]
  /\ tasks' = IF j.kind = "block" THEN tasks \cup {NewTask(j.block)} ELSE tasks
  /\ UNCHANGED <<dbVars, eventQueue, completions, running, eventWorker,
                 blockAndEventsMap, spent>>

\* fetchBlocksAtHeight: one or more siblings; the first chain head ever seen
\* creates the sync status, with that block as the latest canonical one.
FetchBlocks ==
  /\ worker.step = "fetch"
  /\ \E siblings \in SUBSET AtHeight(worker.job.height) \ {{}} :
     \E first \in siblings :
       /\ tasks' = tasks \cup {NewTask(b) : b \in siblings}
       /\ syncStatus' =
            IF syncStatus.latestCanonical = NoBlock
            THEN [chainHead |-> Number[first], latestIndexed |-> -1,
                  latestCanonical |-> first]
            ELSE [syncStatus EXCEPT
                    !.chainHead = IF @ > Number[first] THEN @ ELSE Number[first]]
  /\ worker' = [worker EXCEPT !.step = "index"]
  /\ UNCHANGED <<progress, isPruned, savedEvents, applied, queueVars, running,
                 eventWorker, blockAndEventsMap, spent>>

\* Every _indexBlock call of the job has returned.
CompleteIndexJob ==
  /\ worker.step = "index"
  /\ \A t \in tasks : ~t.owned
  /\ CompleteBlockJob
  /\ UNCHANGED <<dbVars, blockQueue, eventQueue, running, tasks, eventWorker,
                 blockAndEventsMap, spent>>

\* An _indexBlock call throws.  Promise.all rejects, so the job fails and is
\* retried; the calls of its siblings go on with nobody waiting for them.  A
\* call nobody waits for throws into the void.
Throw(t, queue) ==
  IF t.owned
  THEN /\ tasks' = {[u EXCEPT !.owned = FALSE] : u \in tasks \ {t}}
       /\ worker' = IdleWorker
       /\ blockQueue' = Push(queue, worker.job)
  ELSE /\ tasks' = tasks \ {t}
       /\ worker' = worker
       /\ blockQueue' = queue

\* Transient failure of an upstream call or of a database call.
BlockJobFault ==
  /\ worker.step \in {"fetch", "prune", "mark", "canonical"}
  /\ Fault("upstream")
  /\ RetryBlockJob
  /\ UNCHANGED <<dbVars, eventQueue, completions, running, tasks, eventWorker,
                 blockAndEventsMap>>

TaskFault(t) ==
  /\ Fault("upstream")
  /\ Throw(t, blockQueue)
  /\ UNCHANGED <<dbVars, eventQueue, completions, running, eventWorker,
                 blockAndEventsMap>>

-----------------------------------------------------------------------------
(* _indexBlock, one step for each stretch between two awaits. *)

Become(t, u) == tasks' = (tasks \ {t}) \cup {u}

\* Mutant: the call returns, and its job completes.
AskForPruningOnce(t) ==
  /\ tasks' = tasks \ {t}
  /\ blockQueue' = PushPruningJob(blockQueue, syncStatus)
  /\ UNCHANGED worker

\* "Chain pruning not caught up yet": the job will be retried.
AskForPruning(t) == Throw(t, PushPruningJob(blockQueue, syncStatus))

\* getSyncStatus and the assertions; "Check if chain pruning is caught up".
CheckPruning(t) ==
  /\ t.step = "start"
  /\ IF Number[t.block] = 0
     THEN Throw(t, blockQueue)
     ELSE IF PruningBehind(syncStatus)
     THEN AskForPruning(t)
     ELSE /\ Become(t, [t EXCEPT !.step = "read",
                          !.isCanonical = (t.block = syncStatus.latestCanonical)])
          /\ UNCHANGED <<worker, blockQueue>>
  /\ UNCHANGED <<dbVars, eventQueue, completions, running, eventWorker,
                 blockAndEventsMap, spent>>

\* Mutant: any row of the parent will do.
ParentFetched(p) == p \in Rows

\* The parent has a row and its indexing is complete.
ParentProcessed(p) == p \in Complete

\* getBlockProgressEntities for the parent and the block, lowest number first.
\* For the latest canonical block the first row found is taken as the block's.
ReadProgress(t) ==
  LET b == t.block
      p == Parent[b]
      firstRow == IF p \in Rows THEN p ELSE b
  IN
  /\ t.step = "read"
  /\ Become(t,
       IF t.isCanonical
       THEN IF {p, b} \cap Rows = {}
            THEN [t EXCEPT !.step = "save"]
            ELSE [t EXCEPT !.step = "push", !.target = firstRow]
       ELSE IF ~ParentProcessed(p)
            THEN [t EXCEPT !.step = "parent"]
            ELSE IF b \in Rows
            THEN [t EXCEPT !.step = "push", !.target = b]
            ELSE [t EXCEPT !.step = "save"])
  /\ UNCHANGED <<dbVars, queueVars, running, worker, eventWorker,
                 blockAndEventsMap, spent>>

\* The parent was missing or incomplete: push a job for it and return.
PushParentJob(t) ==
  /\ t.step = "parent"
  /\ blockQueue' = Push(blockQueue, BlockJob(Parent[t.block]))
  /\ tasks' = tasks \ {t}
  /\ UNCHANGED <<dbVars, eventQueue, completions, running, worker, eventWorker,
                 blockAndEventsMap, spent>>

\* The block had no row: take it from the map, or save it.  A row that another
\* call saved since the read makes the insert fail (unique blockHash).
SaveBlock(t) ==
  LET b == t.block IN
  /\ t.step = "save"
  /\ IF b \notin blockAndEventsMap /\ b \in Rows
     THEN /\ Throw(t, blockQueue)
          /\ UNCHANGED <<progress, applied, blockAndEventsMap>>
     ELSE /\ Become(t, [t EXCEPT !.step = "push", !.target = b])
          /\ UNCHANGED <<worker, blockQueue>>
          /\ IF b \in blockAndEventsMap
             THEN UNCHANGED <<progress, applied, blockAndEventsMap>>
             ELSE /\ progress' = [progress EXCEPT ![b] = SavedRow(b)]
                  /\ applied' = applied \cup ({b} \cap EmptyBlocks)
                  /\ blockAndEventsMap' = blockAndEventsMap \cup {b}
  /\ UNCHANGED <<isPruned, savedEvents, syncStatus, eventQueue, completions,
                 running, eventWorker, spent>>

\* processBlock, then "Push job to event processing queue".
PushEventsJob(t) ==
  /\ t.step = "push"
  /\ eventQueue' = Push(eventQueue, t.target)
  /\ tasks' = tasks \ {t}
  /\ UNCHANGED <<dbVars, blockQueue, completions, running, worker, eventWorker,
                 blockAndEventsMap, spent>>

-----------------------------------------------------------------------------
(* _pruneChain. *)

\* The two reads and the guards.  A height that is canonical already is left
\* alone and the job completes.
ReadPruneHeight ==
  LET h == worker.job.height
      unpruned == UnprunedAt(h)
  IN
  /\ worker.step = "prune"
  /\ IF syncStatus.latestIndexed < h + MaxReorgDepth
     THEN RetryBlockJob /\ UNCHANGED completions
     ELSE IF CanonicalNumber(syncStatus) >= h
     THEN CompleteBlockJob /\ UNCHANGED blockQueue
     ELSE IF unpruned = {}
     THEN RetryBlockJob /\ UNCHANGED completions
     ELSE /\ worker' = [worker EXCEPT !.step = "mark", !.blocks = unpruned]
          /\ UNCHANGED <<blockQueue, completions>>
  /\ UNCHANGED <<dbVars, eventQueue, running, tasks, eventWorker,
                 blockAndEventsMap, spent>>

\* Mutants: the indexed block itself; another block of the height; prune them all.
IndexedBlockItself(indexedBlock) == indexedBlock
SiblingAtPruneHeight(indexedBlock) ==
  CHOOSE b \in worker.blocks : b # AncestorAt[MaxReorgDepth][indexedBlock]
AllBlocksAtHeight(ancestor) == worker.blocks

\* getAncestorAtDepth
AncestorAtPruneHeight(indexedBlock) == AncestorAt[MaxReorgDepth][indexedBlock]

BlocksToBePruned(ancestor) == worker.blocks \ {ancestor}

\* More than one block: keep the ancestor of the first indexed block at the
\* reorg depth above, in whatever order the database returns those blocks.
MarkBlocksAsPruned ==
  LET h == worker.job.height
      heads == UnprunedAt(h + MaxReorgDepth)
  IN
  /\ worker.step = "mark"
  /\ IF Cardinality(worker.blocks) = 1
     THEN /\ worker' = [worker EXCEPT !.step = "canonical",
                          !.canonical = CHOOSE b \in worker.blocks : TRUE]
          /\ UNCHANGED <<isPruned, blockQueue>>
     ELSE IF heads = {}
     THEN RetryBlockJob /\ UNCHANGED isPruned
     ELSE \E indexedBlock \in heads :
            LET ancestor == AncestorAtPruneHeight(indexedBlock) IN
            /\ isPruned' = isPruned \cup BlocksToBePruned(ancestor)
            /\ worker' = [worker EXCEPT !.step = "canonical", !.canonical = ancestor]
            /\ UNCHANGED blockQueue
  /\ UNCHANGED <<progress, savedEvents, applied, syncStatus, eventQueue,
                 completions, running, tasks, eventWorker, blockAndEventsMap, spent>>

UpdateCanonicalBlock ==
  /\ worker.step = "canonical"
  /\ syncStatus' = IF worker.job.height >= CanonicalNumber(syncStatus)
                   THEN [syncStatus EXCEPT !.latestCanonical = worker.canonical]
                   ELSE syncStatus
  /\ CompleteBlockJob
  /\ UNCHANGED <<progress, isPruned, savedEvents, applied, blockQueue, eventQueue,
                 running, tasks, eventWorker, blockAndEventsMap, spent>>

-----------------------------------------------------------------------------
(* The event queue's handler: processEvent, _processEvents.  The loop over *)
(* the events is one step here.                                            *)

\* getBlockProgress
TakeEventsJob(b) ==
  /\ running /\ eventWorker.step = "idle" /\ eventQueue[b] > 0
  /\ b \in Rows
  /\ eventQueue' = [eventQueue EXCEPT ![b] = @ - 1]
  /\ eventWorker' = [block |-> b,
                     step |-> IF b \in blockAndEventsMap THEN "events" ELSE "refetch",
                     wasComplete |-> b \in Complete,
                     wasPruned |-> b \in isPruned]
  /\ UNCHANGED <<dbVars, blockQueue, completions, running, worker, tasks,
                 blockAndEventsMap, spent>>

\* Events not in the map are fetched again, which writes the row anew.
RefetchEvents ==
  LET b == eventWorker.block IN
  /\ eventWorker.step = "refetch"
  /\ progress' = [progress EXCEPT ![b] = SavedRow(b)]
  /\ blockAndEventsMap' = blockAndEventsMap \cup {b}
  /\ eventWorker' = [eventWorker EXCEPT !.step = "events"]
  /\ UNCHANGED <<isPruned, savedEvents, applied, syncStatus, queueVars, running,
                 worker, tasks, spent>>

\* updateBlockProgress writes the whole row the handler holds in memory, the
\* isPruned it read at the start included.
WriteRow(b, state) ==
  /\ progress' = [progress EXCEPT ![b] = state]
  /\ isPruned' = IF eventWorker.wasPruned THEN isPruned \cup {b} ELSE isPruned \ {b}

\* The events have all been applied; updateBlockProgress and saveEvents run in
\* two transactions.  Event rows that are there already make saveEvents fail
\* (unique block and index): the row is written but the job is never marked
\* complete; it is retried, and fails the same way, until its retries run out.
FinishEvents ==
  LET b == eventWorker.block
      duplicate == b \in savedEvents \ EmptyBlocks
  IN
  /\ eventWorker.step = "events"
  /\ WriteRow(b, "complete")
  /\ applied' = applied \cup {b}
  /\ savedEvents' = savedEvents \cup {b}
  /\ IF duplicate
     THEN /\ eventQueue' \in {eventQueue, Push(eventQueue, b)}
          /\ UNCHANGED <<blockAndEventsMap, completions>>
     ELSE /\ blockAndEventsMap' = blockAndEventsMap \ {b}
          /\ completions' = completions \cup {EventsJob(b)}
          /\ UNCHANGED eventQueue
  /\ eventWorker' = IdleEventWorker
  /\ UNCHANGED <<syncStatus, blockQueue, running, worker, tasks, spent>>

RetryEvents ==
  /\ eventQueue' = Push(eventQueue, eventWorker.block)
  /\ eventWorker' = IdleEventWorker

\* An event handler, or the upstream call of the refetch, fails part way; the
\* events before it may have updated the row.
FailEvents ==
  /\ eventWorker.step \in {"refetch", "events"}
  /\ Fault("handler")
  /\ \/ /\ eventWorker.step = "events"
        /\ WriteRow(eventWorker.block,
             IF eventWorker.wasComplete THEN "complete" ELSE "incomplete")
     \/ UNCHANGED <<progress, isPruned>>
  /\ RetryEvents
  /\ UNCHANGED <<savedEvents, applied, syncStatus, blockQueue, completions, running,
                 worker, tasks, blockAndEventsMap>>

\* One of the two final transactions commits and the other fails.
CommitPartly ==
  LET b == eventWorker.block IN
  /\ eventWorker.step = "events"
  /\ \/ /\ Fault("saveEvents")
        /\ WriteRow(b, "complete")
        /\ UNCHANGED savedEvents
     \/ /\ Fault("updateBlockProgress")
        /\ b \notin savedEvents
        /\ savedEvents' = savedEvents \cup {b}
        /\ UNCHANGED <<progress, isPruned>>
  /\ applied' = applied \cup {b}
  /\ RetryEvents
  /\ UNCHANGED <<syncStatus, blockQueue, completions, running, worker, tasks,
                 blockAndEventsMap>>

-----------------------------------------------------------------------------
(* The server process: its EventWatcher reacts to completed jobs. *)

\* Mutants: the height after; the height, even below the latest indexed one.
IndexedPast(n) == [syncStatus EXCEPT !.latestIndexed = IF @ > n THEN @ ELSE n + 1]
IndexedForced(n) == [syncStatus EXCEPT !.latestIndexed = n]

\* updateSyncStatusIndexedBlock
Indexed(n) == [syncStatus EXCEPT !.latestIndexed = IF @ > n THEN @ ELSE n]

OnIndexComplete(j) ==
  LET status == Indexed(j.height) IN
  /\ j \in completions /\ j.kind \in {"number", "block"}
  /\ completions' = completions \ {j}
  /\ IF UnprunedAt(j.height) = {}
     THEN UNCHANGED <<syncStatus, blockQueue>>
     ELSE /\ syncStatus' = status
          /\ blockQueue' = IF PruningBehind(status)
                           THEN PushPruningJob(blockQueue, status) ELSE blockQueue
  /\ UNCHANGED <<progress, isPruned, savedEvents, applied, eventQueue, memoryVars,
                 spent>>

OnPruneComplete(j) ==
  /\ j \in completions /\ j.kind = "prune"
  /\ completions' = completions \ {j}
  /\ blockQueue' = IF PruningBehind(syncStatus)
                   THEN PushPruningJob(blockQueue, syncStatus) ELSE blockQueue
  /\ UNCHANGED <<dbVars, eventQueue, memoryVars, spent>>

\* "index the next consecutive blockNumber"
OnEventsComplete(j) ==
  /\ j \in completions /\ j.kind = "events"
  /\ completions' = completions \ {j}
  /\ blockQueue' = IF j.block \in Complete /\ j.height < MaxHeight
                   THEN Push(blockQueue, NumberJob(j.height + 1)) ELSE blockQueue
  /\ UNCHANGED <<dbVars, eventQueue, memoryVars, spent>>

\* A starting server asks for the block after the chain head.
ServerStart ==
  /\ spent.serverStarts < MaxServerStarts
  /\ spent' = [spent EXCEPT !.serverStarts = @ + 1]
  /\ LET next == IF syncStatus.latestCanonical = NoBlock
                 THEN StartNumber ELSE syncStatus.chainHead + 1
     IN blockQueue' = IF next <= MaxHeight
                      THEN Push(blockQueue, NumberJob(next)) ELSE blockQueue
  /\ UNCHANGED <<dbVars, eventQueue, completions, memoryVars>>

-----------------------------------------------------------------------------
(* Crashes and restarts of the job runner. *)

Crash ==
  /\ running
  /\ spent.restarts < MaxRestarts
  /\ spent' = [spent EXCEPT !.restarts = @ + 1]
  /\ running' = FALSE
  /\ worker' = IdleWorker
  /\ tasks' = {}
  /\ eventWorker' = IdleEventWorker
  /\ blockAndEventsMap' = {}
  /\ UNCHANGED <<dbVars, queueVars>>

\* resetToPrevIndexedBlock goes to the height before the latest indexed one.
ResetHeight == syncStatus.latestIndexed - 1

\* resetWatcherToBlock refuses a height without blocks or with an incomplete one.
CanReset == UnprunedAt(ResetHeight) # {} /\ UnprunedAt(ResetHeight) \subseteq Complete

\* Mutant: the entities of the block itself go as well.
EntitiesBelow(b) == applied \cap {c \in Blocks : Number[c] < Number[b]}

EntitiesUpTo(b) == applied \cap {c \in Blocks : Number[c] <= Number[b]}

\* Rows above the height go, with their events and entities.
ResetWatcher(b) ==
  LET kept == {c \in Blocks : Number[c] <= Number[b]} IN
  /\ progress' = [c \in Blocks |-> IF c \in kept THEN progress[c] ELSE "absent"]
  /\ isPruned' = isPruned \cap kept
  /\ savedEvents' = savedEvents \cap kept
  /\ applied' = EntitiesUpTo(b)
  /\ syncStatus' = [chainHead |-> Number[b], latestIndexed |-> Number[b],
                    latestCanonical |-> IF CanonicalNumber(syncStatus) > Number[b]
                                        THEN b ELSE syncStatus.latestCanonical]

\* start: deleteAllJobs, resetToPrevIndexedBlock, subscribe.  If the reset is
\* refused start rejects, and the process subscribes to nothing.
Start ==
  /\ ~running
  /\ blockQueue' = [j \in BlockQueueJobs |-> 0]
  /\ eventQueue' = [b \in Blocks |-> 0]
  /\ completions' = {}
  /\ \/ /\ syncStatus.latestCanonical = NoBlock
        /\ running' = TRUE
        /\ UNCHANGED dbVars
     \/ /\ syncStatus.latestCanonical # NoBlock
        /\ CanReset
        /\ running' = TRUE
        /\ \E b \in UnprunedAt(ResetHeight) : ResetWatcher(b)
     \/ /\ syncStatus.latestCanonical # NoBlock
        /\ ~CanReset
        /\ UNCHANGED <<running, dbVars>>
  /\ UNCHANGED <<worker, tasks, eventWorker, blockAndEventsMap, spent>>

-----------------------------------------------------------------------------
Init ==
  /\ progress = [b \in Blocks |-> "absent"]
  /\ isPruned = {} /\ savedEvents = {} /\ applied = {}
  /\ syncStatus = [chainHead |-> -1, latestIndexed |-> -1, latestCanonical |-> NoBlock]
  /\ blockQueue = [j \in BlockQueueJobs |-> 0]
  /\ eventQueue = [b \in Blocks |-> 0]
  /\ completions = {}
  /\ running = TRUE
  /\ worker = IdleWorker /\ tasks = {} /\ eventWorker = IdleEventWorker
  /\ blockAndEventsMap = {}
  /\ spent = [faults |-> 0, restarts |-> 0, serverStarts |-> 0]

IndexBlock(t) ==
  \/ CheckPruning(t) \/ ReadProgress(t) \/ PushParentJob(t)
  \/ SaveBlock(t) \/ PushEventsJob(t)

PruneChain == ReadPruneHeight \/ MarkBlocksAsPruned \/ UpdateCanonicalBlock

Server ==
  \/ \E j \in completions :
       OnIndexComplete(j) \/ OnPruneComplete(j) \/ OnEventsComplete(j)
  \/ ServerStart

Next ==
  \/ \E j \in BlockQueueJobs : TakeBlockJob(j)
  \/ FetchBlocks
  \/ \E t \in tasks : IndexBlock(t) \/ TaskFault(t)
  \/ CompleteIndexJob
  \/ BlockJobFault
  \/ PruneChain
  \/ \E b \in Blocks : TakeEventsJob(b)
  \/ RefetchEvents \/ FinishEvents \/ FailEvents \/ CommitPartly
  \/ Server
  \/ Crash \/ Start

Spec == Init /\ [][Next]_vars
-----------------------------------------------------------------------------
(* Types. *)

Statuses == [chainHead : -1..MaxHeight, latestIndexed : -1..MaxHeight,
             latestCanonical : Blocks \cup {NoBlock}]
Tasks == [block : Blocks, step : {"start", "read", "parent", "save", "push"},
          isCanonical : BOOLEAN, target : Blocks \cup {NoBlock}, owned : BOOLEAN]
Workers == [job : BlockQueueJobs \cup {NoJob},
            step : {"idle", "fetch", "index", "prune", "mark", "canonical"},
            blocks : SUBSET Blocks, canonical : Blocks \cup {NoBlock}]
EventWorkers == [block : Blocks \cup {NoBlock}, step : {"idle", "refetch", "events"},
                 wasComplete : BOOLEAN, wasPruned : BOOLEAN]
Spent == [faults : 0..MaxFaults, restarts : 0..MaxRestarts,
          serverStarts : 0..MaxServerStarts]

\* Every table, queue and piece of process memory holds what its code puts there.
TypeOK ==
  /\ progress \in [Blocks -> {"absent", "incomplete", "complete"}]
  /\ isPruned \subseteq Blocks /\ savedEvents \subseteq Blocks /\ applied \subseteq Blocks
  /\ syncStatus \in Statuses
  /\ blockQueue \in [BlockQueueJobs -> 0..MaxCopies]
  /\ eventQueue \in [Blocks -> 0..MaxCopies]
  /\ completions \subseteq BlockQueueJobs \cup EventsJobs
  /\ running \in BOOLEAN
  /\ worker \in Workers
  /\ tasks \subseteq Tasks
  /\ eventWorker \in EventWorkers
  /\ blockAndEventsMap \subseteq Blocks
  /\ spent \in Spent

-----------------------------------------------------------------------------
(* Properties. *)

\* Blocks are processed parents first, whatever the order in which siblings,
\* parent jobs, retries and restarts reach _indexBlock: a block that has a row,
\* or whose events are queued or being processed, has a parent all of whose
\* events have reached the entity tables.
ParentsFirst ==
  \A b \in Blocks :
    b \in Rows \/ eventQueue[b] > 0 \/ eventWorker.block = b
      => Number[b] = StartNumber \/ Parent[b] \in applied

\* Two blocks of one height never differ deeper than the reorg depth.
ShallowForks ==
  \A x, y \in Blocks : /\ Number[x] = Number[y]
                       /\ Number[x] >= StartNumber + MaxReorgDepth
    => AncestorAt[MaxReorgDepth][x] = AncestorAt[MaxReorgDepth][y]

\* While reorgs stay within MAX_REORG_DEPTH, the block _pruneChain makes
\* canonical is one it keeps: it has a row, and neither a repeated prune job nor
\* the row an event handler writes back ever leaves it pruned.
CanonicalUnpruned ==
  LET c == syncStatus.latestCanonical IN
  ShallowForks /\ c # NoBlock
    => c \notin isPruned /\ (c \in Rows \/ Number[c] = StartNumber)

\* _pruneChain never makes a block of the frothy region canonical: a canonical
\* block above the start lies the reorg depth below the latest indexed height,
\* up to the one height each restart steps back.
CanonicalDeep ==
  LET status == syncStatus IN
  status.latestCanonical # NoBlock =>
    \/ CanonicalNumber(status) = StartNumber
    \/ CanonicalNumber(status) + MaxReorgDepth <= status.latestIndexed + spent.restarts

\* While reorgs stay within MAX_REORG_DEPTH, and restarts do not eat into the
\* canonical region, the canonical pointer climbs one chain, child by child.
CanonicalChain ==
  [][LET old == syncStatus.latestCanonical
         new == syncStatus'.latestCanonical
     IN /\ ShallowForks /\ spent.restarts <= MaxReorgDepth
        /\ running /\ old # NoBlock /\ new # old
        => Parent[new] = old]_syncStatus

-----------------------------------------------------------------------------
(* Liveness.  pg-boss polls as long as the process runs, every promise      *)
(* settles, and a prune job has a higher priority than the index job whose  *)
(* retry asked for it, so that it is not passed over for ever.              *)

Fairness ==
  /\ WF_vars(\E j \in BlockQueueJobs : TakeBlockJob(j))
  /\ \A n \in Heights : SF_vars(TakeBlockJob(PruneJob(n)))
  /\ \A b \in Blocks : SF_vars(TakeEventsJob(b))
  /\ WF_vars(FetchBlocks)
  /\ WF_vars(CompleteIndexJob)
  /\ WF_vars(\E t \in tasks : IndexBlock(t))
  /\ WF_vars(PruneChain)
  /\ WF_vars(RefetchEvents \/ FinishEvents)
  /\ WF_vars(Server)
  /\ WF_vars(Start)

FairSpec == Spec /\ Fairness

\* Through transient failures and retries, a saveEvents that fails when the row is
\* written already among them, a chain without forks is processed up to the last block
\* upstream has: no job is lost between the two queues.
TipReached == <>[](AtHeight(MaxHeight) \cap Complete # {})

\* An index job that finds pruning behind fails and asks for pruning; the
\* pruning it waits for happens, and it is not blocked by its own retries.
PrunedInTime == PruningBehind(syncStatus) ~> ~PruningBehind(syncStatus)

-----------------------------------------------------------------------------
(* What comments and tests say of the code, and the code does not do. *)

\* chain-pruning.test.ts: "Only one canonical (not pruned) block should exist at
\* the pruned height."  Stated of the latest canonical height.
OneUnprunedAtCanonicalHeight ==
  syncStatus.latestCanonical # NoBlock =>
    UnprunedAt(CanonicalNumber(syncStatus)) \subseteq {syncStatus.latestCanonical}

\* resetToPrevIndexedBlock: only the latest indexed block may have unprocessed
\* events, so the height below it is a safe one to restart from.
ResetHeightComplete == UnprunedAt(ResetHeight) \subseteq Complete

\* _indexBlock: "the block will be processed after parent block processing".
\* Stated of the last height, where upstream has one block.
AbortedBlockIsProcessed ==
  \A b \in AtHeight(MaxHeight) :
    (\E t \in tasks : t.block = b /\ t.step = "parent") ~> b \in applied
=============================================================================
