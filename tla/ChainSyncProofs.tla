--------------------------- MODULE ChainSyncProofs ---------------------------
(***************************************************************************)
(* Theorems about ChainSync, for every block tree, reorg depth and bound:  *)
(* its types, and that it processes parents before their children.         *)
(***************************************************************************)
EXTENDS ChainSync, FiniteSetTheorems, TLAPS

-----------------------------------------------------------------------------
(* Types. *)

\* A job that is being handled is one the queue can hold.
WorkerHasJob == worker.step # "idle" => worker.job \in BlockQueueJobs

\* Events are processed for a block.
EventWorkerHasBlock == eventWorker.step # "idle" => eventWorker.block \in Blocks

TypeInv == TypeOK /\ WorkerHasJob /\ EventWorkerHasBlock

LEMMA Inhabited ==
  ASSUME NEW S, Cardinality(S) = 1
  PROVE  S # {}
<1>1. ASSUME S = {} PROVE Cardinality(S) = 0
  BY <1>1, FS_EmptySet
<1>2. QED BY <1>1

\* Pushing a job keeps the counts of a queue within the bound.
LEMMA PushType ==
  ASSUME NEW S, NEW queue \in [S -> 0..MaxCopies], NEW j
  PROVE  Push(queue, j) \in [S -> 0..MaxCopies]
<1>1. CASE j \in S
  <2>1. queue[j] \in 0..MaxCopies /\ MaxCopies \in Nat
    BY <1>1, BoundAssumption
  <2>2. (IF queue[j] < MaxCopies THEN queue[j] + 1 ELSE queue[j]) \in 0..MaxCopies
    BY <2>1
  <2>3. QED BY <1>1, <2>2 DEF Push
<1>2. CASE j \notin S
  BY <1>2 DEF Push
<1>3. QED BY <1>1, <1>2

LEMMA TakeType ==
  ASSUME NEW S, NEW queue \in [S -> 0..MaxCopies], NEW j \in S, queue[j] > 0
  PROVE  [queue EXCEPT ![j] = @ - 1] \in [S -> 0..MaxCopies]
<1>1. queue[j] \in 0..MaxCopies /\ MaxCopies \in Nat
  BY BoundAssumption
<1>2. queue[j] - 1 \in 0..MaxCopies
  BY <1>1
<1>3. QED BY <1>2

LEMMA PruningJobType ==
  ASSUME NEW S, NEW queue \in [S -> 0..MaxCopies], NEW status
  PROVE  PushPruningJob(queue, status) \in [S -> 0..MaxCopies]
  BY PushType DEF PushPruningJob

LEMMA NumberType ==
  ASSUME NEW b \in Blocks
  PROVE  Number[b] \in 0..MaxHeight /\ Number[b] \in -1..MaxHeight
  BY ChainAssumption

\* Idle workers are workers.
LEMMA IdleTypes ==
  /\ IdleWorker \in Workers
  /\ IdleEventWorker \in EventWorkers
  BY DEF IdleWorker, IdleEventWorker, Workers, EventWorkers

LEMMA NewTaskType ==
  ASSUME NEW b \in Blocks
  PROVE  NewTask(b) \in Tasks
  BY DEF NewTask, Tasks

\* A call that throws leaves queue, worker and tasks well formed.
LEMMA ThrowType ==
  ASSUME TypeInv, NEW t \in tasks, NEW queue \in [BlockQueueJobs -> 0..MaxCopies],
         Throw(t, queue)
  PROVE  /\ tasks' \subseteq Tasks
         /\ worker' = worker \/ worker' = IdleWorker
         /\ blockQueue' \in [BlockQueueJobs -> 0..MaxCopies]
<1>1. CASE t.owned
  <2>1. ASSUME NEW u \in Tasks
        PROVE  [u EXCEPT !.owned = FALSE] \in Tasks
    BY DEF Tasks
  <2>2. tasks' \subseteq Tasks
    BY <1>1, <2>1 DEF Throw, TypeInv, TypeOK
  <2>3. QED BY <1>1, <2>2, PushType DEF Throw
<1>2. CASE ~t.owned
  BY <1>2 DEF Throw, TypeInv, TypeOK
<1>3. QED BY <1>1, <1>2

LEMMA TypeInit == Init => TypeInv
  <1> SUFFICES ASSUME Init PROVE TypeInv OBVIOUS
  <1>1. syncStatus \in Statuses
    BY ChainAssumption DEF Init, Statuses
  <1>2. spent \in Spent
    BY BoundAssumption DEF Init, Spent
  <1>3. /\ blockQueue \in [BlockQueueJobs -> 0..MaxCopies]
        /\ eventQueue \in [Blocks -> 0..MaxCopies]
    BY BoundAssumption DEF Init
  <1>4. WorkerHasJob /\ EventWorkerHasBlock
    BY DEF Init, WorkerHasJob, IdleWorker, EventWorkerHasBlock, IdleEventWorker
  <1>5. QED BY <1>1, <1>2, <1>3, <1>4, IdleTypes DEF Init, TypeInv, TypeOK

LEMMA TypeBlockJobs ==
  ASSUME TypeInv,
         \/ \E j \in BlockQueueJobs : TakeBlockJob(j)
         \/ FetchBlocks \/ CompleteIndexJob \/ BlockJobFault
  PROVE  TypeInv'
<1> USE DEF TypeInv, TypeOK, WorkerHasJob, EventWorkerHasBlock, dbVars, queueVars
<1>1. ASSUME NEW j \in BlockQueueJobs, TakeBlockJob(j) PROVE TypeInv'
  <2>1. blockQueue' \in [BlockQueueJobs -> 0..MaxCopies]
    BY <1>1, TakeType DEF TakeBlockJob
  <2>2. j.kind \in {"number", "block", "prune"} /\ (j.kind = "block" => j.block \in Blocks)
    BY DEF BlockQueueJobs, NumberJob, BlockJob, PruneJob
  <2>3. worker' \in Workers /\ worker'.job = j
    BY <1>1, <2>2 DEF TakeBlockJob, Workers, IdleWorker
  <2>4. tasks' \subseteq Tasks
    BY <1>1, <2>2, NewTaskType DEF TakeBlockJob
  <2>5. QED BY <1>1, <2>1, <2>3, <2>4 DEF TakeBlockJob
<1>2. ASSUME FetchBlocks PROVE TypeInv'
  <2>1. tasks' \subseteq Tasks
    BY <1>2, NewTaskType DEF FetchBlocks, AtHeight
  <2>2. syncStatus' \in Statuses
    <3>1. PICK first \in Blocks : syncStatus' =
            IF syncStatus.latestCanonical = NoBlock
            THEN [chainHead |-> Number[first], latestIndexed |-> -1,
                  latestCanonical |-> first]
            ELSE [syncStatus EXCEPT
                    !.chainHead = IF @ > Number[first] THEN @ ELSE Number[first]]
      BY <1>2 DEF FetchBlocks, AtHeight
    <3>2. Number[first] \in -1..MaxHeight /\ MaxHeight \in Nat
      BY NumberType, ChainAssumption
    <3>3. QED BY <3>1, <3>2 DEF Statuses
  <2>3. worker' \in Workers /\ worker'.job = worker.job /\ worker.step # "idle"
    BY <1>2 DEF FetchBlocks, Workers
  <2>4. QED BY <1>2, <2>1, <2>2, <2>3 DEF FetchBlocks
<1>3. ASSUME CompleteIndexJob PROVE TypeInv'
  <2>1. completions' \subseteq BlockQueueJobs \cup EventsJobs
    BY <1>3 DEF CompleteIndexJob, CompleteBlockJob
  <2>2. QED BY <1>3, <2>1, IdleTypes DEF CompleteIndexJob, CompleteBlockJob, IdleWorker
<1>4. ASSUME BlockJobFault PROVE TypeInv'
  <2>1. blockQueue' \in [BlockQueueJobs -> 0..MaxCopies]
    BY <1>4, PushType DEF BlockJobFault, RetryBlockJob
  <2>2. spent' \in Spent
    BY <1>4, BoundAssumption DEF BlockJobFault, Fault, Spent
  <2>3. QED
    BY <1>4, <2>1, <2>2, IdleTypes DEF BlockJobFault, RetryBlockJob, Fault, IdleWorker
<1>5. QED BY <1>1, <1>2, <1>3, <1>4

LEMMA TypeIndexBlock ==
  ASSUME TypeInv, NEW t \in tasks, IndexBlock(t) \/ TaskFault(t)
  PROVE  TypeInv'
<1> USE DEF TypeInv, TypeOK, WorkerHasJob, EventWorkerHasBlock, dbVars, queueVars
<1>1. ASSUME NEW queue \in [BlockQueueJobs -> 0..MaxCopies], Throw(t, queue)
      PROVE  /\ tasks' \subseteq Tasks
             /\ worker' \in Workers
             /\ worker'.step # "idle" => worker'.job \in BlockQueueJobs
             /\ blockQueue' \in [BlockQueueJobs -> 0..MaxCopies]
  <2>1. IdleWorker.step = "idle"
    BY DEF IdleWorker
  <2>2. /\ tasks' \subseteq Tasks
        /\ worker' = worker \/ worker' = IdleWorker
        /\ blockQueue' \in [BlockQueueJobs -> 0..MaxCopies]
    BY <1>1, ThrowType
  <2>3. QED BY <2>1, <2>2, IdleTypes
<1>2. ASSUME NEW u \in Tasks, Become(t, u)
      PROVE  tasks' \subseteq Tasks
  BY <1>2 DEF Become
<1>3. ASSUME TaskFault(t) PROVE TypeInv'
  <2>1. spent' \in Spent
    BY <1>3, BoundAssumption DEF TaskFault, Fault, Spent
  <2>2. QED BY <1>1, <1>3, <2>1 DEF TaskFault
<1>4. ASSUME CheckPruning(t) PROVE TypeInv'
  <2>1. PushPruningJob(blockQueue, syncStatus) \in [BlockQueueJobs -> 0..MaxCopies]
    BY PruningJobType
  <2>2. [t EXCEPT !.step = "read", !.isCanonical = (t.block = syncStatus.latestCanonical)]
          \in Tasks
    BY DEF Tasks
  <2>3. /\ tasks' \subseteq Tasks
        /\ worker' \in Workers
        /\ worker'.step # "idle" => worker'.job \in BlockQueueJobs
        /\ blockQueue' \in [BlockQueueJobs -> 0..MaxCopies]
    BY <1>1, <1>2, <1>4, <2>1, <2>2 DEF CheckPruning, AskForPruning
  <2>4. QED BY <1>4, <2>3 DEF CheckPruning
<1>5. ASSUME ReadProgress(t) PROVE TypeInv'
  <2>1. tasks' \subseteq Tasks
    BY <1>2, <1>5 DEF ReadProgress, Tasks, Rows
  <2>2. QED BY <1>5, <2>1 DEF ReadProgress
<1>6. ASSUME PushParentJob(t) PROVE TypeInv'
  BY <1>6, PushType DEF PushParentJob
<1>7. ASSUME SaveBlock(t) PROVE TypeInv'
  <2>1. [t EXCEPT !.step = "push", !.target = t.block] \in Tasks /\ t.block \in Blocks
    BY DEF Tasks
  <2>2. /\ tasks' \subseteq Tasks
        /\ worker' \in Workers
        /\ worker'.step # "idle" => worker'.job \in BlockQueueJobs
        /\ blockQueue' \in [BlockQueueJobs -> 0..MaxCopies]
    BY <1>1, <1>2, <1>7, <2>1 DEF SaveBlock
  <2>3. /\ progress' \in [Blocks -> {"absent", "incomplete", "complete"}]
        /\ applied' \subseteq Blocks
        /\ blockAndEventsMap' \subseteq Blocks
    BY <1>7, <2>1 DEF SaveBlock, SavedRow
  <2>4. QED BY <1>7, <2>2, <2>3 DEF SaveBlock
<1>8. ASSUME PushEventsJob(t) PROVE TypeInv'
  BY <1>8, PushType DEF PushEventsJob
<1>9. QED BY <1>3, <1>4, <1>5, <1>6, <1>7, <1>8 DEF IndexBlock

LEMMA TypePruneChain ==
  ASSUME TypeInv, PruneChain
  PROVE  TypeInv'
<1> USE DEF TypeInv, TypeOK, WorkerHasJob, EventWorkerHasBlock, dbVars, queueVars
<1>1. ASSUME RetryBlockJob
      PROVE  /\ worker' \in Workers
             /\ worker'.step # "idle" => worker'.job \in BlockQueueJobs
             /\ blockQueue' \in [BlockQueueJobs -> 0..MaxCopies]
  BY <1>1, PushType, IdleTypes DEF RetryBlockJob, IdleWorker
<1>2. ASSUME CompleteBlockJob, worker.step # "idle"
      PROVE  /\ worker' \in Workers
             /\ worker'.step # "idle" => worker'.job \in BlockQueueJobs
             /\ completions' \subseteq BlockQueueJobs \cup EventsJobs
  BY <1>2, IdleTypes DEF CompleteBlockJob, IdleWorker
<1>3. ASSUME ReadPruneHeight PROVE TypeInv'
  <2>1. UnprunedAt(worker.job.height) \subseteq Blocks
    BY DEF UnprunedAt, Rows
  <2>2. worker.step # "idle"
    BY <1>3 DEF ReadPruneHeight
  <2>3. [worker EXCEPT !.step = "mark", !.blocks = UnprunedAt(worker.job.height)] \in Workers
    BY <2>1 DEF Workers
  <2>4. /\ worker' \in Workers
        /\ worker'.step # "idle" => worker'.job \in BlockQueueJobs
        /\ blockQueue' \in [BlockQueueJobs -> 0..MaxCopies]
        /\ completions' \subseteq BlockQueueJobs \cup EventsJobs
    BY <1>1, <1>2, <1>3, <2>2, <2>3 DEF ReadPruneHeight, Workers
  <2>5. QED BY <1>3, <2>4 DEF ReadPruneHeight
<1>4. ASSUME MarkBlocksAsPruned PROVE TypeInv'
  <2>1. worker.blocks \subseteq Blocks /\ worker.step = "mark"
    BY <1>4 DEF Workers, MarkBlocksAsPruned
  <2>2. CASE Cardinality(worker.blocks) = 1
    <3>1. worker.blocks # {}
      BY <2>2, Inhabited
    <3>2. (CHOOSE b \in worker.blocks : TRUE) \in Blocks
      BY <2>1, <3>1
    <3>3. /\ worker' = [worker EXCEPT !.step = "canonical",
                           !.canonical = CHOOSE b \in worker.blocks : TRUE]
          /\ isPruned' = isPruned
          /\ blockQueue' = blockQueue
      BY <1>4, <2>2 DEF MarkBlocksAsPruned
    <3>4. worker' \in Workers /\ worker'.job = worker.job
      BY <3>2, <3>3 DEF Workers
    <3>5. QED BY <1>4, <2>1, <3>3, <3>4 DEF MarkBlocksAsPruned
  <2>3. CASE /\ Cardinality(worker.blocks) # 1
             /\ UnprunedAt(worker.job.height + MaxReorgDepth) = {}
    <3>1. RetryBlockJob /\ isPruned' = isPruned
      BY <1>4, <2>3 DEF MarkBlocksAsPruned
    <3>2. QED BY <1>1, <1>4, <3>1 DEF MarkBlocksAsPruned
  <2>4. CASE /\ Cardinality(worker.blocks) # 1
             /\ UnprunedAt(worker.job.height + MaxReorgDepth) # {}
    <3>1. PICK x \in UnprunedAt(worker.job.height + MaxReorgDepth) :
            LET ancestor == AncestorAtPruneHeight(x) IN
            /\ isPruned' = isPruned \cup BlocksToBePruned(ancestor)
            /\ worker' = [worker EXCEPT !.step = "canonical", !.canonical = ancestor]
            /\ UNCHANGED blockQueue
      BY <1>4, <2>4 DEF MarkBlocksAsPruned
    <3>2. AncestorAtPruneHeight(x) \in Blocks \cup {NoBlock}
      BY DepthAssumption DEF AncestorAtPruneHeight, UnprunedAt, Rows
    <3>3. isPruned' \subseteq Blocks /\ worker' \in Workers /\ worker'.job = worker.job
      BY <2>1, <3>1, <3>2 DEF BlocksToBePruned, Workers
    <3>4. QED BY <1>4, <2>1, <3>1, <3>3 DEF MarkBlocksAsPruned
  <2>5. QED BY <2>2, <2>3, <2>4
<1>5. ASSUME UpdateCanonicalBlock PROVE TypeInv'
  <2>1. syncStatus' \in Statuses
    BY <1>5 DEF UpdateCanonicalBlock, Statuses, Workers
  <2>2. QED BY <1>2, <1>5, <2>1 DEF UpdateCanonicalBlock
<1>6. QED BY <1>3, <1>4, <1>5 DEF PruneChain

LEMMA TypeProcessEvents ==
  ASSUME TypeInv,
         \/ \E b \in Blocks : TakeEventsJob(b)
         \/ RefetchEvents \/ FinishEvents \/ FailEvents \/ CommitPartly
  PROVE  TypeInv'
<1> USE DEF TypeInv, TypeOK, WorkerHasJob, EventWorkerHasBlock, dbVars, queueVars
<1>1. ASSUME NEW b \in Blocks, TakeEventsJob(b) PROVE TypeInv'
  <2>1. eventQueue' \in [Blocks -> 0..MaxCopies]
    BY <1>1, TakeType DEF TakeEventsJob
  <2>2. eventWorker' \in EventWorkers
    BY <1>1 DEF TakeEventsJob, EventWorkers
  <2>3. QED BY <1>1, <2>1, <2>2 DEF TakeEventsJob
<1>2. ASSUME NEW state \in {"incomplete", "complete"}, eventWorker.block \in Blocks,
             WriteRow(eventWorker.block, state)
      PROVE  /\ progress' \in [Blocks -> {"absent", "incomplete", "complete"}]
             /\ isPruned' \subseteq Blocks
  BY <1>2 DEF WriteRow
<1>3. ASSUME RetryEvents, eventWorker.block \in Blocks
      PROVE  /\ eventQueue' \in [Blocks -> 0..MaxCopies]
             /\ eventWorker' \in EventWorkers
             /\ eventWorker'.step = "idle"
  BY <1>3, PushType, IdleTypes DEF RetryEvents, IdleEventWorker
<1>4. ASSUME NEW kind, Fault(kind) PROVE spent' \in Spent
  BY <1>4, BoundAssumption DEF Fault, Spent
<1>5. ASSUME RefetchEvents PROVE TypeInv'
  <2>1. eventWorker.block \in Blocks
    BY <1>5 DEF RefetchEvents
  <2>2. /\ progress' \in [Blocks -> {"absent", "incomplete", "complete"}]
        /\ blockAndEventsMap' \subseteq Blocks
        /\ eventWorker' \in EventWorkers
        /\ eventWorker'.block = eventWorker.block
    BY <1>5, <2>1 DEF RefetchEvents, SavedRow, EventWorkers
  <2>3. QED BY <1>5, <2>1, <2>2 DEF RefetchEvents
<1>6. ASSUME FinishEvents PROVE TypeInv'
  <2>1. eventWorker.block \in Blocks
    BY <1>6 DEF FinishEvents
  <2>2. /\ progress' \in [Blocks -> {"absent", "incomplete", "complete"}]
        /\ isPruned' \subseteq Blocks
        /\ applied' \subseteq Blocks /\ savedEvents' \subseteq Blocks
    BY <1>2, <1>6, <2>1 DEF FinishEvents
  <2>3. /\ eventQueue' \in [Blocks -> 0..MaxCopies]
        /\ blockAndEventsMap' \subseteq Blocks
        /\ completions' \subseteq BlockQueueJobs \cup EventsJobs
    BY <1>6, <2>1, PushType DEF FinishEvents, EventsJobs
  <2>4. eventWorker' \in EventWorkers /\ eventWorker'.step = "idle"
    BY <1>6, IdleTypes DEF FinishEvents, IdleEventWorker
  <2>5. QED BY <1>6, <2>2, <2>3, <2>4 DEF FinishEvents
<1>7. ASSUME FailEvents PROVE TypeInv'
  <2>1. eventWorker.block \in Blocks
    BY <1>7 DEF FailEvents
  <2>2. /\ progress' \in [Blocks -> {"absent", "incomplete", "complete"}]
        /\ isPruned' \subseteq Blocks
    BY <1>2, <1>7, <2>1 DEF FailEvents
  <2>3. QED BY <1>3, <1>4, <1>7, <2>1, <2>2 DEF FailEvents
<1>8. ASSUME CommitPartly PROVE TypeInv'
  <2>1. eventWorker.block \in Blocks
    BY <1>8 DEF CommitPartly
  <2>2. /\ progress' \in [Blocks -> {"absent", "incomplete", "complete"}]
        /\ isPruned' \subseteq Blocks
        /\ applied' \subseteq Blocks /\ savedEvents' \subseteq Blocks
    BY <1>2, <1>8, <2>1 DEF CommitPartly
  <2>3. QED BY <1>3, <1>4, <1>8, <2>1, <2>2 DEF CommitPartly
<1>9. QED BY <1>1, <1>5, <1>6, <1>7, <1>8

LEMMA TypeServer ==
  ASSUME TypeInv, Server
  PROVE  TypeInv'
<1> USE DEF TypeInv, TypeOK, WorkerHasJob, EventWorkerHasBlock, dbVars, queueVars, memoryVars
<1>1. ASSUME NEW j \in completions, OnIndexComplete(j) PROVE TypeInv'
  <2>1. j.height \in 0..MaxHeight
    BY NumberType DEF BlockQueueJobs, EventsJobs, NumberJob, BlockJob, PruneJob, EventsJob,
                      Heights
  <2>2. Indexed(j.height) \in Statuses
    BY <2>1, ChainAssumption DEF Indexed, Statuses
  <2>3. syncStatus' \in Statuses /\ blockQueue' \in [BlockQueueJobs -> 0..MaxCopies]
    BY <1>1, <2>2, PruningJobType DEF OnIndexComplete
  <2>4. QED BY <1>1, <2>3 DEF OnIndexComplete
<1>2. ASSUME NEW j \in completions, OnPruneComplete(j) PROVE TypeInv'
  BY <1>2, PruningJobType DEF OnPruneComplete
<1>3. ASSUME NEW j \in completions, OnEventsComplete(j) PROVE TypeInv'
  BY <1>3, PushType DEF OnEventsComplete
<1>4. ASSUME ServerStart PROVE TypeInv'
  <2>1. spent' \in Spent
    BY <1>4, BoundAssumption DEF ServerStart, Spent
  <2>2. blockQueue' \in [BlockQueueJobs -> 0..MaxCopies]
    BY <1>4, PushType DEF ServerStart
  <2>3. QED BY <1>4, <2>1, <2>2 DEF ServerStart
<1>5. QED BY <1>1, <1>2, <1>3, <1>4 DEF Server

LEMMA TypeRestart ==
  ASSUME TypeInv, Crash \/ Start
  PROVE  TypeInv'
<1> USE DEF TypeInv, TypeOK, WorkerHasJob, EventWorkerHasBlock, dbVars, queueVars
<1>1. ASSUME Crash PROVE TypeInv'
  <2>1. spent' \in Spent
    BY <1>1, BoundAssumption DEF Crash, Spent
  <2>2. worker'.step = "idle" /\ eventWorker'.step = "idle"
    BY <1>1 DEF Crash, IdleWorker, IdleEventWorker
  <2>3. QED BY <1>1, <2>1, <2>2, IdleTypes DEF Crash
<1>2. ASSUME Start PROVE TypeInv'
  <2>1. /\ blockQueue' \in [BlockQueueJobs -> 0..MaxCopies]
        /\ eventQueue' \in [Blocks -> 0..MaxCopies]
        /\ completions' = {}
    BY <1>2, BoundAssumption DEF Start
  <2>2. ASSUME NEW b \in UnprunedAt(ResetHeight), ResetWatcher(b)
        PROVE  /\ progress' \in [Blocks -> {"absent", "incomplete", "complete"}]
               /\ isPruned' \subseteq Blocks /\ savedEvents' \subseteq Blocks
               /\ applied' \subseteq Blocks
               /\ syncStatus' \in Statuses
    <3>1. b \in Blocks
      BY DEF UnprunedAt, Rows
    <3>2. Number[b] \in -1..MaxHeight
      BY <3>1, NumberType
    <3>3. syncStatus' \in Statuses
      BY <2>2, <3>1, <3>2 DEF ResetWatcher, Statuses
    <3>4. progress' \in [Blocks -> {"absent", "incomplete", "complete"}]
      BY <2>2 DEF ResetWatcher
    <3>5. QED BY <2>2, <3>3, <3>4 DEF ResetWatcher, EntitiesUpTo
  <2>3. running' \in BOOLEAN
    BY <1>2 DEF Start
  <2>4. CASE UNCHANGED dbVars
    BY <1>2, <2>1, <2>3, <2>4 DEF Start
  <2>5. CASE \E b \in UnprunedAt(ResetHeight) : ResetWatcher(b)
    BY <1>2, <2>1, <2>2, <2>3, <2>5 DEF Start
  <2>6. QED BY <1>2, <2>4, <2>5 DEF Start
<1>3. QED BY <1>1, <1>2

LEMMA TypeNext == TypeInv /\ [Next]_vars => TypeInv'
<1> SUFFICES ASSUME TypeInv, [Next]_vars PROVE TypeInv'
  OBVIOUS
<1>1. CASE UNCHANGED vars
  BY <1>1 DEF TypeInv, TypeOK, WorkerHasJob, EventWorkerHasBlock, vars, dbVars, queueVars,
              memoryVars
<1>2. CASE Next
  BY <1>2, TypeBlockJobs, TypeIndexBlock, TypePruneChain, TypeProcessEvents, TypeServer,
     TypeRestart DEF Next
<1>3. QED BY <1>1, <1>2

\* Whatever the tree and the bounds, tables, queues and memory stay well formed.
THEOREM Typing == Spec => []TypeOK
<1>1. TypeInv => TypeOK
  BY DEF TypeInv
<1>2. QED BY <1>1, TypeInit, TypeNext, PTL DEF Spec

-----------------------------------------------------------------------------
(* Parents first: the inductive invariant. *)

\* The block may be given a row.
Ready(b) ==
  \/ Number[b] = StartNumber
  \/ Number[b] > StartNumber /\ Parent[b] \in applied \cap Rows

RowsReady == \A b \in Rows : Ready(b)

\* What _pruneChain walks down to, from any block that has a row, has a row.
AncestorsKept ==
  \A b \in Rows, k \in 0..MaxReorgDepth :
    Number[b] - k >= StartNumber =>
      /\ AncestorAt[k][b] \in Rows
      /\ Number[AncestorAt[k][b]] = Number[b] - k

\* A row that says complete says the truth, and so does the one a handler holds.
CompleteApplied ==
  /\ Complete \subseteq applied
  /\ EmptyBlocks \cap Rows \subseteq applied
  /\ eventWorker.wasComplete => eventWorker.block \in applied

\* Only blocks with a row have events queued, in process or in memory.
EventsOfRows ==
  /\ \A b \in Blocks : eventQueue[b] > 0 => b \in Rows
  /\ eventWorker.block # NoBlock => eventWorker.block \in Rows
  /\ eventWorker.step = "idle" => eventWorker = IdleEventWorker
  /\ blockAndEventsMap \subseteq Rows

\* What an _indexBlock call has read stays true until it acts on it.
TaskReady(t) ==
  /\ t.step # "start" => Number[t.block] > 0
  /\ t.isCanonical \/ t.step = "save" => Ready(t.block)
  /\ t.step = "push" => t.target \in Rows

TasksReady == \A t \in tasks : TaskReady(t)

\* The canonical block, and the blocks _pruneChain is choosing it from.
CanonicalHasRow ==
  /\ syncStatus.latestCanonical # NoBlock =>
       \/ Number[syncStatus.latestCanonical] = StartNumber
       \/ syncStatus.latestCanonical \in Rows
  /\ worker.step = "mark" =>
       /\ worker.blocks # {}
       /\ \A b \in worker.blocks : b \in Rows /\ Number[b] = worker.job.height
  /\ worker.step = "canonical" => worker.canonical \in Rows

\* A process that has not started, or has crashed, does nothing.
Stopped ==
  ~running => /\ worker = IdleWorker /\ tasks = {}
              /\ eventWorker = IdleEventWorker /\ blockAndEventsMap = {}

\* Until the first chain head is seen there is only the job for the start height.
FirstHead ==
  syncStatus.latestCanonical = NoBlock =>
    /\ Rows = {} /\ tasks = {} /\ completions = {}
    /\ \A j \in BlockQueueJobs : blockQueue[j] > 0 => j = NumberJob(StartNumber)
    /\ worker.step \in {"idle", "fetch"}
    /\ worker.step = "fetch" => worker.job = NumberJob(StartNumber)

ParentsInv ==
  /\ RowsReady /\ AncestorsKept /\ CompleteApplied /\ EventsOfRows
  /\ TasksReady /\ CanonicalHasRow /\ Stopped /\ FirstHead

-----------------------------------------------------------------------------
(* What the steps have in common. *)

\* The only job a push can add is the one pushed.
LEMMA PushAdds ==
  ASSUME NEW S, NEW queue \in [S -> 0..MaxCopies], NEW j, NEW i \in S,
         Push(queue, j)[i] > 0
  PROVE  queue[i] > 0 \/ i = j
  BY DEF Push

LEMMA PushPruningAdds ==
  ASSUME NEW S, NEW queue \in [S -> 0..MaxCopies], NEW status, NEW i \in S,
         PushPruningJob(queue, status)[i] > 0
  PROVE  queue[i] > 0 \/ i = PruneJob(CanonicalNumber(status) + 1)
  BY PushAdds DEF PushPruningJob

\* Rows and entities that only grow leave blocks and calls ready.
LEMMA ReadyKept ==
  ASSUME Rows \subseteq Rows', applied \subseteq applied'
  PROVE  /\ \A b \in Blocks : Ready(b) => Ready(b)'
         /\ \A t \in tasks : TaskReady(t) => TaskReady(t)'
  BY DEF Ready, TaskReady

LEMMA SameRows ==
  ASSUME UNCHANGED <<progress, applied>>
  PROVE  /\ Rows' = Rows /\ Complete' = Complete
         /\ \A b : Ready(b)' = Ready(b)
         /\ \A t : TaskReady(t)' = TaskReady(t)
         /\ RowsReady' = RowsReady /\ AncestorsKept' = AncestorsKept
<1>1. Rows' = Rows /\ Complete' = Complete
  BY DEF Rows, Complete
<1>2. \A b : Ready(b)' = Ready(b)
  BY <1>1 DEF Ready
<1>3. \A t : TaskReady(t)' = TaskReady(t)
  BY <1>1, <1>2 DEF TaskReady
<1>4. RowsReady' = RowsReady /\ AncestorsKept' = AncestorsKept
  BY <1>1, <1>2 DEF RowsReady, AncestorsKept
<1>5. QED BY <1>1, <1>2, <1>3, <1>4

\* A call that throws leaves the calls of its siblings as ready as they were.
LEMMA ThrowReady ==
  ASSUME TypeInv, ParentsInv, NEW t \in tasks, NEW queue, Throw(t, queue),
         UNCHANGED <<progress, applied>>
  PROVE  /\ TasksReady'
         /\ worker' = worker \/ worker' = IdleWorker
<1>1. ASSUME NEW u \in tasks
      PROVE  TaskReady(u)' /\ TaskReady([u EXCEPT !.owned = FALSE])'
  <2>1. u \in Tasks /\ TaskReady(u)
    BY DEF TypeInv, TypeOK, ParentsInv, TasksReady
  <2>2. TaskReady([u EXCEPT !.owned = FALSE])
    BY <2>1 DEF Tasks, TaskReady
  <2>3. QED BY <2>1, <2>2, SameRows
<1>2. TasksReady'
  <2>1. CASE t.owned
    BY <1>1, <2>1 DEF Throw, TasksReady
  <2>2. CASE ~t.owned
    BY <1>1, <2>2, SameRows DEF Throw, TasksReady, ParentsInv
  <2>3. QED BY <2>1, <2>2
<1>3. QED BY <1>2 DEF Throw

\* Something in flight: the process runs, and has seen a chain head.
LEMMA InFlight ==
  ASSUME ParentsInv,
         \/ tasks # {} \/ completions # {} \/ Rows # {}
         \/ worker.step \notin {"idle", "fetch"}
  PROVE  syncStatus.latestCanonical # NoBlock
  BY DEF ParentsInv, FirstHead

LEMMA RunningNow ==
  ASSUME ParentsInv, tasks # {} \/ worker.step # "idle" \/ eventWorker.step # "idle"
  PROVE  running
  BY DEF ParentsInv, Stopped, IdleWorker, IdleEventWorker

LEMMA ParentsInit == Init => ParentsInv
<1> SUFFICES ASSUME Init PROVE ParentsInv OBVIOUS
<1>1. Rows = {} /\ Complete = {}
  BY DEF Init, Rows, Complete
<1>2. RowsReady /\ AncestorsKept
  BY <1>1 DEF RowsReady, AncestorsKept
<1>3. CompleteApplied /\ EventsOfRows
  BY <1>1 DEF Init, CompleteApplied, EventsOfRows, IdleEventWorker
<1>4. TasksReady /\ CanonicalHasRow /\ Stopped /\ FirstHead
  BY <1>1 DEF Init, TasksReady, CanonicalHasRow, Stopped, FirstHead, IdleWorker
<1>5. QED BY <1>2, <1>3, <1>4 DEF ParentsInv

-----------------------------------------------------------------------------
(* The steps. *)

LEMMA ParentsBlockJobs ==
  ASSUME TypeInv, ParentsInv,
         \/ \E j \in BlockQueueJobs : TakeBlockJob(j)
         \/ FetchBlocks \/ CompleteIndexJob \/ BlockJobFault
  PROVE  ParentsInv'
<1> USE DEF dbVars, queueVars
<1>1. UNCHANGED <<progress, applied, eventQueue, eventWorker, running, blockAndEventsMap>>
  BY DEF TakeBlockJob, FetchBlocks, CompleteIndexJob, BlockJobFault
<1>2. RowsReady' /\ AncestorsKept' /\ CompleteApplied' /\ EventsOfRows'
  BY <1>1, SameRows DEF ParentsInv, CompleteApplied, EventsOfRows
<1>3. ASSUME NEW b \in Blocks PROVE TaskReady(NewTask(b))'
  BY DEF TaskReady, NewTask
<1>4. ASSUME NEW j \in BlockQueueJobs, TakeBlockJob(j) PROVE ParentsInv'
  <2>1. j.kind \in {"number", "block", "prune"} /\ (j.kind = "block" => j.block \in Blocks)
    BY DEF BlockQueueJobs, NumberJob, BlockJob, PruneJob
  <2>2. TasksReady'
    BY <1>1, <1>3, <1>4, <2>1, SameRows DEF TakeBlockJob, TasksReady, ParentsInv
  <2>3. /\ worker'.job = j
        /\ worker'.step = CASE j.kind = "number" -> "fetch"
                             [] j.kind = "block" -> "index"
                             [] j.kind = "prune" -> "prune"
    BY <1>4 DEF TakeBlockJob, IdleWorker
  <2>4. CanonicalHasRow'
    <3>1. worker'.step \in {"fetch", "index", "prune"} /\ syncStatus' = syncStatus
      BY <1>4, <2>1, <2>3 DEF TakeBlockJob
    <3>2. QED BY <1>1, <3>1, SameRows DEF CanonicalHasRow, ParentsInv
  <2>5. Stopped'
    <3>1. running
      BY <1>4 DEF TakeBlockJob
    <3>2. QED BY <1>1, <3>1 DEF Stopped
  <2>6. FirstHead'
    <3> SUFFICES ASSUME syncStatus.latestCanonical = NoBlock
                 PROVE  FirstHead'
      BY <1>4 DEF TakeBlockJob, FirstHead
    <3>1. j = NumberJob(StartNumber) /\ j.kind = "number"
      <4>1. blockQueue[j] > 0
        BY <1>4 DEF TakeBlockJob
      <4>2. j = NumberJob(StartNumber)
        BY <4>1 DEF ParentsInv, FirstHead
      <4>3. QED BY <4>2 DEF NumberJob
    <3>2. ASSUME NEW i \in BlockQueueJobs, blockQueue'[i] > 0
          PROVE  i = NumberJob(StartNumber)
      <4>1. blockQueue \in [BlockQueueJobs -> 0..MaxCopies] /\ blockQueue[j] > 0
        BY <1>4 DEF TakeBlockJob, TypeInv, TypeOK
      <4>2. blockQueue[i] > 0
        BY <1>4, <3>1, <3>2, <4>1 DEF TakeBlockJob
      <4>3. QED BY <4>2 DEF ParentsInv, FirstHead
    <3>3. tasks' = {} /\ completions' = {} /\ Rows' = {}
      BY <1>1, <1>4, <3>1, SameRows DEF TakeBlockJob, ParentsInv, FirstHead
    <3>4. QED BY <2>3, <3>1, <3>2, <3>3 DEF FirstHead
  <2>7. QED BY <1>2, <2>2, <2>4, <2>5, <2>6 DEF ParentsInv
<1>5. ASSUME FetchBlocks PROVE ParentsInv'
  <2>1. TasksReady'
    BY <1>1, <1>3, <1>5, SameRows DEF FetchBlocks, TasksReady, ParentsInv, AtHeight
  <2>2. PICK first \in AtHeight(worker.job.height) :
          syncStatus' =
            IF syncStatus.latestCanonical = NoBlock
            THEN [chainHead |-> Number[first], latestIndexed |-> -1,
                  latestCanonical |-> first]
            ELSE [syncStatus EXCEPT
                    !.chainHead = IF @ > Number[first] THEN @ ELSE Number[first]]
    BY <1>5 DEF FetchBlocks
  <2>3. /\ syncStatus'.latestCanonical =
             IF syncStatus.latestCanonical = NoBlock THEN first ELSE syncStatus.latestCanonical
        /\ first \in Blocks /\ first # NoBlock
    BY <2>2, ChainAssumption DEF AtHeight, TypeInv, TypeOK, Statuses
  <2>4. syncStatus.latestCanonical = NoBlock => Number[first] = StartNumber
    <3>1. syncStatus.latestCanonical = NoBlock => worker.job = NumberJob(StartNumber)
      BY <1>5 DEF FetchBlocks, ParentsInv, FirstHead
    <3>2. QED BY <2>2, <3>1 DEF AtHeight, NumberJob
  <2>5. worker'.step = "index" /\ running
    BY <1>5, RunningNow DEF FetchBlocks, TypeInv, TypeOK, Workers
  <2>6. CanonicalHasRow'
    BY <1>1, <2>3, <2>4, <2>5, SameRows DEF CanonicalHasRow, ParentsInv
  <2>7. Stopped' /\ FirstHead'
    BY <1>1, <2>3, <2>5 DEF Stopped, FirstHead
  <2>8. QED BY <1>2, <2>1, <2>6, <2>7 DEF ParentsInv
<1>6. ASSUME CompleteIndexJob PROVE ParentsInv'
  <2>1. worker' = IdleWorker /\ worker'.step = "idle" /\ UNCHANGED <<tasks, syncStatus>>
    BY <1>6 DEF CompleteIndexJob, CompleteBlockJob, IdleWorker
  <2>2. TasksReady' /\ CanonicalHasRow'
    BY <1>1, <2>1, SameRows DEF ParentsInv, TasksReady, CanonicalHasRow
  <2>3. Stopped'
    BY <1>1, <1>6, RunningNow DEF CompleteIndexJob, Stopped
  <2>4. FirstHead'
    BY <1>6, <2>1, InFlight DEF CompleteIndexJob, FirstHead
  <2>5. QED BY <1>2, <2>2, <2>3, <2>4 DEF ParentsInv
<1>7. ASSUME BlockJobFault PROVE ParentsInv'
  <2>1. /\ worker' = IdleWorker /\ worker'.step = "idle"
        /\ UNCHANGED <<tasks, syncStatus, completions>>
        /\ blockQueue' = Push(blockQueue, worker.job)
    BY <1>7 DEF BlockJobFault, RetryBlockJob, IdleWorker
  <2>2. TasksReady' /\ CanonicalHasRow'
    BY <1>1, <2>1, SameRows DEF ParentsInv, TasksReady, CanonicalHasRow
  <2>3. Stopped'
    BY <1>1, <1>7, RunningNow DEF BlockJobFault, Stopped
  <2>4. FirstHead'
    <3> SUFFICES ASSUME syncStatus.latestCanonical = NoBlock
                 PROVE  FirstHead'
      BY <2>1 DEF FirstHead
    <3>1. worker.job = NumberJob(StartNumber)
      BY <1>7 DEF BlockJobFault, ParentsInv, FirstHead
    <3>2. ASSUME NEW i \in BlockQueueJobs, blockQueue'[i] > 0
          PROVE  i = NumberJob(StartNumber)
      BY <2>1, <3>1, <3>2, PushAdds DEF TypeInv, TypeOK, ParentsInv, FirstHead
    <3>3. QED
      BY <1>1, <2>1, <3>2, SameRows DEF ParentsInv, FirstHead
  <2>5. QED BY <1>2, <2>2, <2>3, <2>4 DEF ParentsInv
<1>8. QED BY <1>4, <1>5, <1>6, <1>7

\* A row for a block that is ready keeps all ancestors of rows within reach.
LEMMA AncestorsOfNewRow ==
  ASSUME TypeInv, ParentsInv, NEW b \in Blocks, Ready(b), Rows' = Rows \cup {b}
  PROVE  AncestorsKept'
<1> SUFFICES ASSUME NEW k \in 0..MaxReorgDepth, Number[b] - k >= StartNumber
             PROVE  /\ AncestorAt[k][b] \in Rows'
                    /\ Number[AncestorAt[k][b]] = Number[b] - k
  BY DEF AncestorsKept, ParentsInv
<1>1. Number[b] \in Nat /\ StartNumber \in Nat /\ k \in Nat
  BY ChainAssumption, DepthAssumption
<1>2. CASE k = 0
  BY <1>1, <1>2, DepthAssumption
<1>3. CASE k > 0
  <2> DEFINE p == Parent[b]
  <2>1. p \in Rows /\ Number[b] > StartNumber
    BY <1>1, <1>3 DEF Ready
  <2>2. p \in Blocks /\ Number[p] = Number[b] - 1
    BY <1>1, <2>1, ChainAssumption
  <2>3. k - 1 \in 0..MaxReorgDepth /\ Number[p] - (k - 1) = Number[b] - k
    BY <1>1, <1>3, <2>2, DepthAssumption
  <2>4. AncestorAt[k - 1][p] \in Rows /\ Number[AncestorAt[k - 1][p]] = Number[b] - k
    BY <2>1, <2>3 DEF ParentsInv, AncestorsKept
  <2>5. AncestorAt[k][b] = AncestorAt[k - 1][p]
    <3>1. k \in 1..MaxReorgDepth /\ Number[b] >= k
      BY <1>1, <1>3, ChainAssumption, DepthAssumption
    <3>2. QED BY <3>1, DepthAssumption
  <2>6. QED BY <2>4, <2>5
<1>4. QED BY <1>1, <1>2, <1>3

LEMMA ParentsIndexBlock ==
  ASSUME TypeInv, ParentsInv, NEW t \in tasks, IndexBlock(t) \/ TaskFault(t)
  PROVE  ParentsInv'
<1> USE DEF dbVars, queueVars
<1>1. /\ t \in Tasks /\ t.block \in Blocks /\ TaskReady(t)
      /\ syncStatus.latestCanonical # NoBlock /\ running
  BY InFlight, RunningNow DEF TypeInv, TypeOK, Tasks, ParentsInv, TasksReady
<1>2. /\ UNCHANGED <<syncStatus, completions, eventWorker, running>>
      /\ worker' = worker \/ worker' = IdleWorker
  BY ThrowReady DEF IndexBlock, TaskFault, CheckPruning, AskForPruning, ReadProgress,
                    PushParentJob, SaveBlock, PushEventsJob, Throw
<1>3. Stopped' /\ FirstHead'
  BY <1>1, <1>2 DEF Stopped, FirstHead
<1>4. ASSUME Rows \subseteq Rows' PROVE CanonicalHasRow'
  <2>1. CASE worker' = worker
    BY <1>2, <1>4, <2>1 DEF CanonicalHasRow, ParentsInv
  <2>2. CASE worker' = IdleWorker
    <3>1. worker'.step = "idle"
      BY <2>2 DEF IdleWorker
    <3>2. QED BY <1>2, <1>4, <3>1 DEF CanonicalHasRow, ParentsInv
  <2>3. QED BY <1>2, <2>1, <2>2
<1>5. ASSUME NEW u, Become(t, u), TaskReady(u)', UNCHANGED <<progress, applied>>
      PROVE  TasksReady'
  BY <1>5, SameRows DEF Become, TasksReady, ParentsInv
<1>6. ASSUME tasks' = tasks \ {t}, UNCHANGED <<progress, applied>>
      PROVE  TasksReady'
  BY <1>6, SameRows DEF TasksReady, ParentsInv
<1>7. ASSUME UNCHANGED <<progress, applied, eventQueue, blockAndEventsMap>>, TasksReady'
      PROVE  ParentsInv'
  <2>1. RowsReady' /\ AncestorsKept' /\ CompleteApplied' /\ EventsOfRows'
    BY <1>2, <1>7, SameRows DEF ParentsInv, CompleteApplied, EventsOfRows
  <2>2. CanonicalHasRow'
    BY <1>4, <1>7, SameRows
  <2>3. QED BY <1>3, <1>7, <2>1, <2>2 DEF ParentsInv
<1>8. ASSUME TaskFault(t) PROVE ParentsInv'
  <2>1. Throw(t, blockQueue) /\ UNCHANGED <<progress, applied, eventQueue, blockAndEventsMap>>
    BY <1>8 DEF TaskFault
  <2>2. QED BY <1>7, <2>1, ThrowReady
<1>9. ASSUME CheckPruning(t) PROVE ParentsInv'
  <2>1. UNCHANGED <<progress, applied, eventQueue, blockAndEventsMap>>
    BY <1>9 DEF CheckPruning
  <2>2. CASE \E queue : Throw(t, queue)
    BY <1>7, <2>1, <2>2, ThrowReady
  <2>3. CASE /\ Number[t.block] # 0
             /\ Become(t, [t EXCEPT !.step = "read",
                             !.isCanonical = (t.block = syncStatus.latestCanonical)])
    <3> DEFINE u == [t EXCEPT !.step = "read",
                       !.isCanonical = (t.block = syncStatus.latestCanonical)]
    <3>1. /\ u.block = t.block /\ u.step = "read"
          /\ u.isCanonical => t.block = syncStatus.latestCanonical
      BY <1>1 DEF Tasks
    <3>2. Number[t.block] > 0
      BY <1>1, <2>3, ChainAssumption
    <3>3. u.isCanonical => Ready(t.block)
      BY <1>1, <3>1 DEF ParentsInv, CanonicalHasRow, RowsReady, Ready
    <3>4. TaskReady(u)
      BY <3>1, <3>2, <3>3 DEF TaskReady
    <3>5. QED BY <1>5, <1>7, <2>1, <2>3, <3>4, SameRows
  <2>4. QED BY <1>9, <2>2, <2>3 DEF CheckPruning, AskForPruning
<1>10. ASSUME ReadProgress(t) PROVE ParentsInv'
  <2> DEFINE b == t.block
             p == Parent[t.block]
             firstRow == IF p \in Rows THEN p ELSE b
  <2>1. UNCHANGED <<progress, applied, eventQueue, blockAndEventsMap>> /\ t.step = "read"
    BY <1>10 DEF ReadProgress
  <2>2. Number[b] > 0
    BY <1>1, <2>1 DEF TaskReady
  <2>3. CASE t.isCanonical /\ {p, b} \cap Rows = {}
    <3>1. Become(t, [t EXCEPT !.step = "save"])
      BY <1>10, <2>3 DEF ReadProgress
    <3>2. TaskReady([t EXCEPT !.step = "save"])
      BY <1>1, <2>2, <2>3 DEF TaskReady, Tasks
    <3>3. QED BY <1>5, <1>7, <2>1, <3>1, <3>2, SameRows
  <2>4. CASE t.isCanonical /\ {p, b} \cap Rows # {}
    <3>1. Become(t, [t EXCEPT !.step = "push", !.target = firstRow])
      BY <1>10, <2>4 DEF ReadProgress
    <3>2. firstRow \in Rows
      BY <2>4
    <3>3. TaskReady([t EXCEPT !.step = "push", !.target = firstRow])
      BY <1>1, <2>2, <2>4, <3>2 DEF TaskReady, Tasks
    <3>4. QED BY <1>5, <1>7, <2>1, <3>1, <3>3, SameRows
  <2>5. CASE ~t.isCanonical /\ ~ParentProcessed(p)
    <3>1. Become(t, [t EXCEPT !.step = "parent"])
      BY <1>10, <2>5 DEF ReadProgress
    <3>2. TaskReady([t EXCEPT !.step = "parent"])
      BY <1>1, <2>2, <2>5 DEF TaskReady, Tasks
    <3>3. QED BY <1>5, <1>7, <2>1, <3>1, <3>2, SameRows
  <2>6. CASE ~t.isCanonical /\ ParentProcessed(p) /\ b \in Rows
    <3>1. Become(t, [t EXCEPT !.step = "push", !.target = b])
      BY <1>10, <2>6 DEF ReadProgress
    <3>2. TaskReady([t EXCEPT !.step = "push", !.target = b])
      BY <1>1, <2>2, <2>6 DEF TaskReady, Tasks
    <3>3. QED BY <1>5, <1>7, <2>1, <3>1, <3>2, SameRows
  <2>7. CASE ~t.isCanonical /\ ParentProcessed(p) /\ b \notin Rows
    <3>1. Become(t, [t EXCEPT !.step = "save"])
      BY <1>10, <2>7 DEF ReadProgress
    <3>2. p \in applied \cap Rows
      BY <2>7 DEF ParentProcessed, ParentsInv, CompleteApplied, Complete, Rows
    <3>3. Ready(b)
      <4>1. Number[p] = Number[b] - 1 /\ p \in Blocks
        BY <1>1, <2>2, ChainAssumption
      <4>2. Number[p] >= StartNumber
        BY <3>2, <4>1, ChainAssumption DEF ParentsInv, RowsReady, Ready
      <4>3. QED BY <1>1, <3>2, <4>1, <4>2, ChainAssumption DEF Ready
    <3>4. TaskReady([t EXCEPT !.step = "save"])
      BY <1>1, <2>2, <2>7, <3>3 DEF TaskReady, Tasks
    <3>5. QED BY <1>5, <1>7, <2>1, <3>1, <3>4, SameRows
  <2>8. QED BY <2>3, <2>4, <2>5, <2>6, <2>7
<1>11. ASSUME PushParentJob(t) PROVE ParentsInv'
  BY <1>6, <1>7, <1>11 DEF PushParentJob
<1>12. ASSUME PushEventsJob(t) PROVE ParentsInv'
  <2>1. /\ UNCHANGED <<progress, applied, blockAndEventsMap>>
        /\ tasks' = tasks \ {t}
        /\ eventQueue' = Push(eventQueue, t.target)
    BY <1>12 DEF PushEventsJob
  <2>2. TasksReady' /\ RowsReady' /\ AncestorsKept' /\ CompleteApplied'
    BY <1>2, <1>6, <2>1, SameRows DEF ParentsInv, CompleteApplied
  <2>3. t.target \in Rows
    BY <1>1, <1>12 DEF PushEventsJob, TaskReady
  <2>4. ASSUME NEW b \in Blocks, eventQueue'[b] > 0 PROVE b \in Rows'
    <3>1. eventQueue[b] > 0 \/ b = t.target
      BY <2>1, <2>4, PushAdds DEF TypeInv, TypeOK
    <3>2. QED BY <2>1, <2>3, <3>1, SameRows DEF ParentsInv, EventsOfRows
  <2>5. EventsOfRows'
    BY <1>2, <2>1, <2>4, SameRows DEF ParentsInv, EventsOfRows
  <2>6. CanonicalHasRow'
    BY <1>4, <2>1, SameRows
  <2>7. QED BY <1>3, <2>2, <2>5, <2>6 DEF ParentsInv
<1>13. ASSUME SaveBlock(t) PROVE ParentsInv'
  <2> DEFINE b == t.block
  <2>1. eventQueue' = eventQueue /\ t.step = "save" /\ Ready(b) /\ Number[b] > 0
    BY <1>1, <1>13 DEF SaveBlock, TaskReady
  <2>2. CASE b \notin blockAndEventsMap /\ b \in Rows
    BY <1>7, <1>13, <2>1, <2>2, ThrowReady DEF SaveBlock
  <2>3. CASE b \in blockAndEventsMap
    <3>1. /\ Become(t, [t EXCEPT !.step = "push", !.target = b])
          /\ UNCHANGED <<progress, applied, blockAndEventsMap>>
      BY <1>13, <2>3 DEF SaveBlock
    <3>2. b \in Rows
      BY <2>3 DEF ParentsInv, EventsOfRows
    <3>3. TaskReady([t EXCEPT !.step = "push", !.target = b])
      BY <1>1, <2>1, <3>2 DEF TaskReady, Tasks
    <3>4. QED BY <1>5, <1>7, <2>1, <3>1, <3>3, SameRows
  <2>4. CASE b \notin blockAndEventsMap /\ b \notin Rows
    <3>1. /\ Become(t, [t EXCEPT !.step = "push", !.target = b])
          /\ progress' = [progress EXCEPT ![b] = SavedRow(b)]
          /\ applied' = applied \cup ({b} \cap EmptyBlocks)
          /\ blockAndEventsMap' = blockAndEventsMap \cup {b}
      BY <1>13, <2>4 DEF SaveBlock
    <3>2. /\ Rows' = Rows \cup {b}
          /\ Complete' \subseteq Complete \cup ({b} \cap EmptyBlocks)
      BY <1>1, <3>1 DEF Rows, Complete, SavedRow, TypeInv, TypeOK
    <3>3. RowsReady'
      BY <1>1, <2>1, <3>1, <3>2, ReadyKept DEF ParentsInv, RowsReady, Rows
    <3>4. AncestorsKept'
      BY <1>1, <2>1, <3>2, AncestorsOfNewRow
    <3>5. CompleteApplied'
      BY <1>2, <3>1, <3>2 DEF ParentsInv, CompleteApplied
    <3>6. EventsOfRows'
      BY <1>2, <2>1, <3>1, <3>2 DEF ParentsInv, EventsOfRows
    <3>7. TasksReady'
      <4>1. TaskReady([t EXCEPT !.step = "push", !.target = b])'
        BY <1>1, <2>1, <3>1, <3>2, ReadyKept DEF TaskReady, Tasks
      <4>2. \A u \in tasks : TaskReady(u)'
        BY <3>1, <3>2, ReadyKept DEF ParentsInv, TasksReady
      <4>3. QED BY <3>1, <4>1, <4>2 DEF Become, TasksReady
    <3>8. CanonicalHasRow'
      BY <1>4, <3>2
    <3>9. QED BY <1>3, <3>3, <3>4, <3>5, <3>6, <3>7, <3>8 DEF ParentsInv
  <2>5. QED BY <2>2, <2>3, <2>4
<1>14. QED
  BY <1>8, <1>9, <1>10, <1>11, <1>12, <1>13 DEF IndexBlock

LEMMA ParentsPruneChain ==
  ASSUME TypeInv, ParentsInv, PruneChain
  PROVE  ParentsInv'
<1> USE DEF dbVars, queueVars
<1>1. /\ UNCHANGED <<progress, applied, eventQueue, eventWorker, running, tasks,
                     blockAndEventsMap>>
      /\ worker.step \in {"prune", "mark", "canonical"}
  BY DEF PruneChain, ReadPruneHeight, MarkBlocksAsPruned, UpdateCanonicalBlock
<1>2. syncStatus.latestCanonical # NoBlock /\ running
  BY <1>1, InFlight, RunningNow
<1>3. RowsReady' /\ AncestorsKept' /\ CompleteApplied' /\ EventsOfRows' /\ TasksReady'
  BY <1>1, SameRows DEF ParentsInv, CompleteApplied, EventsOfRows, TasksReady
<1>4. ASSUME UNCHANGED syncStatus, CanonicalHasRow' PROVE ParentsInv'
  <2>1. Stopped' /\ FirstHead'
    BY <1>1, <1>2, <1>4 DEF Stopped, FirstHead
  <2>2. QED BY <1>3, <1>4, <2>1 DEF ParentsInv
<1>5. ASSUME UNCHANGED syncStatus, worker' = IdleWorker PROVE CanonicalHasRow'
  <2>1. worker'.step = "idle"
    BY <1>5 DEF IdleWorker
  <2>2. QED BY <1>1, <1>5, <2>1, SameRows DEF ParentsInv, CanonicalHasRow
<1>6. ASSUME ReadPruneHeight PROVE ParentsInv'
  <2> DEFINE unpruned == UnprunedAt(worker.job.height)
  <2>1. UNCHANGED syncStatus
    BY <1>6 DEF ReadPruneHeight
  <2>2. CASE worker' = IdleWorker
    BY <1>4, <1>5, <2>1, <2>2
  <2>3. CASE /\ worker' = [worker EXCEPT !.step = "mark", !.blocks = unpruned]
             /\ unpruned # {}
    <3>1. /\ worker'.step = "mark" /\ worker'.job = worker.job
          /\ worker'.blocks = unpruned
      BY <2>3 DEF TypeInv, TypeOK, Workers
    <3>2. CanonicalHasRow'
      BY <1>1, <2>1, <2>3, <3>1, SameRows DEF ParentsInv, CanonicalHasRow, UnprunedAt
    <3>3. QED BY <1>4, <2>1, <3>2
  <2>4. QED
    BY <1>6, <2>2, <2>3 DEF ReadPruneHeight, RetryBlockJob, CompleteBlockJob
<1>7. ASSUME MarkBlocksAsPruned PROVE ParentsInv'
  <2> DEFINE heads == UnprunedAt(worker.job.height + MaxReorgDepth)
  <2>1. UNCHANGED syncStatus /\ worker.step = "mark"
    BY <1>7 DEF MarkBlocksAsPruned
  <2>2. /\ worker.blocks # {}
        /\ \A b \in worker.blocks : b \in Rows /\ Number[b] = worker.job.height
    BY <2>1 DEF ParentsInv, CanonicalHasRow
  <2>3. ASSUME NEW kept \in Rows,
               worker' = [worker EXCEPT !.step = "canonical", !.canonical = kept]
        PROVE  ParentsInv'
    <3>1. worker'.step = "canonical" /\ worker'.canonical = kept
      BY <2>3 DEF TypeInv, TypeOK, Workers
    <3>2. CanonicalHasRow'
      BY <1>1, <2>1, <3>1, SameRows DEF ParentsInv, CanonicalHasRow
    <3>3. QED BY <1>4, <2>1, <3>2
  <2>4. CASE Cardinality(worker.blocks) = 1
    <3>1. (CHOOSE b \in worker.blocks : TRUE) \in Rows
      BY <2>2
    <3>2. QED BY <1>7, <2>3, <2>4, <3>1 DEF MarkBlocksAsPruned
  <2>5. CASE Cardinality(worker.blocks) # 1 /\ heads = {}
    BY <1>4, <1>5, <1>7, <2>1, <2>5 DEF MarkBlocksAsPruned, RetryBlockJob
  <2>6. CASE Cardinality(worker.blocks) # 1 /\ heads # {}
    <3>1. PICK x \in heads :
            worker' = [worker EXCEPT !.step = "canonical",
                         !.canonical = AncestorAtPruneHeight(x)]
      BY <1>7, <2>6 DEF MarkBlocksAsPruned
    <3>2. x \in Rows /\ Number[x] = worker.job.height + MaxReorgDepth
      BY DEF UnprunedAt
    <3>3. worker.job.height >= StartNumber /\ worker.job.height \in Nat
      BY <2>2, ChainAssumption DEF ParentsInv, RowsReady, Ready, Rows
    <3>4. Number[x] - MaxReorgDepth >= StartNumber /\ MaxReorgDepth \in 0..MaxReorgDepth
      BY <3>2, <3>3, ChainAssumption, DepthAssumption
    <3>5. AncestorAtPruneHeight(x) \in Rows
      BY <3>2, <3>4 DEF AncestorAtPruneHeight, ParentsInv, AncestorsKept
    <3>6. QED BY <2>3, <3>1, <3>5
  <2>7. QED BY <2>4, <2>5, <2>6
<1>8. ASSUME UpdateCanonicalBlock PROVE ParentsInv'
  <2>1. /\ worker' = IdleWorker /\ worker'.step = "idle"
        /\ worker.canonical \in Rows
    BY <1>8 DEF UpdateCanonicalBlock, CompleteBlockJob, IdleWorker, ParentsInv, CanonicalHasRow
  <2>2. syncStatus'.latestCanonical \in {syncStatus.latestCanonical, worker.canonical}
    BY <1>8 DEF UpdateCanonicalBlock, TypeInv, TypeOK, Statuses
  <2>3. CanonicalHasRow'
    BY <1>1, <2>1, <2>2, SameRows DEF ParentsInv, CanonicalHasRow
  <2>4. syncStatus'.latestCanonical # NoBlock
    BY <1>2, <2>1, <2>2, ChainAssumption DEF Rows
  <2>5. Stopped' /\ FirstHead'
    BY <1>1, <1>2, <2>4 DEF Stopped, FirstHead
  <2>6. QED BY <1>3, <2>3, <2>5 DEF ParentsInv
<1>9. QED BY <1>6, <1>7, <1>8 DEF PruneChain

LEMMA ParentsProcessEvents ==
  ASSUME TypeInv, ParentsInv,
         \/ \E b \in Blocks : TakeEventsJob(b)
         \/ RefetchEvents \/ FinishEvents \/ FailEvents \/ CommitPartly
  PROVE  ParentsInv'
<1> USE DEF dbVars, queueVars
<1> DEFINE b == eventWorker.block
<1>1. UNCHANGED <<running, worker, tasks, syncStatus>>
  BY DEF TakeEventsJob, RefetchEvents, FinishEvents, FailEvents, CommitPartly
<1>2. ASSUME Rows # {}, Rows' = Rows, applied \subseteq applied', running,
             CompleteApplied', EventsOfRows'
      PROVE  ParentsInv'
  <2>1. RowsReady' /\ TasksReady'
    BY <1>1, <1>2, ReadyKept DEF ParentsInv, RowsReady, TasksReady, Rows
  <2>2. AncestorsKept' /\ CanonicalHasRow'
    BY <1>1, <1>2 DEF ParentsInv, AncestorsKept, CanonicalHasRow
  <2>3. Stopped'
    BY <1>1, <1>2 DEF Stopped
  <2>4. FirstHead'
    BY <1>1, <1>2, InFlight DEF FirstHead
  <2>5. QED BY <1>2, <2>1, <2>2, <2>3, <2>4 DEF ParentsInv
<1>3. ASSUME NEW c \in Blocks, TakeEventsJob(c) PROVE ParentsInv'
  <2>1. /\ running /\ c \in Rows
        /\ UNCHANGED <<progress, applied, blockAndEventsMap>>
        /\ eventQueue' = [eventQueue EXCEPT ![c] = @ - 1]
        /\ eventWorker'.block = c /\ eventWorker'.step \in {"events", "refetch"}
        /\ eventWorker'.wasComplete => c \in Complete
    BY <1>3 DEF TakeEventsJob
  <2>2. Rows' = Rows /\ Complete' = Complete
    BY <2>1, SameRows
  <2>3. CompleteApplied'
    BY <2>1, <2>2 DEF ParentsInv, CompleteApplied
  <2>4. ASSUME NEW d \in Blocks, eventQueue'[d] > 0 PROVE d \in Rows'
    BY <2>1, <2>2, <2>4 DEF ParentsInv, EventsOfRows, TypeInv, TypeOK
  <2>5. EventsOfRows'
    BY <2>1, <2>2, <2>4 DEF ParentsInv, EventsOfRows
  <2>6. QED BY <1>2, <2>1, <2>2, <2>3, <2>5
<1>4. ASSUME eventWorker.step # "idle"
      PROVE  b \in Rows /\ running
  BY <1>4, RunningNow, ChainAssumption
  DEF ParentsInv, EventsOfRows, TypeInv, EventWorkerHasBlock
<1>5. ASSUME b \in Rows, NEW state \in {"incomplete", "complete"},
             progress' = [progress EXCEPT ![b] = state]
      PROVE  /\ Rows' = Rows
             /\ Complete' \subseteq Complete \cup {b}
             /\ state = "incomplete" => Complete' \subseteq Complete
  BY <1>5 DEF Rows, Complete, TypeInv, TypeOK
<1>6. ASSUME b \in Rows, Rows' = Rows, eventQueue' \in {eventQueue, Push(eventQueue, b)}
      PROVE  \A d \in Blocks : eventQueue'[d] > 0 => d \in Rows'
  BY <1>6, PushAdds DEF TypeInv, TypeOK, ParentsInv, EventsOfRows
<1>7. ASSUME RefetchEvents PROVE ParentsInv'
  <2>1. /\ UNCHANGED <<applied, eventQueue>>
        /\ progress' = [progress EXCEPT ![b] = SavedRow(b)]
        /\ blockAndEventsMap' = blockAndEventsMap \cup {b}
        /\ eventWorker.step # "idle"
        /\ eventWorker'.block = b /\ eventWorker'.step = "events"
        /\ eventWorker'.wasComplete = eventWorker.wasComplete
    BY <1>7 DEF RefetchEvents, TypeInv, TypeOK, EventWorkers
  <2>2. /\ b \in Rows /\ running
        /\ SavedRow(b) \in {"incomplete", "complete"}
        /\ SavedRow(b) = "complete" => b \in EmptyBlocks
    BY <1>4, <2>1 DEF SavedRow
  <2>3. Rows' = Rows /\ Complete' \subseteq Complete \cup ({b} \cap EmptyBlocks)
    BY <1>5, <2>1, <2>2
  <2>4. CompleteApplied' /\ EventsOfRows'
    BY <2>1, <2>2, <2>3 DEF ParentsInv, CompleteApplied, EventsOfRows
  <2>5. QED BY <1>2, <2>1, <2>2, <2>3, <2>4
<1>8. ASSUME b \in Rows, Rows' = Rows, eventWorker' = IdleEventWorker,
             eventQueue' \in {eventQueue, Push(eventQueue, b)},
             blockAndEventsMap' \subseteq blockAndEventsMap,
             applied' \in {applied, applied \cup {b}}, Complete' \subseteq applied'
      PROVE  CompleteApplied' /\ EventsOfRows'
  <2>1. eventWorker'.wasComplete = FALSE /\ eventWorker'.block = NoBlock
    BY <1>8 DEF IdleEventWorker
  <2>2. CompleteApplied'
    BY <1>8, <2>1 DEF ParentsInv, CompleteApplied
  <2>3. EventsOfRows'
    BY <1>6, <1>8, <2>1 DEF ParentsInv, EventsOfRows, IdleEventWorker
  <2>4. QED BY <2>2, <2>3
<1>9. ASSUME FinishEvents PROVE ParentsInv'
  <2>1. /\ progress' = [progress EXCEPT ![b] = "complete"]
        /\ applied' = applied \cup {b}
        /\ eventQueue' \in {eventQueue, Push(eventQueue, b)}
        /\ blockAndEventsMap' \subseteq blockAndEventsMap
        /\ eventWorker' = IdleEventWorker
        /\ eventWorker.step # "idle"
    BY <1>9 DEF FinishEvents, WriteRow
  <2>2. b \in Rows /\ running
    BY <1>4, <2>1
  <2>3. Rows' = Rows /\ Complete' \subseteq Complete \cup {b}
    BY <1>5, <2>1, <2>2
  <2>4. CompleteApplied' /\ EventsOfRows'
    BY <1>8, <2>1, <2>2, <2>3 DEF ParentsInv, CompleteApplied
  <2>5. QED BY <1>2, <2>1, <2>2, <2>3, <2>4
<1>10. ASSUME FailEvents PROVE ParentsInv'
  <2> DEFINE state == IF eventWorker.wasComplete THEN "complete" ELSE "incomplete"
  <2>1. /\ progress' = [progress EXCEPT ![b] = state] \/ UNCHANGED progress
        /\ UNCHANGED <<applied, blockAndEventsMap>>
        /\ eventQueue' = Push(eventQueue, b)
        /\ eventWorker' = IdleEventWorker
        /\ eventWorker.step # "idle"
    BY <1>10 DEF FailEvents, WriteRow, RetryEvents
  <2>2. b \in Rows /\ running
    BY <1>4, <2>1
  <2>3. Rows' = Rows /\ Complete' \subseteq applied
    <3>1. CASE UNCHANGED progress
      BY <2>1, <3>1, SameRows DEF ParentsInv, CompleteApplied
    <3>2. CASE progress' = [progress EXCEPT ![b] = state]
      <4>1. state \in {"incomplete", "complete"}
        OBVIOUS
      <4>2. /\ Rows' = Rows /\ Complete' \subseteq Complete \cup {b}
            /\ state = "incomplete" => Complete' \subseteq Complete
        BY <1>5, <2>2, <3>2, <4>1
      <4>3. QED BY <4>2 DEF ParentsInv, CompleteApplied
    <3>3. QED BY <2>1, <3>1, <3>2
  <2>4. CompleteApplied' /\ EventsOfRows'
    BY <1>8, <2>1, <2>2, <2>3
  <2>5. QED BY <1>2, <2>1, <2>2, <2>3, <2>4
<1>11. ASSUME CommitPartly PROVE ParentsInv'
  <2>1. /\ progress' = [progress EXCEPT ![b] = "complete"] \/ UNCHANGED progress
        /\ applied' = applied \cup {b}
        /\ UNCHANGED blockAndEventsMap
        /\ eventQueue' = Push(eventQueue, b)
        /\ eventWorker' = IdleEventWorker
        /\ eventWorker.step # "idle"
    BY <1>11 DEF CommitPartly, WriteRow, RetryEvents
  <2>2. b \in Rows /\ running
    BY <1>4, <2>1
  <2>3. Rows' = Rows /\ Complete' \subseteq Complete \cup {b}
    BY <1>5, <2>1, <2>2, SameRows DEF Rows, Complete
  <2>4. CompleteApplied' /\ EventsOfRows'
    BY <1>8, <2>1, <2>2, <2>3 DEF ParentsInv, CompleteApplied
  <2>5. QED BY <1>2, <2>1, <2>2, <2>3, <2>4
<1>12. QED BY <1>3, <1>7, <1>9, <1>10, <1>11

LEMMA ParentsServer ==
  ASSUME TypeInv, ParentsInv, Server
  PROVE  ParentsInv'
<1> USE DEF dbVars, queueVars, memoryVars
<1>1. /\ UNCHANGED <<progress, applied, eventQueue, memoryVars>>
      /\ syncStatus'.latestCanonical = syncStatus.latestCanonical
  BY DEF Server, OnIndexComplete, OnPruneComplete, OnEventsComplete, ServerStart, Indexed,
         TypeInv, TypeOK, Statuses
<1>2. RowsReady' /\ AncestorsKept' /\ CompleteApplied' /\ EventsOfRows' /\ TasksReady'
  BY <1>1, SameRows DEF ParentsInv, CompleteApplied, EventsOfRows, TasksReady
<1>3. CanonicalHasRow' /\ Stopped'
  BY <1>1, SameRows DEF ParentsInv, CanonicalHasRow, Stopped
<1>4. FirstHead'
  <2>1. CASE completions # {}
    BY <1>1, <2>1, InFlight DEF FirstHead
  <2>2. CASE completions = {}
    <3>1. ServerStart
      BY <2>2 DEF Server
    <3> SUFFICES ASSUME syncStatus.latestCanonical = NoBlock
                 PROVE  FirstHead'
      BY <1>1 DEF FirstHead
    <3>2. blockQueue' \in {blockQueue, Push(blockQueue, NumberJob(StartNumber))}
      BY <3>1 DEF ServerStart
    <3>3. ASSUME NEW i \in BlockQueueJobs, blockQueue'[i] > 0
          PROVE  i = NumberJob(StartNumber)
      BY <3>2, <3>3, PushAdds DEF TypeInv, TypeOK, ParentsInv, FirstHead
    <3>4. completions' = completions
      BY <3>1 DEF ServerStart
    <3>5. QED BY <1>1, <3>3, <3>4, SameRows DEF ParentsInv, FirstHead
  <2>3. QED BY <2>1, <2>2
<1>5. QED BY <1>2, <1>3, <1>4 DEF ParentsInv

LEMMA ParentsCrash ==
  ASSUME TypeInv, ParentsInv, Crash
  PROVE  ParentsInv'
<1> USE DEF dbVars, queueVars
<1>1. /\ UNCHANGED <<progress, applied, syncStatus, blockQueue, eventQueue, completions>>
      /\ worker' = IdleWorker /\ worker'.step = "idle" /\ tasks' = {}
      /\ eventWorker' = IdleEventWorker /\ eventWorker'.block = NoBlock
      /\ ~eventWorker'.wasComplete
      /\ blockAndEventsMap' = {}
  BY DEF Crash, IdleWorker, IdleEventWorker
<1>2. RowsReady' /\ AncestorsKept' /\ CompleteApplied' /\ EventsOfRows' /\ TasksReady'
  BY <1>1, SameRows DEF ParentsInv, CompleteApplied, EventsOfRows, TasksReady
<1>3. CanonicalHasRow' /\ Stopped' /\ FirstHead'
  BY <1>1, SameRows DEF ParentsInv, CanonicalHasRow, Stopped, FirstHead
<1>4. QED BY <1>2, <1>3 DEF ParentsInv

\* The reset drops rows from above only, so that ancestors of what it keeps stay.
LEMMA ParentsReset ==
  ASSUME TypeInv, ParentsInv, NEW b \in Rows, ResetWatcher(b),
         syncStatus.latestCanonical # NoBlock
  PROVE  /\ RowsReady' /\ AncestorsKept'
         /\ Complete' \subseteq applied' /\ EmptyBlocks \cap Rows' \subseteq applied'
         /\ syncStatus'.latestCanonical # NoBlock
         /\ \/ Number[syncStatus'.latestCanonical] = StartNumber
            \/ syncStatus'.latestCanonical \in Rows'
<1> DEFINE kept == {c \in Blocks : Number[c] <= Number[b]}
<1>1. /\ Rows' = Rows \cap kept /\ Complete' = Complete \cap kept
      /\ applied' = applied \cap kept
  BY DEF ResetWatcher, Rows, Complete, EntitiesUpTo, TypeInv, TypeOK
<1>2. b \in Blocks /\ b \in kept /\ b # NoBlock /\ Number[b] \in Nat /\ StartNumber \in Nat
      /\ \A c \in Blocks : Number[c] \in Nat
  BY ChainAssumption DEF Rows
<1>3. ASSUME NEW c \in Rows' PROVE Ready(c)'
  <2>1. c \in Rows /\ c \in Blocks /\ Number[c] <= Number[b] /\ Ready(c)
    BY <1>1 DEF ParentsInv, RowsReady
  <2>2. CASE Number[c] = StartNumber
    BY <2>2 DEF Ready
  <2>3. CASE Number[c] > StartNumber /\ Parent[c] \in applied \cap Rows
    <3>1. Parent[c] \in Blocks /\ Number[Parent[c]] = Number[c] - 1
      BY <1>2, <2>1, <2>3, ChainAssumption
    <3>2. Parent[c] \in kept
      BY <1>2, <2>1, <3>1
    <3>3. QED BY <1>1, <2>3, <3>2 DEF Ready
  <2>4. QED BY <2>1, <2>2, <2>3 DEF Ready
<1>4. AncestorsKept'
  <2> SUFFICES ASSUME NEW c \in Rows', NEW k \in 0..MaxReorgDepth,
                      Number[c] - k >= StartNumber
               PROVE  /\ AncestorAt[k][c] \in Rows'
                      /\ Number[AncestorAt[k][c]] = Number[c] - k
    BY DEF AncestorsKept
  <2>1. c \in Rows /\ c \in Blocks /\ Number[c] <= Number[b]
    BY <1>1
  <2>2. AncestorAt[k][c] \in Rows /\ Number[AncestorAt[k][c]] = Number[c] - k
    BY <2>1 DEF ParentsInv, AncestorsKept
  <2>3. AncestorAt[k][c] \in kept
    <3>1. AncestorAt[k][c] \in Blocks
      BY <2>2 DEF Rows
    <3>2. Number[c] - k <= Number[b]
      BY <1>2, <2>1, DepthAssumption
    <3>3. QED BY <2>2, <3>1, <3>2
  <2>4. QED BY <1>1, <2>2, <2>3
<1>5. Complete' \subseteq applied' /\ EmptyBlocks \cap Rows' \subseteq applied'
  BY <1>1 DEF ParentsInv, CompleteApplied
<1>6. syncStatus'.latestCanonical = IF CanonicalNumber(syncStatus) > Number[b]
                                    THEN b ELSE syncStatus.latestCanonical
  BY DEF ResetWatcher
<1>7. CASE CanonicalNumber(syncStatus) > Number[b]
  BY <1>1, <1>2, <1>3, <1>4, <1>5, <1>6, <1>7 DEF RowsReady
<1>8. CASE ~(CanonicalNumber(syncStatus) > Number[b])
  <2>1. syncStatus.latestCanonical \in Blocks
    BY DEF TypeInv, TypeOK, Statuses
  <2>2. syncStatus.latestCanonical \in kept
    BY <1>2, <1>8, <2>1 DEF CanonicalNumber
  <2>3. \/ Number[syncStatus.latestCanonical] = StartNumber
        \/ syncStatus.latestCanonical \in Rows'
    BY <1>1, <2>2 DEF ParentsInv, CanonicalHasRow
  <2>4. QED BY <1>3, <1>4, <1>5, <1>6, <1>8, <2>3 DEF RowsReady
<1>9. QED BY <1>7, <1>8

LEMMA ParentsStart ==
  ASSUME TypeInv, ParentsInv, Start
  PROVE  ParentsInv'
<1> USE DEF dbVars, queueVars
<1>1. /\ worker = IdleWorker /\ tasks = {}
      /\ eventWorker = IdleEventWorker /\ blockAndEventsMap = {}
  BY DEF Start, ParentsInv, Stopped
<1>2. /\ UNCHANGED <<worker, tasks, eventWorker, blockAndEventsMap>>
      /\ blockQueue' = [j \in BlockQueueJobs |-> 0]
      /\ eventQueue' = [b \in Blocks |-> 0]
      /\ completions' = {}
  BY DEF Start
<1>3. /\ worker'.step = "idle" /\ eventWorker'.block = NoBlock
      /\ ~eventWorker'.wasComplete
  BY <1>1, <1>2 DEF IdleWorker, IdleEventWorker
<1>4. EventsOfRows' /\ TasksReady' /\ Stopped'
  BY <1>1, <1>2, <1>3 DEF EventsOfRows, TasksReady, Stopped
<1>5. CASE UNCHANGED dbVars
  <2>1. RowsReady' /\ AncestorsKept' /\ CompleteApplied' /\ CanonicalHasRow'
    BY <1>3, <1>5, SameRows DEF ParentsInv, CompleteApplied, CanonicalHasRow
  <2>2. FirstHead'
    BY <1>1, <1>2, <1>3, <1>5, SameRows DEF ParentsInv, FirstHead
  <2>3. QED BY <1>4, <2>1, <2>2 DEF ParentsInv
<1>6. CASE /\ syncStatus.latestCanonical # NoBlock
           /\ \E b \in UnprunedAt(ResetHeight) : ResetWatcher(b)
  <2>1. PICK b \in Rows : ResetWatcher(b)
    BY <1>6 DEF UnprunedAt
  <2>2. /\ RowsReady' /\ AncestorsKept'
        /\ Complete' \subseteq applied' /\ EmptyBlocks \cap Rows' \subseteq applied'
        /\ syncStatus'.latestCanonical # NoBlock
        /\ \/ Number[syncStatus'.latestCanonical] = StartNumber
           \/ syncStatus'.latestCanonical \in Rows'
    BY <1>6, <2>1, ParentsReset
  <2>3. CompleteApplied' /\ CanonicalHasRow' /\ FirstHead'
    BY <1>3, <2>2 DEF CompleteApplied, CanonicalHasRow, FirstHead
  <2>4. QED BY <1>4, <2>2, <2>3 DEF ParentsInv
<1>7. QED BY <1>5, <1>6 DEF Start

LEMMA ParentsNext == TypeInv /\ ParentsInv /\ [Next]_vars => ParentsInv'
<1> SUFFICES ASSUME TypeInv, ParentsInv, [Next]_vars PROVE ParentsInv'
  OBVIOUS
<1>1. CASE UNCHANGED vars
  <2>1. UNCHANGED <<progress, applied, syncStatus, blockQueue, eventQueue, completions,
                    running, worker, tasks, eventWorker, blockAndEventsMap>>
    BY <1>1 DEF vars, dbVars, queueVars, memoryVars
  <2>2. RowsReady' /\ AncestorsKept' /\ CompleteApplied' /\ EventsOfRows' /\ TasksReady'
    BY <2>1, SameRows DEF ParentsInv, CompleteApplied, EventsOfRows, TasksReady
  <2>3. CanonicalHasRow' /\ Stopped' /\ FirstHead'
    BY <2>1, SameRows DEF ParentsInv, CanonicalHasRow, Stopped, FirstHead
  <2>4. QED BY <2>2, <2>3 DEF ParentsInv
<1>2. CASE Next
  BY <1>2, ParentsBlockJobs, ParentsIndexBlock, ParentsPruneChain, ParentsProcessEvents,
     ParentsServer, ParentsCrash, ParentsStart DEF Next
<1>3. QED BY <1>1, <1>2

LEMMA InvGivesParentsFirst == TypeInv /\ ParentsInv => ParentsFirst
<1> SUFFICES ASSUME TypeInv, ParentsInv, NEW b \in Blocks,
                    b \in Rows \/ eventQueue[b] > 0 \/ eventWorker.block = b
             PROVE  Number[b] = StartNumber \/ Parent[b] \in applied
  BY DEF ParentsFirst
<1>1. b \in Rows
  BY ChainAssumption DEF ParentsInv, EventsOfRows
<1>2. QED BY <1>1 DEF ParentsInv, RowsReady, Ready

\* However siblings, parent jobs, retries, crashes and restarts interleave, a block
\* that has a row or whose events are queued or in process has a parent all of
\* whose events have reached the entity tables.
THEOREM ParentsProcessedFirst == Spec => []ParentsFirst
<1>1. Init => TypeInv /\ ParentsInv
  BY TypeInit, ParentsInit
<1>2. TypeInv /\ ParentsInv /\ [Next]_vars => (TypeInv /\ ParentsInv)'
  BY TypeNext, ParentsNext
<1>3. QED BY <1>1, <1>2, InvGivesParentsFirst, PTL DEF Spec
=============================================================================
