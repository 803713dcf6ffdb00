--------------------------- MODULE CanonicalProofs ---------------------------
(***************************************************************************)
(* ChainSync's canonical block, for every block tree, reorg depth and      *)
(* bound: how deep it lies, which chain it climbs, and that _pruneChain    *)
(* and the event handlers never leave it pruned.                           *)
(***************************************************************************)
EXTENDS ChainSyncProofs, InductionLemmas

\* _pruneChain works at the reorg depth below the latest indexed height, and what
\* it has chosen is a block of the height it prunes.
PruneDeep ==
  /\ worker.step \in {"mark", "canonical"} =>
       worker.job.height + MaxReorgDepth <= syncStatus.latestIndexed
  /\ worker.step = "canonical" => Number[worker.canonical] = worker.job.height

\* The slack of CanonicalDeep: a crash provides for the step back of the restart
\* that follows it.
RestartsOwed == IF running THEN 0 ELSE 1

DeepOrFirst ==
  syncStatus.latestCanonical # NoBlock =>
    \/ CanonicalNumber(syncStatus) = StartNumber
    \/ CanonicalNumber(syncStatus) + MaxReorgDepth + RestartsOwed
         <= syncStatus.latestIndexed + spent.restarts

DeepInv == PruneDeep /\ DeepOrFirst

-----------------------------------------------------------------------------
(* The numbers are numbers. *)

LEMMA Numbers ==
  ASSUME TypeInv
  PROVE  /\ syncStatus.latestIndexed \in Int /\ spent.restarts \in Nat
         /\ MaxReorgDepth \in Nat /\ StartNumber \in Nat
         /\ \A b \in Blocks : Number[b] \in Nat
         /\ syncStatus.latestCanonical # NoBlock => CanonicalNumber(syncStatus) \in Nat
         /\ worker.job.height \in Nat
<1>1. worker.job \in BlockQueueJobs \cup {NoJob} /\ syncStatus \in Statuses /\ spent \in Spent
  BY DEF TypeInv, TypeOK, Workers
<1>2. MaxHeight \in Nat /\ \A b \in Blocks : Number[b] \in Nat
  BY ChainAssumption
<1>3. worker.job.height \in Nat
  BY <1>1, <1>2 DEF BlockQueueJobs, NumberJob, BlockJob, PruneJob, NoJob, Heights
<1>4. syncStatus.latestIndexed \in Int /\ spent.restarts \in Nat
  BY <1>1, <1>2, BoundAssumption DEF Statuses, Spent
<1>5. QED
  BY <1>1, <1>2, <1>3, <1>4, ChainAssumption, DepthAssumption DEF Statuses, CanonicalNumber

LEMMA DeepInit == Init => DeepInv
  BY DEF Init, DeepInv, PruneDeep, DeepOrFirst, IdleWorker

\* Most steps leave alone what the depth is about, or make the worker idle.
LEMMA DeepKept ==
  ASSUME TypeInv, DeepInv,
         UNCHANGED running, spent'.restarts = spent.restarts,
         syncStatus'.latestCanonical = syncStatus.latestCanonical,
         syncStatus'.latestIndexed \in Int,
         syncStatus'.latestIndexed >= syncStatus.latestIndexed,
         worker' = worker \/ worker'.step \notin {"mark", "canonical"}
  PROVE  DeepInv'
<1>1. PruneDeep'
  BY Numbers DEF DeepInv, PruneDeep
<1>2. DeepOrFirst'
  BY Numbers DEF DeepInv, DeepOrFirst, CanonicalNumber, RestartsOwed
<1>3. QED BY <1>1, <1>2 DEF DeepInv

LEMMA DeepBlockJobs ==
  ASSUME TypeInv, ParentsInv, DeepInv,
         \/ \E j \in BlockQueueJobs : TakeBlockJob(j)
         \/ FetchBlocks \/ CompleteIndexJob \/ BlockJobFault
  PROVE  DeepInv'
<1> USE DEF dbVars, queueVars
<1>1. ASSUME NEW j \in BlockQueueJobs, TakeBlockJob(j) PROVE DeepInv'
  <2>1. j.kind \in {"number", "block", "prune"}
    BY DEF BlockQueueJobs, NumberJob, BlockJob, PruneJob
  <2>2. worker'.step \in {"fetch", "index", "prune"}
    BY <1>1, <2>1 DEF TakeBlockJob, IdleWorker
  <2>3. UNCHANGED <<running, spent, syncStatus>>
    BY <1>1 DEF TakeBlockJob
  <2>4. QED BY <2>2, <2>3, DeepKept, Numbers
<1>2. ASSUME FetchBlocks PROVE DeepInv'
  <2>1. /\ worker'.step = "index" /\ UNCHANGED <<running, spent>>
        /\ worker.step = "fetch"
    BY <1>2 DEF FetchBlocks, TypeInv, TypeOK, Workers
  <2>2. PICK first \in AtHeight(worker.job.height) :
          syncStatus' =
            IF syncStatus.latestCanonical = NoBlock
            THEN [chainHead |-> Number[first], latestIndexed |-> -1,
                  latestCanonical |-> first]
            ELSE [syncStatus EXCEPT
                    !.chainHead = IF @ > Number[first] THEN @ ELSE Number[first]]
    BY <1>2 DEF FetchBlocks
  <2>3. CASE syncStatus.latestCanonical = NoBlock
    <3>1. worker.job = NumberJob(StartNumber)
      BY <2>1, <2>3 DEF ParentsInv, FirstHead
    <3>2. CanonicalNumber(syncStatus') = StartNumber
      BY <2>2, <2>3, <3>1 DEF AtHeight, NumberJob, CanonicalNumber
    <3>3. QED BY <2>1, <3>2 DEF DeepInv, PruneDeep, DeepOrFirst, CanonicalNumber
  <2>4. CASE syncStatus.latestCanonical # NoBlock
    <3>1. /\ syncStatus'.latestCanonical = syncStatus.latestCanonical
          /\ syncStatus'.latestIndexed = syncStatus.latestIndexed
      BY <2>2, <2>4 DEF TypeInv, TypeOK, Statuses
    <3>2. QED BY <2>1, <3>1, DeepKept, Numbers
  <2>5. QED BY <2>3, <2>4
<1>3. ASSUME CompleteIndexJob PROVE DeepInv'
  <2>1. worker'.step = "idle" /\ UNCHANGED <<running, spent, syncStatus>>
    BY <1>3 DEF CompleteIndexJob, CompleteBlockJob, IdleWorker
  <2>2. QED BY <2>1, DeepKept, Numbers
<1>4. ASSUME BlockJobFault PROVE DeepInv'
  <2>1. worker'.step = "idle" /\ UNCHANGED <<running, syncStatus>>
    BY <1>4 DEF BlockJobFault, RetryBlockJob, IdleWorker
  <2>2. spent'.restarts = spent.restarts
    BY <1>4 DEF BlockJobFault, Fault, TypeInv, TypeOK, Spent
  <2>3. QED BY <2>1, <2>2, DeepKept, Numbers
<1>5. QED BY <1>1, <1>2, <1>3, <1>4

LEMMA DeepIndexBlock ==
  ASSUME TypeInv, ParentsInv, DeepInv, NEW t \in tasks, IndexBlock(t) \/ TaskFault(t)
  PROVE  DeepInv'
<1>1. /\ UNCHANGED <<syncStatus, running>>
      /\ worker' = worker \/ worker' = IdleWorker
  BY DEF IndexBlock, TaskFault, CheckPruning, AskForPruning, ReadProgress, PushParentJob,
         SaveBlock, PushEventsJob, Throw, dbVars
<1>2. spent'.restarts = spent.restarts
  BY DEF IndexBlock, TaskFault, CheckPruning, ReadProgress, PushParentJob, SaveBlock,
         PushEventsJob, Fault, TypeInv, TypeOK, Spent
<1>3. QED BY <1>1, <1>2, DeepKept, Numbers DEF IdleWorker

LEMMA DeepPruneChain ==
  ASSUME TypeInv, ParentsInv, DeepInv, PruneChain
  PROVE  DeepInv'
<1> USE DEF dbVars, queueVars
<1>1. UNCHANGED <<running, spent>>
  BY DEF PruneChain, ReadPruneHeight, MarkBlocksAsPruned, UpdateCanonicalBlock
<1>2. ASSUME UNCHANGED syncStatus, worker' = IdleWorker PROVE DeepInv'
  BY <1>1, <1>2, DeepKept, Numbers DEF IdleWorker
<1>3. ASSUME UNCHANGED syncStatus, PruneDeep' PROVE DeepInv'
  BY <1>1, <1>3 DEF DeepInv, DeepOrFirst, RestartsOwed
<1>4. ASSUME ReadPruneHeight PROVE DeepInv'
  <2>1. UNCHANGED syncStatus
    BY <1>4 DEF ReadPruneHeight
  <2>2. CASE worker' = IdleWorker
    BY <1>2, <2>1, <2>2
  <2>3. CASE /\ ~(syncStatus.latestIndexed < worker.job.height + MaxReorgDepth)
             /\ worker' = [worker EXCEPT !.step = "mark",
                                         !.blocks = UnprunedAt(worker.job.height)]
    <3>1. worker'.step = "mark" /\ worker'.job = worker.job
      BY <2>3 DEF TypeInv, TypeOK, Workers
    <3>2. QED BY <1>3, <2>1, <2>3, <3>1, Numbers DEF PruneDeep
  <2>4. QED BY <1>4, <2>2, <2>3 DEF ReadPruneHeight, RetryBlockJob, CompleteBlockJob
<1>5. ASSUME MarkBlocksAsPruned PROVE DeepInv'
  <2> DEFINE h == worker.job.height
             heads == UnprunedAt(h + MaxReorgDepth)
  <2>1. UNCHANGED syncStatus /\ worker.step = "mark"
    BY <1>5 DEF MarkBlocksAsPruned
  <2>2. /\ worker.blocks # {}
        /\ \A b \in worker.blocks : b \in Rows /\ Number[b] = h
        /\ h + MaxReorgDepth <= syncStatus.latestIndexed
    BY <2>1 DEF ParentsInv, CanonicalHasRow, DeepInv, PruneDeep
  <2>3. ASSUME NEW kept, Number[kept] = h,
               worker' = [worker EXCEPT !.step = "canonical", !.canonical = kept]
        PROVE  DeepInv'
    <3>1. /\ worker'.step = "canonical" /\ worker'.canonical = kept
          /\ worker'.job = worker.job
      BY <2>3 DEF TypeInv, TypeOK, Workers
    <3>2. PruneDeep'
      BY <2>1, <2>2, <2>3, <3>1 DEF PruneDeep
    <3>3. QED BY <1>3, <2>1, <3>2
  <2>4. CASE Cardinality(worker.blocks) = 1
    <3>1. Number[CHOOSE b \in worker.blocks : TRUE] = h
      BY <2>2
    <3>2. QED BY <1>5, <2>3, <2>4, <3>1 DEF MarkBlocksAsPruned
  <2>5. CASE Cardinality(worker.blocks) # 1 /\ heads = {}
    BY <1>2, <1>5, <2>1, <2>5 DEF MarkBlocksAsPruned, RetryBlockJob
  <2>6. CASE Cardinality(worker.blocks) # 1 /\ heads # {}
    <3>1. PICK x \in heads :
            worker' = [worker EXCEPT !.step = "canonical",
                         !.canonical = AncestorAtPruneHeight(x)]
      BY <1>5, <2>6 DEF MarkBlocksAsPruned
    <3>2. x \in Rows /\ x \in Blocks /\ Number[x] = h + MaxReorgDepth
      BY DEF UnprunedAt, Rows
    <3>3. h >= StartNumber /\ h \in Nat
      BY <2>2, Numbers DEF ParentsInv, RowsReady, Ready, Rows
    <3>4. /\ Number[x] - MaxReorgDepth >= StartNumber
          /\ MaxReorgDepth \in 0..MaxReorgDepth
      BY <3>2, <3>3, Numbers
    <3>5. Number[AncestorAtPruneHeight(x)] = Number[x] - MaxReorgDepth
      BY <3>2, <3>4 DEF AncestorAtPruneHeight, ParentsInv, AncestorsKept
    <3>6. Number[AncestorAtPruneHeight(x)] = h
      BY <3>2, <3>3, <3>5, Numbers
    <3>7. QED BY <2>3, <3>1, <3>6
  <2>7. QED BY <2>4, <2>5, <2>6
<1>6. ASSUME UpdateCanonicalBlock PROVE DeepInv'
  <2>1. /\ worker'.step = "idle"
        /\ worker.canonical \in Rows /\ worker.canonical \in Blocks
        /\ Number[worker.canonical] + MaxReorgDepth <= syncStatus.latestIndexed
        /\ running
    BY <1>6, RunningNow DEF UpdateCanonicalBlock, CompleteBlockJob, IdleWorker, ParentsInv,
                            CanonicalHasRow, Rows, DeepInv, PruneDeep
  <2>2. PruneDeep'
    BY <2>1 DEF PruneDeep
  <2>3. /\ syncStatus'.latestCanonical \in {syncStatus.latestCanonical, worker.canonical}
        /\ syncStatus'.latestIndexed = syncStatus.latestIndexed
    BY <1>6 DEF UpdateCanonicalBlock, TypeInv, TypeOK, Statuses
  <2>4. CASE syncStatus'.latestCanonical = syncStatus.latestCanonical
    BY <1>1, <2>1, <2>3, <2>4, DeepKept, Numbers
  <2>5. CASE syncStatus'.latestCanonical = worker.canonical
    BY <1>1, <2>1, <2>2, <2>3, <2>5, Numbers
    DEF DeepInv, DeepOrFirst, CanonicalNumber, RestartsOwed
  <2>6. QED BY <2>3, <2>4, <2>5
<1>7. QED BY <1>4, <1>5, <1>6 DEF PruneChain

LEMMA DeepProcessEvents ==
  ASSUME TypeInv, ParentsInv, DeepInv,
         \/ \E b \in Blocks : TakeEventsJob(b)
         \/ RefetchEvents \/ FinishEvents \/ FailEvents \/ CommitPartly
  PROVE  DeepInv'
<1>1. UNCHANGED <<running, worker, syncStatus>>
  BY DEF TakeEventsJob, RefetchEvents, FinishEvents, FailEvents, CommitPartly, dbVars
<1>2. spent'.restarts = spent.restarts
  BY DEF TakeEventsJob, RefetchEvents, FinishEvents, FailEvents, CommitPartly, Fault,
         TypeInv, TypeOK, Spent
<1>3. QED BY <1>1, <1>2, DeepKept, Numbers

LEMMA DeepServer ==
  ASSUME TypeInv, ParentsInv, DeepInv, Server
  PROVE  DeepInv'
<1> USE DEF dbVars, queueVars, memoryVars
<1>1. UNCHANGED <<running, worker>> /\ spent'.restarts = spent.restarts
  BY DEF Server, OnIndexComplete, OnPruneComplete, OnEventsComplete, ServerStart,
         TypeInv, TypeOK, Spent
<1>2. \/ UNCHANGED syncStatus
      \/ \E j \in completions : syncStatus' = Indexed(j.height)
  BY DEF Server, OnIndexComplete, OnPruneComplete, OnEventsComplete, ServerStart
<1>3. CASE UNCHANGED syncStatus
  BY <1>1, <1>3, DeepKept, Numbers
<1>4. CASE \E j \in completions : syncStatus' = Indexed(j.height)
  <2>1. PICK j \in completions : syncStatus' = Indexed(j.height)
    BY <1>4
  <2>2. j.height \in Nat
    BY Numbers DEF TypeInv, TypeOK, BlockQueueJobs, EventsJobs, NumberJob, BlockJob, PruneJob,
                   EventsJob, Heights
  <2>3. /\ syncStatus'.latestCanonical = syncStatus.latestCanonical
        /\ syncStatus'.latestIndexed \in Int
        /\ syncStatus'.latestIndexed >= syncStatus.latestIndexed
    BY <2>1, <2>2, Numbers DEF Indexed, TypeInv, TypeOK, Statuses
  <2>4. QED BY <1>1, <2>3, DeepKept
<1>5. QED BY <1>2, <1>3, <1>4

LEMMA DeepRestart ==
  ASSUME TypeInv, ParentsInv, DeepInv, Crash \/ Start
  PROVE  DeepInv'
<1> USE DEF dbVars, queueVars
<1>1. ASSUME Crash PROVE DeepInv'
  <2>1. /\ running /\ ~running' /\ UNCHANGED syncStatus /\ worker'.step = "idle"
        /\ spent'.restarts = spent.restarts + 1
    BY <1>1 DEF Crash, IdleWorker, TypeInv, TypeOK, Spent
  <2>2. RestartsOwed = 0 /\ RestartsOwed' = 1
    BY <2>1 DEF RestartsOwed
  <2>3. QED BY <2>1, <2>2, Numbers DEF DeepInv, PruneDeep, DeepOrFirst, CanonicalNumber
<1>2. ASSUME Start PROVE DeepInv'
  <2>1. UNCHANGED spent /\ worker'.step = "idle" /\ ~running
    BY <1>2 DEF Start, ParentsInv, Stopped, IdleWorker
  <2>2. RestartsOwed = 1 /\ RestartsOwed' \in {0, 1}
    BY <2>1 DEF RestartsOwed
  <2>3. PruneDeep'
    BY <2>1 DEF PruneDeep
  <2>4. CASE UNCHANGED dbVars
    BY <2>1, <2>2, <2>3, <2>4, Numbers DEF DeepInv, DeepOrFirst, CanonicalNumber
  <2>5. CASE /\ syncStatus.latestCanonical # NoBlock
             /\ running'
             /\ \E b \in UnprunedAt(ResetHeight) : ResetWatcher(b)
    <3>1. PICK b \in UnprunedAt(ResetHeight) : ResetWatcher(b)
      BY <2>5
    <3>2. b \in Rows /\ b \in Blocks /\ Number[b] = syncStatus.latestIndexed - 1
      BY DEF UnprunedAt, Rows, ResetHeight
    <3>3. Number[b] >= StartNumber
      BY <3>2, Numbers DEF ParentsInv, RowsReady, Ready
    <3>4. /\ syncStatus'.latestIndexed = Number[b]
          /\ syncStatus'.latestCanonical = IF CanonicalNumber(syncStatus) > Number[b]
                                            THEN b ELSE syncStatus.latestCanonical
      BY <3>1 DEF ResetWatcher
    <3>5. RestartsOwed' = 0
      BY <2>5 DEF RestartsOwed
    <3>6. \/ CanonicalNumber(syncStatus) = StartNumber
          \/ CanonicalNumber(syncStatus) + MaxReorgDepth + 1
               <= syncStatus.latestIndexed + spent.restarts
      BY <2>2, <2>5 DEF DeepInv, DeepOrFirst
    <3>7. CASE CanonicalNumber(syncStatus) > Number[b]
      BY <2>1, <2>3, <2>5, <3>2, <3>3, <3>4, <3>5, <3>6, <3>7, Numbers
      DEF DeepInv, DeepOrFirst, CanonicalNumber
    <3>8. CASE ~(CanonicalNumber(syncStatus) > Number[b])
      BY <2>1, <2>3, <2>5, <3>2, <3>3, <3>4, <3>5, <3>6, <3>8, Numbers
      DEF DeepInv, DeepOrFirst, CanonicalNumber
    <3>9. QED BY <3>7, <3>8
  <2>6. QED BY <1>2, <2>4, <2>5 DEF Start
<1>3. QED BY <1>1, <1>2

LEMMA DeepNext == TypeInv /\ ParentsInv /\ DeepInv /\ [Next]_vars => DeepInv'
<1> SUFFICES ASSUME TypeInv, ParentsInv, DeepInv, [Next]_vars PROVE DeepInv'
  OBVIOUS
<1>1. CASE UNCHANGED vars
  BY <1>1, DeepKept, Numbers DEF vars, dbVars, queueVars, memoryVars
<1>2. CASE Next
  BY <1>2, DeepBlockJobs, DeepIndexBlock, DeepPruneChain, DeepProcessEvents, DeepServer,
     DeepRestart DEF Next
<1>3. QED BY <1>1, <1>2

LEMMA DeepGivesCanonicalDeep == TypeInv /\ DeepInv => CanonicalDeep
  BY Numbers DEF DeepInv, DeepOrFirst, CanonicalDeep, RestartsOwed

\* A canonical block above the start lies the reorg depth below the latest indexed
\* height, up to the one height each restart steps back, whatever pruning jobs,
\* index jobs and restarts come in whatever order.
THEOREM CanonicalIsDeep == Spec => []CanonicalDeep
<1>1. Init => TypeInv /\ ParentsInv /\ DeepInv
  BY TypeInit, ParentsInit, DeepInit
<1>2. TypeInv /\ ParentsInv /\ DeepInv /\ [Next]_vars => (TypeInv /\ ParentsInv /\ DeepInv)'
  BY TypeNext, ParentsNext, DeepNext
<1>3. QED BY <1>1, <1>2, DeepGivesCanonicalDeep, PTL DEF Spec

-----------------------------------------------------------------------------
(* Which blocks are pruned, and which chain the canonical block climbs. *)

\* The block getAncestorAtDepth finds from some block the reorg depth above it.
IsTrunk(b) ==
  \E x \in Blocks : Number[x] = Number[b] + MaxReorgDepth /\ AncestorAt[MaxReorgDepth][x] = b

\* The one block of the start height: the first chain head, and what it became.
FirstBlocks ==
  {b \in Blocks :
     /\ Number[b] = StartNumber
     /\ \/ b \in Rows
        \/ b = syncStatus.latestCanonical
        \/ \E t \in tasks : t.block = b /\ (t.isCanonical \/ t.step = "save")}

\* What is marked as pruned has a row and is never on the trunk; a handler that holds
\* isPruned holds the row's, so that it prunes nothing when it writes the row back.
PrunedRows ==
  /\ isPruned \subseteq Rows
  /\ eventWorker.wasPruned => eventWorker.block \in isPruned
  /\ ShallowForks => \A b \in isPruned : ~IsTrunk(b)

\* Pruning jobs come in order: _pruneChain works at the height above the canonical one,
\* where it finds the trunk among the blocks that are not pruned.
PruneOrder ==
  /\ \A n \in Heights : blockQueue[PruneJob(n)] > 0 => n <= CanonicalNumber(syncStatus) + 1
  /\ worker.job.kind = "prune" => worker.job.height <= CanonicalNumber(syncStatus) + 1
  /\ worker.step \in {"prune", "mark", "canonical"} => worker.job.kind = "prune"
  /\ worker.step \in {"mark", "canonical"} => worker.job.height > CanonicalNumber(syncStatus)
  /\ worker.step = "mark" =>
       /\ worker.blocks \cap isPruned = {}
       /\ ShallowForks => \E b \in worker.blocks : IsTrunk(b)
  /\ worker.step = "canonical" /\ ShallowForks =>
       worker.canonical \notin isPruned /\ IsTrunk(worker.canonical)

\* Every height from the start up to a block with a row has a block with a row, and so
\* has the latest indexed height.
NoGaps ==
  /\ \A x \in Rows, n \in StartNumber..MaxHeight :
       n <= Number[x] => \E y \in Rows : Number[y] = n
  /\ syncStatus.latestIndexed >= 0 => \E x \in Rows : Number[x] = syncStatus.latestIndexed

OneFirst == \A x, y \in FirstBlocks : x = y

\* The canonical block is on the trunk, unless restarts have eaten into it.
OnTrunk ==
  LET c == syncStatus.latestCanonical IN
  ShallowForks /\ c # NoBlock =>
    /\ c \notin isPruned
    /\ spent.restarts <= MaxReorgDepth => Number[c] = StartNumber \/ IsTrunk(c)

TrunkInv == PrunedRows /\ PruneOrder /\ NoGaps /\ OneFirst /\ OnTrunk

-----------------------------------------------------------------------------
(* Ancestors. *)

LEMMA Depths ==
  /\ MaxReorgDepth \in Nat /\ MaxReorgDepth \in 0..MaxReorgDepth /\ StartNumber \in Nat
  /\ StartNumber > 0 /\ MaxHeight \in Nat
  /\ \A b \in Blocks : /\ Number[b] \in Nat /\ Number[b] \in 0..MaxHeight
                       /\ Number[b] > 0 => Parent[b] \in Blocks /\ Number[Parent[b]] = Number[b] - 1
  BY ChainAssumption, DepthAssumption

\* The ancestor k blocks up is a block, k heights below.
LEMMA AncestorNumber ==
  \A k \in 0..MaxReorgDepth, b \in Blocks :
    Number[b] >= k => AncestorAt[k][b] \in Blocks /\ Number[AncestorAt[k][b]] = Number[b] - k
<1> DEFINE Good(k) == \A b \in Blocks : Number[b] >= k =>
                        AncestorAt[k][b] \in Blocks /\ Number[AncestorAt[k][b]] = Number[b] - k
           Bad == {k \in 0..MaxReorgDepth : ~Good(k)}
<1>1. SUFFICES ASSUME Bad # {} PROVE FALSE
  OBVIOUS
<1>2. PICK m \in Bad : \A n \in Bad : m <= n
  <2>1. Bad \subseteq Nat
    BY Depths
  <2> HIDE DEF Bad
  <2>2. QED BY <1>1, <2>1, LeastNumber
<1>3. m \in Nat /\ m \in 0..MaxReorgDepth
  BY Depths
<1>4. CASE m = 0
  BY <1>4, Depths, DepthAssumption
<1>5. CASE m > 0
  <2>1. m - 1 \in 0..MaxReorgDepth /\ m \in 1..MaxReorgDepth
    BY <1>3, <1>5, Depths
  <2>2. Good(m - 1)
    BY <1>2, <1>3, <2>1
  <2>3. ASSUME NEW b \in Blocks, Number[b] >= m
        PROVE  AncestorAt[m][b] \in Blocks /\ Number[AncestorAt[m][b]] = Number[b] - m
    <3>1. AncestorAt[m][b] = AncestorAt[m - 1][Parent[b]]
      BY <2>1, <2>3, DepthAssumption
    <3>2. Parent[b] \in Blocks /\ Number[Parent[b]] = Number[b] - 1 /\ Number[b] \in Nat
      BY <1>3, <1>5, <2>3, Depths
    <3>3. Number[Parent[b]] >= m - 1 /\ Number[Parent[b]] - (m - 1) = Number[b] - m
      BY <1>3, <2>3, <3>2
    <3>4. QED BY <2>2, <3>1, <3>2, <3>3
  <2>4. QED BY <2>3
<1>6. QED BY <1>3, <1>4, <1>5

\* The ancestor of the parent is the parent of the ancestor.
LEMMA AncestorOfParent ==
  \A k \in 0..MaxReorgDepth, b \in Blocks :
    Number[b] > k => AncestorAt[k][Parent[b]] = Parent[AncestorAt[k][b]]
<1> DEFINE Good(k) == \A b \in Blocks :
                        Number[b] > k => AncestorAt[k][Parent[b]] = Parent[AncestorAt[k][b]]
           Bad == {k \in 0..MaxReorgDepth : ~Good(k)}
<1>1. SUFFICES ASSUME Bad # {} PROVE FALSE
  OBVIOUS
<1>2. PICK m \in Bad : \A n \in Bad : m <= n
  <2>1. Bad \subseteq Nat
    BY Depths
  <2> HIDE DEF Bad
  <2>2. QED BY <1>1, <2>1, LeastNumber
<1>3. m \in Nat /\ m \in 0..MaxReorgDepth
  BY Depths
<1>4. CASE m = 0
  BY <1>4, Depths, DepthAssumption
<1>5. CASE m > 0
  <2>1. m - 1 \in 0..MaxReorgDepth /\ m \in 1..MaxReorgDepth
    BY <1>3, <1>5, Depths
  <2>2. Good(m - 1)
    BY <1>2, <1>3, <2>1
  <2>3. ASSUME NEW b \in Blocks, Number[b] > m
        PROVE  AncestorAt[m][Parent[b]] = Parent[AncestorAt[m][b]]
    <3>1. /\ Parent[b] \in Blocks /\ Number[Parent[b]] = Number[b] - 1 /\ Number[b] \in Nat
          /\ Number[b] >= m /\ Number[Parent[b]] >= m /\ Number[Parent[b]] > m - 1
      BY <1>3, <1>5, <2>3, Depths
    <3>2. AncestorAt[m][b] = AncestorAt[m - 1][Parent[b]]
      BY <2>1, <3>1, DepthAssumption
    <3>3. AncestorAt[m][Parent[b]] = AncestorAt[m - 1][Parent[Parent[b]]]
      BY <2>1, <3>1, DepthAssumption
    <3>4. AncestorAt[m - 1][Parent[Parent[b]]] = Parent[AncestorAt[m - 1][Parent[b]]]
      BY <2>2, <3>1
    <3>5. QED BY <3>2, <3>3, <3>4
  <2>4. QED BY <2>3
<1>6. QED BY <1>3, <1>4, <1>5

\* While forks are shallow, a height has one block on the trunk.
LEMMA TrunkIsOne ==
  ASSUME ShallowForks, NEW a \in Blocks, NEW b \in Blocks, IsTrunk(a), IsTrunk(b),
         Number[a] = Number[b], Number[a] >= StartNumber
  PROVE  a = b
<1>1. PICK x \in Blocks : Number[x] = Number[a] + MaxReorgDepth /\ AncestorAt[MaxReorgDepth][x] = a
  BY DEF IsTrunk
<1>2. PICK y \in Blocks : Number[y] = Number[b] + MaxReorgDepth /\ AncestorAt[MaxReorgDepth][y] = b
  BY DEF IsTrunk
<1>3. Number[x] = Number[y] /\ Number[x] >= StartNumber + MaxReorgDepth
  BY <1>1, <1>2, Depths
<1>4. QED BY <1>1, <1>2, <1>3 DEF ShallowForks

\* The trunk is a chain.
LEMMA TrunkParent ==
  ASSUME NEW a \in Blocks, IsTrunk(a), Number[a] > 0
  PROVE  IsTrunk(Parent[a])
<1>1. PICK x \in Blocks : Number[x] = Number[a] + MaxReorgDepth /\ AncestorAt[MaxReorgDepth][x] = a
  BY DEF IsTrunk
<1>2. Number[x] > MaxReorgDepth /\ Number[x] > 0
  BY <1>1, Depths
<1>3. AncestorAt[MaxReorgDepth][Parent[x]] = Parent[a]
  BY <1>1, <1>2, AncestorOfParent, Depths
<1>4. Parent[x] \in Blocks /\ Number[Parent[x]] = Number[Parent[a]] + MaxReorgDepth
  BY <1>1, <1>2, Depths
<1>5. QED BY <1>3, <1>4 DEF IsTrunk

-----------------------------------------------------------------------------
(* What the steps have in common. *)

\* Only the calls in flight change, and none becomes canonical or is to be saved.
LEMMA FirstBlocksKept ==
  ASSUME Rows' = Rows, syncStatus'.latestCanonical = syncStatus.latestCanonical,
         \A u \in tasks' : u.isCanonical \/ u.step = "save" =>
           \E t \in tasks : t.block = u.block /\ (t.isCanonical \/ t.step = "save")
  PROVE  FirstBlocks' \subseteq FirstBlocks
  BY DEF FirstBlocks

\* Most steps prune nothing and leave the canonical block and the height being pruned.
LEMMA TrunkKept ==
  ASSUME TypeInv, TrunkInv,
         isPruned' \subseteq isPruned, isPruned' \subseteq Rows',
         eventWorker'.wasPruned => eventWorker'.block \in isPruned',
         syncStatus'.latestCanonical = syncStatus.latestCanonical,
         spent'.restarts \in Nat, spent'.restarts >= spent.restarts,
         worker' \in {worker, IdleWorker},
         \A n \in Heights : blockQueue'[PruneJob(n)] > 0 =>
           \/ blockQueue[PruneJob(n)] > 0
           \/ PruneJob(n) = worker.job
           \/ n = CanonicalNumber(syncStatus) + 1,
         NoGaps', FirstBlocks' \subseteq FirstBlocks
  PROVE  TrunkInv'
<1> USE DEF TrunkInv
<1>1. PrunedRows'
  BY DEF PrunedRows
<1>2. OnTrunk'
  BY Numbers DEF OnTrunk
<1>3. OneFirst'
  BY DEF OneFirst
<1>4. PruneOrder'
  <2>1. CanonicalNumber(syncStatus)' = CanonicalNumber(syncStatus)
    BY DEF CanonicalNumber
  <2>2. ASSUME NEW n \in Heights, blockQueue'[PruneJob(n)] > 0
        PROVE  n <= CanonicalNumber(syncStatus) + 1
    <3>1. CASE blockQueue[PruneJob(n)] > 0
      BY <3>1 DEF PruneOrder
    <3>2. CASE PruneJob(n) = worker.job
      BY <3>2 DEF PruneOrder, PruneJob
    <3>3. CASE n = CanonicalNumber(syncStatus) + 1
      <4>1. n \in Nat
        BY ChainAssumption DEF Heights
      <4>2. QED BY <3>3, <4>1
    <3>4. QED BY <2>2, <3>1, <3>2, <3>3
  <2>3. CASE worker' = worker
    BY <2>1, <2>2, <2>3 DEF PruneOrder
  <2>4. CASE worker' = IdleWorker
    <3>1. worker'.step = "idle" /\ worker'.job.kind = "none"
      BY <2>4 DEF IdleWorker, NoJob
    <3>2. QED BY <2>1, <2>2, <3>1 DEF PruneOrder
  <2>5. QED BY <2>3, <2>4
<1>5. QED BY <1>1, <1>2, <1>3, <1>4

\* A push adds no pruning job but the one pushed.
LEMMA PruneJobsAdded ==
  ASSUME TypeInv, NEW j, NEW n \in Heights, Push(blockQueue, j)[PruneJob(n)] > 0
  PROVE  blockQueue[PruneJob(n)] > 0 \/ PruneJob(n) = j
  BY PushAdds DEF TypeInv, TypeOK, BlockQueueJobs

LEMMA TrunkInit == Init => TrunkInv
<1> SUFFICES ASSUME Init PROVE TrunkInv
  OBVIOUS
<1>1. Rows = {} /\ tasks = {} /\ syncStatus.latestCanonical = NoBlock /\ syncStatus.latestIndexed = -1
  BY DEF Init, Rows
<1>2. FirstBlocks = {}
  BY <1>1, ChainAssumption DEF FirstBlocks
<1>3. PrunedRows /\ NoGaps /\ OneFirst /\ OnTrunk
  BY <1>1, <1>2 DEF Init, PrunedRows, NoGaps, OneFirst, OnTrunk, IdleEventWorker
<1>4. PruneOrder
  BY DEF Init, PruneOrder, IdleWorker, NoJob, BlockQueueJobs
<1>5. QED BY <1>3, <1>4 DEF TrunkInv

-----------------------------------------------------------------------------
(* The steps. *)

LEMMA SameNoGaps ==
  ASSUME TrunkInv, Rows' = Rows, syncStatus'.latestIndexed = syncStatus.latestIndexed
  PROVE  NoGaps'
  BY DEF TrunkInv, NoGaps

LEMMA TrunkBlockJobs ==
  ASSUME TypeInv, ParentsInv, TrunkInv,
         \/ \E j \in BlockQueueJobs : TakeBlockJob(j)
         \/ FetchBlocks \/ CompleteIndexJob \/ BlockJobFault
  PROVE  TrunkInv'
<1> USE DEF dbVars, queueVars
<1>1. UNCHANGED <<progress, isPruned, eventWorker>> /\ Rows' = Rows
  BY DEF TakeBlockJob, FetchBlocks, CompleteIndexJob, BlockJobFault, Rows
<1>2. /\ isPruned' \subseteq isPruned /\ isPruned' \subseteq Rows'
      /\ eventWorker'.wasPruned => eventWorker'.block \in isPruned'
  BY <1>1 DEF TrunkInv, PrunedRows
<1>3. ASSUME NEW j \in BlockQueueJobs, TakeBlockJob(j) PROVE TrunkInv'
  <2>1. /\ UNCHANGED <<syncStatus, spent>>
        /\ blockQueue[j] > 0 /\ blockQueue' = [blockQueue EXCEPT ![j] = @ - 1]
        /\ tasks' \subseteq tasks \cup {NewTask(j.block)}
    BY <1>3 DEF TakeBlockJob
  <2>2. /\ worker'.job = j /\ worker'.step \notin {"mark", "canonical"}
        /\ worker'.step = "prune" => j.kind = "prune"
    <3>1. j.kind \in {"number", "block", "prune"}
      BY DEF BlockQueueJobs, NumberJob, BlockJob, PruneJob
    <3>2. QED BY <1>3, <3>1 DEF TakeBlockJob, IdleWorker
  <2>3. ASSUME NEW n \in Heights, blockQueue'[PruneJob(n)] > 0 PROVE blockQueue[PruneJob(n)] > 0
    <3>1. PruneJob(n) \in BlockQueueJobs /\ blockQueue \in [BlockQueueJobs -> 0..MaxCopies]
          /\ MaxCopies \in Nat
      BY BoundAssumption DEF BlockQueueJobs, TypeInv, TypeOK
    <3>2. QED BY <2>1, <2>3, <3>1
  <2>4. j.kind = "prune" => j.height <= CanonicalNumber(syncStatus) + 1
    <3>1. j.kind = "prune" => \E n \in Heights : j = PruneJob(n)
      BY DEF BlockQueueJobs, NumberJob, BlockJob, PruneJob
    <3>2. QED BY <2>1, <3>1 DEF TrunkInv, PruneOrder, PruneJob
  <2>5. PruneOrder'
    BY <2>1, <2>2, <2>3, <2>4 DEF TrunkInv, PruneOrder
  <2>6. FirstBlocks' \subseteq FirstBlocks
    BY <1>1, <2>1, FirstBlocksKept DEF NewTask
  <2>7. PrunedRows' /\ NoGaps' /\ OneFirst' /\ OnTrunk'
    BY <1>1, <2>1, <2>6, SameNoGaps DEF TrunkInv, PrunedRows, OneFirst, OnTrunk
  <2>8. QED BY <2>5, <2>7 DEF TrunkInv
<1>4. ASSUME FetchBlocks PROVE TrunkInv'
  <2>1. /\ worker.step = "fetch" /\ worker'.step = "index" /\ worker'.job = worker.job
        /\ UNCHANGED <<blockQueue, spent>>
    BY <1>4 DEF FetchBlocks, TypeInv, TypeOK, Workers
  <2>a. PICK siblings \in SUBSET AtHeight(worker.job.height) \ {{}} :
          \E first \in siblings :
            /\ tasks' = tasks \cup {NewTask(b) : b \in siblings}
            /\ syncStatus' =
                 IF syncStatus.latestCanonical = NoBlock
                 THEN [chainHead |-> Number[first], latestIndexed |-> -1,
                       latestCanonical |-> first]
                 ELSE [syncStatus EXCEPT
                         !.chainHead = IF @ > Number[first] THEN @ ELSE Number[first]]
    BY <1>4 DEF FetchBlocks
  <2>2. PICK first \in siblings :
          /\ tasks' = tasks \cup {NewTask(b) : b \in siblings}
          /\ syncStatus' =
               IF syncStatus.latestCanonical = NoBlock
               THEN [chainHead |-> Number[first], latestIndexed |-> -1,
                     latestCanonical |-> first]
               ELSE [syncStatus EXCEPT
                       !.chainHead = IF @ > Number[first] THEN @ ELSE Number[first]]
    BY <2>a
  <2>3. first \in Blocks /\ Number[first] = worker.job.height
    BY DEF AtHeight
  <2>4. CASE syncStatus.latestCanonical = NoBlock
    <3>1. /\ worker.job = NumberJob(StartNumber) /\ Rows = {} /\ tasks = {}
          /\ \A j \in BlockQueueJobs : blockQueue[j] > 0 => j = NumberJob(StartNumber)
      BY <2>1, <2>4 DEF ParentsInv, FirstHead
    <3>2. /\ syncStatus'.latestCanonical = first /\ syncStatus'.latestIndexed = -1
          /\ Number[first] = StartNumber /\ isPruned = {}
      BY <2>2, <2>3, <2>4, <3>1 DEF NumberJob, TrunkInv, PrunedRows
    <3>3. FirstBlocks' \subseteq {first}
      <4>1. \A t \in tasks' : ~t.isCanonical /\ t.step # "save"
        BY <2>2, <3>1 DEF NewTask
      <4>2. QED BY <1>1, <3>1, <3>2, <4>1 DEF FirstBlocks
    <3>4. PruneOrder'
      <4>1. \A n \in Heights : PruneJob(n) \in BlockQueueJobs /\ PruneJob(n) # NumberJob(StartNumber)
        BY DEF BlockQueueJobs, PruneJob, NumberJob
      <4>2. QED BY <2>1, <3>1, <4>1 DEF PruneOrder, NumberJob
    <3>5. PrunedRows' /\ NoGaps' /\ OneFirst' /\ OnTrunk'
      BY <1>1, <1>2, <3>1, <3>2, <3>3 DEF PrunedRows, NoGaps, OneFirst, OnTrunk
    <3>6. QED BY <3>4, <3>5 DEF TrunkInv
  <2>5. CASE syncStatus.latestCanonical # NoBlock
    <3>1. /\ syncStatus'.latestCanonical = syncStatus.latestCanonical
          /\ syncStatus'.latestIndexed = syncStatus.latestIndexed
      BY <2>2, <2>5 DEF TypeInv, TypeOK, Statuses
    <3>2. FirstBlocks' \subseteq FirstBlocks
      <4>1. \A u \in tasks' : u.isCanonical \/ u.step = "save" => u \in tasks
        BY <2>2 DEF NewTask
      <4>2. QED BY <1>1, <3>1, <4>1, FirstBlocksKept
    <3>3. PruneOrder'
      BY <2>1, <3>1 DEF TrunkInv, PruneOrder, CanonicalNumber
    <3>4. PrunedRows' /\ NoGaps' /\ OneFirst' /\ OnTrunk'
      BY <1>1, <1>2, <2>1, <3>1, <3>2, SameNoGaps DEF TrunkInv, PrunedRows, OneFirst, OnTrunk
    <3>5. QED BY <3>3, <3>4 DEF TrunkInv
  <2>6. QED BY <2>4, <2>5
<1>5. ASSUME CompleteIndexJob \/ BlockJobFault PROVE TrunkInv'
  <2>1. /\ UNCHANGED <<syncStatus, tasks>> /\ worker' = IdleWorker
        /\ blockQueue' \in {blockQueue, Push(blockQueue, worker.job)}
    BY <1>5 DEF CompleteIndexJob, CompleteBlockJob, BlockJobFault, RetryBlockJob
  <2>2. spent'.restarts = spent.restarts
    BY <1>5 DEF CompleteIndexJob, BlockJobFault, Fault, TypeInv, TypeOK, Spent
  <2>3. FirstBlocks' \subseteq FirstBlocks
    BY <1>1, <2>1, FirstBlocksKept
  <2>4. \A n \in Heights : blockQueue'[PruneJob(n)] > 0 =>
          blockQueue[PruneJob(n)] > 0 \/ PruneJob(n) = worker.job
    BY <2>1, PruneJobsAdded
  <2>5. NoGaps'
    BY <1>1, <2>1, SameNoGaps
  <2>6. QED BY <1>2, <2>1, <2>2, <2>3, <2>4, <2>5, TrunkKept, Numbers
<1>6. QED BY <1>3, <1>4, <1>5

\* A block that becomes ready extends the rows upwards, by one height.
LEMMA NoGapsExtended ==
  ASSUME TypeInv, ParentsInv, TrunkInv, NEW b \in Blocks, Ready(b), Rows' = Rows \cup {b},
         UNCHANGED syncStatus
  PROVE  NoGaps'
<1>1. ASSUME NEW n \in StartNumber..MaxHeight, n <= Number[b]
      PROVE  \E y \in Rows' : Number[y] = n
  <2>1. CASE n = Number[b]
    BY <2>1
  <2>2. CASE n # Number[b]
    <3>1. Parent[b] \in Rows /\ n <= Number[Parent[b]]
      BY <1>1, <2>2, Depths DEF Ready
    <3>2. QED BY <1>1, <3>1 DEF TrunkInv, NoGaps
  <2>3. QED BY <2>1, <2>2
<1>2. QED BY <1>1 DEF TrunkInv, NoGaps

LEMMA TrunkIndexBlock ==
  ASSUME TypeInv, ParentsInv, TrunkInv, NEW t \in tasks, IndexBlock(t) \/ TaskFault(t)
  PROVE  TrunkInv'
<1> USE DEF dbVars, queueVars
<1>1. /\ t \in Tasks /\ t.block \in Blocks /\ TaskReady(t) /\ tasks \subseteq Tasks
  BY DEF TypeInv, TypeOK, Tasks, ParentsInv, TasksReady
<1>2. /\ UNCHANGED <<syncStatus, isPruned, eventWorker>>
      /\ worker' \in {worker, IdleWorker}
  BY DEF IndexBlock, TaskFault, CheckPruning, AskForPruning, ReadProgress, PushParentJob,
         SaveBlock, PushEventsJob, Throw
<1>3. spent'.restarts = spent.restarts
  BY DEF IndexBlock, TaskFault, CheckPruning, ReadProgress, PushParentJob, SaveBlock,
         PushEventsJob, Fault, TypeInv, TypeOK, Spent
<1>4. \A n \in Heights : blockQueue'[PruneJob(n)] > 0 =>
           \/ blockQueue[PruneJob(n)] > 0
           \/ PruneJob(n) = worker.job
           \/ n = CanonicalNumber(syncStatus) + 1
  <2>1. \A n \in Heights : /\ PruneJob(n) \in BlockQueueJobs /\ PruneJob(n).height = n
                           /\ PruneJob(n).kind = "prune"
    BY DEF BlockQueueJobs, PruneJob
  <2>2. blockQueue \in [BlockQueueJobs -> 0..MaxCopies]
    BY DEF TypeInv, TypeOK
  <2>3. CASE \/ blockQueue' = blockQueue
             \/ blockQueue' = Push(blockQueue, worker.job)
             \/ blockQueue' = Push(blockQueue, BlockJob(Parent[t.block]))
    <3>1. \A n \in Heights : PruneJob(n) # BlockJob(Parent[t.block])
      BY DEF PruneJob, BlockJob
    <3>2. QED BY <2>3, <3>1, PruneJobsAdded
  <2>4. ASSUME NEW queue, queue = PushPruningJob(blockQueue, syncStatus),
               blockQueue' \in {queue, Push(queue, worker.job)}, NEW n \in Heights,
               blockQueue'[PruneJob(n)] > 0
        PROVE  \/ blockQueue[PruneJob(n)] > 0
               \/ PruneJob(n) = worker.job
               \/ n = CanonicalNumber(syncStatus) + 1
    <3>1. queue \in [BlockQueueJobs -> 0..MaxCopies]
      BY <2>2, <2>4, PushType DEF PushPruningJob
    <3>2. queue[PruneJob(n)] > 0 \/ PruneJob(n) = worker.job
      BY <2>1, <2>4, <3>1, PushAdds
    <3>3. queue[PruneJob(n)] > 0 =>
            blockQueue[PruneJob(n)] > 0 \/ PruneJob(n) = PruneJob(CanonicalNumber(syncStatus) + 1)
      BY <2>1, <2>2, <2>4, PushPruningAdds
    <3>4. QED BY <2>1, <3>2, <3>3 DEF PruneJob
  <2>5. \/ blockQueue' = blockQueue
        \/ blockQueue' = Push(blockQueue, worker.job)
        \/ blockQueue' = Push(blockQueue, BlockJob(Parent[t.block]))
        \/ blockQueue' \in {PushPruningJob(blockQueue, syncStatus),
                            Push(PushPruningJob(blockQueue, syncStatus), worker.job)}
    BY DEF IndexBlock, TaskFault, CheckPruning, AskForPruning, ReadProgress, PushParentJob,
           SaveBlock, PushEventsJob, Throw
  <2>6. QED BY <2>3, <2>4, <2>5
<1>5. ASSUME NoGaps', Rows \subseteq Rows', FirstBlocks' \subseteq FirstBlocks PROVE TrunkInv'
  <2>1. /\ isPruned' \subseteq Rows'
        /\ eventWorker'.wasPruned => eventWorker'.block \in isPruned'
    BY <1>2, <1>5 DEF TrunkInv, PrunedRows
  <2>2. QED BY <1>2, <1>3, <1>4, <1>5, <2>1, TrunkKept, Numbers
<1>6. ASSUME Rows' = Rows,
             \A u \in tasks' : u.isCanonical \/ u.step = "save" =>
               \E s \in tasks : s.block = u.block /\ (s.isCanonical \/ s.step = "save")
      PROVE  TrunkInv'
  BY <1>2, <1>5, <1>6, FirstBlocksKept, SameNoGaps
<1>7. ASSUME NEW queue, Throw(t, queue), Rows' = Rows PROVE TrunkInv'
  <2>1. \A u \in tasks' : \E s \in tasks : /\ s.block = u.block /\ s.isCanonical = u.isCanonical
                                           /\ s.step = u.step
    BY <1>1, <1>7 DEF Throw, Tasks
  <2>2. QED BY <1>6, <1>7, <2>1
<1>8. ASSUME NEW u, Become(t, u), u.block = t.block, Rows' = Rows,
             u.isCanonical \/ u.step = "save" => t.isCanonical \/ t.step = "save"
      PROVE  TrunkInv'
  BY <1>6, <1>8 DEF Become
<1>9. ASSUME UNCHANGED progress PROVE Rows' = Rows
  BY <1>9 DEF Rows
<1>10. ASSUME TaskFault(t) PROVE TrunkInv'
  BY <1>7, <1>9, <1>10 DEF TaskFault
<1>11. ASSUME CheckPruning(t) PROVE TrunkInv'
  <2> DEFINE u == [t EXCEPT !.step = "read",
                     !.isCanonical = (t.block = syncStatus.latestCanonical)]
  <2>1. Rows' = Rows
    BY <1>9, <1>11 DEF CheckPruning
  <2>2. CASE \E queue : Throw(t, queue)
    BY <1>7, <2>1, <2>2
  <2>3. CASE Become(t, u)
    <3>1. u.block = t.block /\ u.step = "read" /\ u.isCanonical = (t.block = syncStatus.latestCanonical)
      BY <1>1 DEF Tasks
    <3>2. FirstBlocks' \subseteq FirstBlocks
      BY <1>1, <1>2, <2>1, <2>3, <3>1 DEF FirstBlocks, Become
    <3>3. QED BY <1>2, <1>5, <2>1, <3>2, SameNoGaps
  <2>4. QED BY <1>11, <2>2, <2>3 DEF CheckPruning, AskForPruning
<1>12. ASSUME ReadProgress(t) PROVE TrunkInv'
  <2> DEFINE p == Parent[t.block]
             Next1(u) == /\ u.block = t.block /\ u.isCanonical = t.isCanonical
                         /\ u.step = "save" => t.isCanonical \/ ParentProcessed(p)
  <2>1. Rows' = Rows
    BY <1>9, <1>12 DEF ReadProgress
  <2>2. Number[t.block] > 0 /\ Number[t.block] \in Nat /\ p \in Blocks
        /\ Number[p] = Number[t.block] - 1
    BY <1>1, <1>12, Depths DEF ReadProgress, TaskReady
  <2> DEFINE b == t.block
             firstRow == IF p \in Rows THEN p ELSE b
             u == IF t.isCanonical
                  THEN IF {p, b} \cap Rows = {}
                       THEN [t EXCEPT !.step = "save"]
                       ELSE [t EXCEPT !.step = "push", !.target = firstRow]
                  ELSE IF ~ParentProcessed(p)
                       THEN [t EXCEPT !.step = "parent"]
                       ELSE IF b \in Rows
                       THEN [t EXCEPT !.step = "push", !.target = b]
                       ELSE [t EXCEPT !.step = "save"]
  <2>3. Become(t, u)
    BY <1>12 DEF ReadProgress
  <2>a. Next1(u)
    BY <1>1 DEF Tasks
  <2> HIDE DEF u
  <2>4. Become(t, u) /\ Next1(u)
    BY <2>3, <2>a
  <2>5. CASE u.isCanonical \/ u.step = "save" => t.isCanonical \/ t.step = "save"
    BY <1>8, <2>1, <2>4, <2>5
  <2>6. CASE u.step = "save" /\ ~t.isCanonical
    <3>1. p \in Rows
      BY <2>4, <2>6 DEF ParentProcessed, Complete, Rows
    <3>2. Number[p] >= StartNumber
      BY <2>2, <3>1, Depths DEF ParentsInv, RowsReady, Ready
    <3>3. Number[t.block] # StartNumber
      BY <2>2, <3>2, Depths
    <3>4. FirstBlocks' \subseteq FirstBlocks
      BY <1>2, <2>1, <2>4, <3>3 DEF FirstBlocks, Become
    <3>5. QED BY <1>2, <1>5, <2>1, <3>4, SameNoGaps
  <2>7. QED BY <2>4, <2>5, <2>6
<1>13. ASSUME PushParentJob(t) \/ PushEventsJob(t) PROVE TrunkInv'
  BY <1>6, <1>9, <1>13 DEF PushParentJob, PushEventsJob
<1>14. ASSUME SaveBlock(t) PROVE TrunkInv'
  <2> DEFINE b == t.block
             u == [t EXCEPT !.step = "push", !.target = b]
  <2>1. t.step = "save" /\ Ready(b)
    BY <1>1, <1>14 DEF SaveBlock, TaskReady
  <2>2. CASE b \notin blockAndEventsMap /\ b \in Rows
    BY <1>7, <1>9, <1>14, <2>2 DEF SaveBlock
  <2>3. u.block = b /\ u.isCanonical = t.isCanonical /\ u.step = "push"
    BY <1>1 DEF Tasks
  <2>4. CASE b \in blockAndEventsMap
    <3>1. Become(t, u) /\ UNCHANGED progress
      BY <1>14, <2>4 DEF SaveBlock
    <3>2. QED BY <1>8, <1>9, <2>1, <2>3, <3>1
  <2>5. CASE b \notin blockAndEventsMap /\ b \notin Rows
    <3>1. Become(t, u) /\ progress' = [progress EXCEPT ![b] = SavedRow(b)]
      BY <1>14, <2>5 DEF SaveBlock
    <3>2. Rows' = Rows \cup {b}
      BY <1>1, <3>1 DEF Rows, SavedRow, TypeInv, TypeOK
    <3>3. FirstBlocks' \subseteq FirstBlocks
      BY <1>1, <1>2, <2>1, <2>3, <3>1, <3>2 DEF FirstBlocks, Become
    <3>4. NoGaps'
      BY <1>1, <1>2, <2>1, <3>2, NoGapsExtended
    <3>5. QED BY <1>5, <3>2, <3>3, <3>4
  <2>6. QED BY <2>2, <2>4, <2>5
<1>15. QED
  BY <1>10, <1>11, <1>12, <1>13, <1>14 DEF IndexBlock

\* Among the blocks _pruneChain finds to choose from there is the one on the trunk.
LEMMA TrunkUnpruned ==
  ASSUME TypeInv, ParentsInv, TrunkInv, ShallowForks, NEW n \in Nat, UnprunedAt(n) # {},
         ~(syncStatus.latestIndexed < n + MaxReorgDepth)
  PROVE  \E b \in UnprunedAt(n) : IsTrunk(b)
<1>1. PICK u \in Rows : Number[u] = n
  BY DEF UnprunedAt
<1>2. n >= StartNumber
  BY <1>1, Depths DEF ParentsInv, RowsReady, Ready, Rows
<1>3. syncStatus.latestIndexed >= 0 /\ syncStatus.latestIndexed >= n + MaxReorgDepth
  BY Numbers
<1>4. PICK x \in Rows : Number[x] = syncStatus.latestIndexed
  BY <1>3 DEF TrunkInv, NoGaps
<1>5. n + MaxReorgDepth \in StartNumber..MaxHeight /\ n + MaxReorgDepth <= Number[x]
  BY <1>2, <1>3, <1>4, Depths DEF Rows
<1>6. PICK y \in Rows : Number[y] = n + MaxReorgDepth
  BY <1>5 DEF TrunkInv, NoGaps
<1>7. Number[y] - MaxReorgDepth = n
  BY <1>6, Depths
<1> DEFINE a == AncestorAt[MaxReorgDepth][y]
<1>8. a \in Rows /\ Number[a] = n
  BY <1>2, <1>7, Depths DEF ParentsInv, AncestorsKept
<1>9. IsTrunk(a)
  BY <1>6, <1>8 DEF IsTrunk, Rows
<1>10. a \notin isPruned
  BY <1>9 DEF TrunkInv, PrunedRows
<1>11. QED BY <1>8, <1>9, <1>10 DEF UnprunedAt, Rows

LEMMA TrunkPruneChain ==
  ASSUME TypeInv, ParentsInv, DeepInv, TrunkInv, PruneChain
  PROVE  TrunkInv'
<1> USE DEF dbVars, queueVars
<1> DEFINE h == worker.job.height
           old == syncStatus.latestCanonical
<1>1. /\ UNCHANGED <<progress, tasks, eventWorker, spent>> /\ Rows' = Rows
      /\ worker.step \in {"prune", "mark", "canonical"} /\ worker.job.kind = "prune"
  BY DEF PruneChain, ReadPruneHeight, MarkBlocksAsPruned, UpdateCanonicalBlock, Rows,
         TrunkInv, PruneOrder
<1>2. old # NoBlock /\ CanonicalNumber(syncStatus) \in Nat /\ h \in Nat
      /\ h <= CanonicalNumber(syncStatus) + 1
  BY <1>1, Numbers DEF ParentsInv, FirstHead, TrunkInv, PruneOrder
<1>3. ASSUME UNCHANGED <<syncStatus, isPruned>>, worker' = IdleWorker,
             blockQueue' \in {blockQueue, Push(blockQueue, worker.job)}
      PROVE  TrunkInv'
  <2>1. /\ isPruned' \subseteq isPruned /\ isPruned' \subseteq Rows'
        /\ eventWorker'.wasPruned => eventWorker'.block \in isPruned'
    BY <1>1, <1>3 DEF TrunkInv, PrunedRows
  <2>2. \A n \in Heights : blockQueue'[PruneJob(n)] > 0 =>
          blockQueue[PruneJob(n)] > 0 \/ PruneJob(n) = worker.job
    BY <1>3, PruneJobsAdded
  <2>3. FirstBlocks' \subseteq FirstBlocks /\ NoGaps'
    BY <1>1, <1>3, FirstBlocksKept, SameNoGaps
  <2>4. QED BY <1>1, <1>3, <2>1, <2>2, <2>3, TrunkKept, Numbers
<1>4. ASSUME ReadPruneHeight PROVE TrunkInv'
  <2>1. UNCHANGED <<syncStatus, isPruned>>
    BY <1>4 DEF ReadPruneHeight
  <2>2. CASE worker' = IdleWorker
    <3>1. blockQueue' \in {blockQueue, Push(blockQueue, worker.job)}
      <4>1. worker' # [worker EXCEPT !.step = "mark", !.blocks = UnprunedAt(h)]
        BY <2>2 DEF TypeInv, TypeOK, Workers, IdleWorker
      <4>2. QED BY <1>4, <4>1 DEF ReadPruneHeight, RetryBlockJob, CompleteBlockJob
    <3>2. QED BY <1>3, <2>1, <2>2, <3>1
  <2>3. CASE /\ ~(syncStatus.latestIndexed < h + MaxReorgDepth)
             /\ ~(CanonicalNumber(syncStatus) >= h)
             /\ UnprunedAt(h) # {}
             /\ worker' = [worker EXCEPT !.step = "mark", !.blocks = UnprunedAt(h)]
             /\ UNCHANGED blockQueue
    <3>1. /\ worker'.step = "mark" /\ worker'.job = worker.job
          /\ worker'.blocks = UnprunedAt(h)
      BY <2>3 DEF TypeInv, TypeOK, Workers
    <3>2. UnprunedAt(h) \cap isPruned = {}
      BY DEF UnprunedAt
    <3>3. ShallowForks => \E b \in UnprunedAt(h) : IsTrunk(b)
      BY <1>2, <2>3, TrunkUnpruned
    <3>4. PruneOrder'
      BY <1>1, <1>2, <2>1, <2>3, <3>1, <3>2, <3>3 DEF TrunkInv, PruneOrder, IsTrunk, ShallowForks
    <3>5. FirstBlocks' \subseteq FirstBlocks /\ NoGaps'
      BY <1>1, <2>1, FirstBlocksKept, SameNoGaps
    <3>6. PrunedRows' /\ OneFirst' /\ OnTrunk'
      BY <1>1, <2>1, <3>5 DEF TrunkInv, PrunedRows, OneFirst, OnTrunk
    <3>7. QED BY <3>4, <3>5, <3>6 DEF TrunkInv
  <2>4. QED BY <1>4, <2>2, <2>3 DEF ReadPruneHeight, RetryBlockJob, CompleteBlockJob
<1>5. ASSUME MarkBlocksAsPruned PROVE TrunkInv'
  <2>1. UNCHANGED syncStatus /\ worker.step = "mark" /\ h > CanonicalNumber(syncStatus)
    BY <1>5 DEF MarkBlocksAsPruned, TrunkInv, PruneOrder
  <2>2. /\ worker.blocks \cap isPruned = {} /\ worker.blocks \subseteq Rows
        /\ \A b \in worker.blocks : Number[b] = h
        /\ ShallowForks => \E b \in worker.blocks : IsTrunk(b)
        /\ h + MaxReorgDepth <= syncStatus.latestIndexed
        /\ h >= StartNumber
    <3>1. worker.blocks # {} /\ \A b \in worker.blocks : b \in Rows /\ Number[b] = h
      BY <2>1 DEF ParentsInv, CanonicalHasRow
    <3>2. h >= StartNumber
      BY <3>1, Depths DEF ParentsInv, RowsReady, Ready, Rows
    <3>3. QED BY <2>1, <3>1, <3>2 DEF TrunkInv, PruneOrder, DeepInv, PruneDeep
  <2>3. ASSUME NEW kept, NEW others \in SUBSET worker.blocks,
               isPruned' = isPruned \cup others, UNCHANGED blockQueue,
               worker' = [worker EXCEPT !.step = "canonical", !.canonical = kept],
               ShallowForks =>
                 kept \notin isPruned' /\ IsTrunk(kept) /\ \A b \in others : ~IsTrunk(b)
        PROVE  TrunkInv'
    <3>1. worker'.step = "canonical" /\ worker'.canonical = kept /\ worker'.job = worker.job
      BY <2>3 DEF TypeInv, TypeOK, Workers
    <3>2. PruneOrder'
      BY <1>1, <1>2, <2>1, <2>3, <3>1 DEF TrunkInv, PruneOrder, IsTrunk, ShallowForks
    <3>3. FirstBlocks' \subseteq FirstBlocks /\ NoGaps'
      BY <1>1, <2>1, FirstBlocksKept, SameNoGaps
    <3>4. PrunedRows'
      BY <1>1, <2>2, <2>3 DEF TrunkInv, PrunedRows, IsTrunk, ShallowForks
    <3>5. OnTrunk'
      <4>1. old \notin others
        BY <1>2, <2>1, <2>2 DEF CanonicalNumber
      <4>2. QED BY <1>1, <2>1, <2>3, <4>1 DEF TrunkInv, OnTrunk, IsTrunk, ShallowForks
    <3>6. OneFirst'
      BY <3>3 DEF TrunkInv, OneFirst
    <3>7. QED BY <3>2, <3>3, <3>4, <3>5, <3>6 DEF TrunkInv
  <2>4. CASE Cardinality(worker.blocks) = 1
    <3>1. \A x, y \in worker.blocks : x = y
      <4>1. PICK z : worker.blocks = {z}
        <5>1. IsFiniteSet(worker.blocks)
          BY BlocksAssumption, FS_Subset DEF TypeInv, TypeOK, Workers
        <5>2. QED BY <2>4, <5>1, FS_Singleton
      <4>2. QED BY <4>1
    <3>2. ShallowForks => IsTrunk(CHOOSE b \in worker.blocks : TRUE)
                          /\ (CHOOSE b \in worker.blocks : TRUE) \notin isPruned
      BY <2>2, <3>1
    <3>3. /\ worker' = [worker EXCEPT !.step = "canonical",
                          !.canonical = CHOOSE b \in worker.blocks : TRUE]
          /\ isPruned' = isPruned \cup {} /\ UNCHANGED blockQueue
      BY <1>5, <2>4 DEF MarkBlocksAsPruned
    <3>4. QED BY <2>3, <3>2, <3>3
  <2>5. CASE Cardinality(worker.blocks) # 1 /\ UnprunedAt(h + MaxReorgDepth) = {}
    BY <1>3, <1>5, <2>1, <2>5 DEF MarkBlocksAsPruned, RetryBlockJob
  <2>6. CASE Cardinality(worker.blocks) # 1 /\ UnprunedAt(h + MaxReorgDepth) # {}
    <3>1. PICK x \in UnprunedAt(h + MaxReorgDepth) :
            /\ isPruned' = isPruned \cup BlocksToBePruned(AncestorAtPruneHeight(x))
            /\ worker' = [worker EXCEPT !.step = "canonical",
                            !.canonical = AncestorAtPruneHeight(x)]
            /\ UNCHANGED blockQueue
      BY <1>5, <2>6 DEF MarkBlocksAsPruned
    <3> DEFINE a == AncestorAt[MaxReorgDepth][x]
    <3>2. x \in Blocks /\ Number[x] = h + MaxReorgDepth
      BY DEF UnprunedAt, Rows
    <3>3. a \in Blocks /\ Number[a] = h /\ IsTrunk(a)
      <4>1. Number[x] >= MaxReorgDepth /\ Number[x] - MaxReorgDepth = h
        BY <1>2, <3>2, Depths
      <4>2. a \in Blocks /\ Number[a] = h
        BY <3>2, <4>1, AncestorNumber, Depths
      <4>3. QED BY <3>2, <4>2 DEF IsTrunk
    <3>4. ASSUME ShallowForks
          PROVE  a \notin isPruned /\ \A b \in worker.blocks \ {a} : ~IsTrunk(b)
      BY <2>2, <3>3, <3>4, TrunkIsOne DEF TrunkInv, PrunedRows, Rows
    <3>5. /\ isPruned' = isPruned \cup (worker.blocks \ {a})
          /\ worker' = [worker EXCEPT !.step = "canonical", !.canonical = a]
      BY <3>1 DEF AncestorAtPruneHeight, BlocksToBePruned
    <3>6. QED BY <2>3, <3>1, <3>3, <3>4, <3>5
  <2>7. QED BY <2>4, <2>5, <2>6
<1>6. ASSUME UpdateCanonicalBlock PROVE TrunkInv'
  <2> DEFINE new == worker.canonical
  <2>1. /\ worker.step = "canonical" /\ worker' = IdleWorker
        /\ UNCHANGED <<isPruned, blockQueue>>
    BY <1>6 DEF UpdateCanonicalBlock, CompleteBlockJob
  <2>2. /\ h > CanonicalNumber(syncStatus) /\ Number[new] = h /\ new \in Rows
        /\ ShallowForks => new \notin isPruned /\ IsTrunk(new)
    BY <2>1 DEF TrunkInv, PruneOrder, DeepInv, PruneDeep, ParentsInv, CanonicalHasRow
  <2>3. /\ syncStatus'.latestCanonical = new
        /\ syncStatus'.latestIndexed = syncStatus.latestIndexed
    BY <1>2, <1>6, <2>2 DEF UpdateCanonicalBlock, TypeInv, TypeOK, Statuses
  <2>4. CanonicalNumber(syncStatus)' = CanonicalNumber(syncStatus) + 1
    BY <1>2, <2>2, <2>3 DEF CanonicalNumber
  <2>5. PruneOrder'
    <3>1. worker'.step = "idle" /\ worker'.job.kind = "none"
      BY <2>1 DEF IdleWorker, NoJob
    <3>2. \A n \in Heights : n \in Nat
      BY Depths DEF Heights
    <3>3. QED BY <1>2, <2>1, <2>4, <3>1, <3>2 DEF TrunkInv, PruneOrder
  <2>6. FirstBlocks' \subseteq FirstBlocks
    BY <1>1, <2>2, <2>3 DEF FirstBlocks
  <2>7. OnTrunk'
    BY <2>1, <2>2, <2>3 DEF OnTrunk, IsTrunk, ShallowForks
  <2>8. PrunedRows' /\ NoGaps' /\ OneFirst'
    BY <1>1, <2>1, <2>3, <2>6, SameNoGaps DEF TrunkInv, PrunedRows, OneFirst, IsTrunk, ShallowForks
  <2>9. QED BY <2>5, <2>7, <2>8 DEF TrunkInv
<1>7. QED BY <1>4, <1>5, <1>6 DEF PruneChain

LEMMA TrunkProcessEvents ==
  ASSUME TypeInv, ParentsInv, TrunkInv,
         \/ \E b \in Blocks : TakeEventsJob(b)
         \/ RefetchEvents \/ FinishEvents \/ FailEvents \/ CommitPartly
  PROVE  TrunkInv'
<1> USE DEF dbVars, queueVars
<1> DEFINE e == eventWorker.block
<1>1. /\ UNCHANGED <<syncStatus, blockQueue, worker, tasks>>
      /\ spent'.restarts = spent.restarts
  BY DEF TakeEventsJob, RefetchEvents, FinishEvents, FailEvents, CommitPartly, Fault,
         TypeInv, TypeOK, Spent
<1>2. ASSUME Rows' = Rows, isPruned' \subseteq isPruned,
             eventWorker'.wasPruned => eventWorker'.block \in isPruned'
      PROVE  TrunkInv'
  <2>1. isPruned' \subseteq Rows'
    BY <1>2 DEF TrunkInv, PrunedRows
  <2>2. FirstBlocks' \subseteq FirstBlocks /\ NoGaps'
    BY <1>1, <1>2, FirstBlocksKept, SameNoGaps
  <2>3. QED BY <1>1, <1>2, <2>1, <2>2, TrunkKept, Numbers
<1>3. ASSUME NEW b \in Blocks, TakeEventsJob(b) PROVE TrunkInv'
  <2>1. UNCHANGED <<progress, isPruned>> /\ Rows' = Rows
    BY <1>3 DEF TakeEventsJob, Rows
  <2>2. eventWorker'.block = b /\ eventWorker'.wasPruned = (b \in isPruned)
    BY <1>3 DEF TakeEventsJob
  <2>3. QED BY <1>2, <2>1, <2>2
<1>4. ASSUME eventWorker.step # "idle" PROVE e \in Rows /\ e \in Blocks
  BY <1>4, ChainAssumption DEF Rows, ParentsInv, EventsOfRows, TypeInv, EventWorkerHasBlock
<1>5. ASSUME RefetchEvents PROVE TrunkInv'
  <2>1. e \in Rows /\ progress' = [progress EXCEPT ![e] = SavedRow(e)] /\ UNCHANGED isPruned
    BY <1>4, <1>5 DEF RefetchEvents
  <2>2. Rows' = Rows
    BY <2>1 DEF Rows, SavedRow, TypeInv, TypeOK
  <2>3. /\ eventWorker'.wasPruned = eventWorker.wasPruned
        /\ eventWorker'.block = eventWorker.block
    BY <1>5 DEF RefetchEvents, TypeInv, TypeOK, EventWorkers
  <2>4. QED BY <1>2, <2>1, <2>2, <2>3 DEF TrunkInv, PrunedRows
<1>6. ASSUME eventWorker' = IdleEventWorker, eventWorker.step # "idle",
             \/ WriteRow(e, "complete") \/ WriteRow(e, "incomplete")
             \/ UNCHANGED <<progress, isPruned>>
      PROVE  TrunkInv'
  <2>1. Rows' = Rows
    BY <1>4, <1>6 DEF Rows, WriteRow, TypeInv, TypeOK
  <2>2. isPruned' \subseteq isPruned
    BY <1>6 DEF WriteRow, TrunkInv, PrunedRows
  <2>3. QED BY <1>2, <1>6, <2>1, <2>2 DEF IdleEventWorker
<1>7. CASE FinishEvents
  BY <1>6, <1>7 DEF FinishEvents
<1>8. CASE FailEvents
  BY <1>6, <1>8 DEF FailEvents, RetryEvents
<1>9. CASE CommitPartly
  BY <1>6, <1>9 DEF CommitPartly, RetryEvents
<1>10. QED BY <1>3, <1>5, <1>7, <1>8, <1>9

LEMMA TrunkServer ==
  ASSUME TypeInv, ParentsInv, TrunkInv, Server
  PROVE  TrunkInv'
<1> USE DEF dbVars, queueVars, memoryVars
<1>1. /\ UNCHANGED <<progress, isPruned, worker, tasks, eventWorker>> /\ Rows' = Rows
      /\ spent'.restarts = spent.restarts
  BY DEF Server, OnIndexComplete, OnPruneComplete, OnEventsComplete, ServerStart, Rows,
         TypeInv, TypeOK, Spent
<1>2. /\ isPruned' \subseteq isPruned /\ isPruned' \subseteq Rows'
      /\ eventWorker'.wasPruned => eventWorker'.block \in isPruned'
  BY <1>1 DEF TrunkInv, PrunedRows
<1>3. ASSUME syncStatus'.latestCanonical = syncStatus.latestCanonical, NoGaps',
             \A n \in Heights : blockQueue'[PruneJob(n)] > 0 =>
               blockQueue[PruneJob(n)] > 0 \/ n = CanonicalNumber(syncStatus) + 1
      PROVE  TrunkInv'
  <2>1. FirstBlocks' \subseteq FirstBlocks
    BY <1>1, <1>3, FirstBlocksKept
  <2>2. QED BY <1>1, <1>2, <1>3, <2>1, TrunkKept, Numbers
<1>4. ASSUME NEW status, CanonicalNumber(status) = CanonicalNumber(syncStatus), NEW n \in Heights,
             \/ blockQueue' = blockQueue
             \/ blockQueue' = PushPruningJob(blockQueue, status)
             \/ \E m : blockQueue' = Push(blockQueue, NumberJob(m)),
             blockQueue'[PruneJob(n)] > 0
      PROVE  blockQueue[PruneJob(n)] > 0 \/ n = CanonicalNumber(syncStatus) + 1
  <2>1. /\ PruneJob(n) \in BlockQueueJobs /\ PruneJob(n).height = n
        /\ \A m : PruneJob(m).height = m /\ PruneJob(n) # NumberJob(m)
        /\ blockQueue \in [BlockQueueJobs -> 0..MaxCopies]
    BY DEF BlockQueueJobs, PruneJob, NumberJob, TypeInv, TypeOK
  <2>2. QED BY <1>4, <2>1, PushAdds, PushPruningAdds
<1>5. ASSUME NEW j \in completions, OnIndexComplete(j) PROVE TrunkInv'
  <2> DEFINE status == Indexed(j.height)
  <2>1. j.height \in Nat
    BY Numbers, Depths DEF TypeInv, TypeOK, BlockQueueJobs, EventsJobs, NumberJob, BlockJob,
                           PruneJob, EventsJob, Heights
  <2>2. CASE UnprunedAt(j.height) = {}
    BY <1>1, <1>3, <1>5, <2>2, SameNoGaps DEF OnIndexComplete
  <2>3. CASE UnprunedAt(j.height) # {}
    <3>1. /\ syncStatus' = status
          /\ blockQueue' \in {blockQueue, PushPruningJob(blockQueue, status)}
      BY <1>5, <2>3 DEF OnIndexComplete
    <3>2. /\ status.latestCanonical = syncStatus.latestCanonical
          /\ status.latestIndexed \in {syncStatus.latestIndexed, j.height}
      BY DEF Indexed, TypeInv, TypeOK, Statuses
    <3>3. \E x \in Rows : Number[x] = j.height
      BY <2>3 DEF UnprunedAt
    <3>4. NoGaps'
      BY <1>1, <3>1, <3>2, <3>3 DEF TrunkInv, NoGaps
    <3>5. CanonicalNumber(status) = CanonicalNumber(syncStatus)
      BY <3>2 DEF CanonicalNumber
    <3>6. QED BY <1>3, <1>4, <3>1, <3>2, <3>4, <3>5
  <2>4. QED BY <2>2, <2>3
<1>6. ASSUME \/ \E j \in completions : OnPruneComplete(j) \/ OnEventsComplete(j)
             \/ ServerStart
      PROVE  TrunkInv'
  <2>1. UNCHANGED syncStatus
    BY <1>6 DEF OnPruneComplete, OnEventsComplete, ServerStart
  <2>2. \/ blockQueue' = blockQueue
        \/ blockQueue' = PushPruningJob(blockQueue, syncStatus)
        \/ \E m : blockQueue' = Push(blockQueue, NumberJob(m))
    BY <1>6 DEF OnPruneComplete, OnEventsComplete, ServerStart
  <2>3. NoGaps'
    BY <1>1, <2>1, SameNoGaps
  <2>4. QED BY <1>3, <1>4, <2>1, <2>2, <2>3
<1>7. QED BY <1>5, <1>6 DEF Server

\* A restart goes back to a height above the canonical one, unless restarts have eaten
\* into the reorg depth.
LEMMA ResetAboveCanonical ==
  ASSUME TypeInv, ParentsInv, DeepInv, ~running, syncStatus.latestCanonical # NoBlock,
         NEW b \in UnprunedAt(ResetHeight), spent.restarts <= MaxReorgDepth
  PROVE  CanonicalNumber(syncStatus) <= Number[b]
<1>1. b \in Rows /\ b \in Blocks /\ Number[b] = syncStatus.latestIndexed - 1
  BY DEF UnprunedAt, Rows, ResetHeight
<1>2. Number[b] >= StartNumber
  BY <1>1, Depths DEF ParentsInv, RowsReady, Ready
<1>3. \/ CanonicalNumber(syncStatus) = StartNumber
      \/ CanonicalNumber(syncStatus) + MaxReorgDepth + 1
           <= syncStatus.latestIndexed + spent.restarts
  BY DEF DeepInv, DeepOrFirst, RestartsOwed
<1>4. QED BY <1>1, <1>2, <1>3, Numbers

LEMMA TrunkReset ==
  ASSUME TypeInv, ParentsInv, DeepInv, TrunkInv, ~running,
         syncStatus.latestCanonical # NoBlock,
         NEW b \in UnprunedAt(ResetHeight), ResetWatcher(b),
         blockQueue' = [j \in BlockQueueJobs |-> 0],
         UNCHANGED <<worker, tasks, eventWorker, spent>>
  PROVE  TrunkInv'
<1> DEFINE kept == {c \in Blocks : Number[c] <= Number[b]}
<1>1. b \in Rows /\ b \in Blocks /\ b \notin isPruned
  BY DEF UnprunedAt, Rows
<1>2. Rows' = Rows \cap kept /\ isPruned' = isPruned \cap kept
  BY DEF ResetWatcher, Rows
<1>3. /\ syncStatus'.latestIndexed = Number[b]
      /\ syncStatus'.latestCanonical = IF CanonicalNumber(syncStatus) > Number[b]
                                        THEN b ELSE syncStatus.latestCanonical
  BY DEF ResetWatcher
<1>4. /\ isPruned' \subseteq isPruned /\ isPruned' \subseteq Rows'
      /\ worker' = IdleWorker /\ eventWorker' = IdleEventWorker
  BY <1>2 DEF TrunkInv, PrunedRows, ParentsInv, Stopped
<1>5. NoGaps'
  <2>1. ASSUME NEW x \in Rows', NEW n \in StartNumber..MaxHeight, n <= Number[x]
        PROVE  \E y \in Rows' : Number[y] = n
    <3>1. x \in Rows /\ x \in kept
      BY <1>2
    <3>2. PICK y \in Rows : Number[y] = n
      BY <2>1, <3>1 DEF TrunkInv, NoGaps
    <3>3. y \in kept
      BY <1>1, <2>1, <3>1, <3>2, Depths DEF Rows
    <3>4. QED BY <1>2, <3>2, <3>3
  <2>2. b \in Rows'
    BY <1>1, <1>2, Depths
  <2>3. QED BY <1>3, <2>1, <2>2 DEF NoGaps
<1>6. FirstBlocks' \subseteq FirstBlocks
  BY <1>1, <1>2, <1>3 DEF FirstBlocks
<1>7. PrunedRows' /\ OneFirst'
  BY <1>4, <1>6 DEF TrunkInv, PrunedRows, OneFirst, IdleEventWorker, IsTrunk, ShallowForks
<1>8. PruneOrder'
  <2>1. \A n \in Heights : blockQueue'[PruneJob(n)] = 0
    BY DEF BlockQueueJobs
  <2>2. worker'.step = "idle" /\ worker'.job.kind = "none"
    BY <1>4 DEF IdleWorker, NoJob
  <2>3. QED BY <2>1, <2>2 DEF PruneOrder
<1>9. OnTrunk'
  <2>1. CASE CanonicalNumber(syncStatus) > Number[b]
    <3>1. ~(spent.restarts <= MaxReorgDepth)
      BY <1>1, <2>1, ResetAboveCanonical, Numbers
    <3>2. QED BY <1>1, <1>2, <1>3, <2>1, <3>1 DEF OnTrunk
  <2>2. CASE ~(CanonicalNumber(syncStatus) > Number[b])
    BY <1>3, <1>4, <2>2 DEF TrunkInv, OnTrunk, IsTrunk, ShallowForks
  <2>3. QED BY <2>1, <2>2
<1>10. QED BY <1>5, <1>7, <1>8, <1>9 DEF TrunkInv

LEMMA TrunkRestart ==
  ASSUME TypeInv, ParentsInv, DeepInv, TrunkInv, Crash \/ Start
  PROVE  TrunkInv'
<1> USE DEF dbVars, queueVars
<1>1. ASSUME UNCHANGED <<progress, isPruned, syncStatus>>, worker' = IdleWorker,
             tasks' = {} \/ UNCHANGED tasks, eventWorker' = IdleEventWorker,
             spent'.restarts \in Nat, spent'.restarts >= spent.restarts,
             UNCHANGED blockQueue \/ blockQueue' = [j \in BlockQueueJobs |-> 0]
      PROVE  TrunkInv'
  <2>1. Rows' = Rows
    BY <1>1 DEF Rows
  <2>2. /\ isPruned' \subseteq isPruned /\ isPruned' \subseteq Rows'
        /\ ~eventWorker'.wasPruned
    BY <1>1, <2>1 DEF TrunkInv, PrunedRows, IdleEventWorker
  <2>3. FirstBlocks' \subseteq FirstBlocks
    BY <1>1, <2>1, FirstBlocksKept
  <2>4. NoGaps'
    BY <1>1, <2>1, SameNoGaps
  <2>5. \A n \in Heights : blockQueue'[PruneJob(n)] > 0 => blockQueue[PruneJob(n)] > 0
    BY <1>1 DEF BlockQueueJobs
  <2>6. QED BY <1>1, <2>2, <2>3, <2>4, <2>5, TrunkKept
<1>2. ASSUME Crash PROVE TrunkInv'
  <2>1. spent'.restarts = spent.restarts + 1
    BY <1>2 DEF Crash, TypeInv, TypeOK, Spent
  <2>2. QED BY <1>1, <1>2, <2>1, Numbers DEF Crash
<1>3. ASSUME Start PROVE TrunkInv'
  <2>1. /\ ~running /\ UNCHANGED <<worker, tasks, eventWorker, spent>>
        /\ worker = IdleWorker /\ eventWorker = IdleEventWorker
        /\ blockQueue' = [j \in BlockQueueJobs |-> 0]
    BY <1>3 DEF Start, ParentsInv, Stopped
  <2>2. CASE UNCHANGED dbVars
    BY <1>1, <2>1, <2>2, Numbers
  <2>3. CASE syncStatus.latestCanonical # NoBlock /\ \E b \in UnprunedAt(ResetHeight) : ResetWatcher(b)
    BY <2>1, <2>3, TrunkReset
  <2>4. QED BY <1>3, <2>2, <2>3 DEF Start
<1>4. QED BY <1>2, <1>3

ChainInv == TypeInv /\ ParentsInv /\ DeepInv /\ TrunkInv

LEMMA TrunkNext == ChainInv /\ [Next]_vars => TrunkInv'
<1> SUFFICES ASSUME ChainInv, [Next]_vars PROVE TrunkInv'
  OBVIOUS
<1> USE DEF ChainInv
<1>1. CASE UNCHANGED vars
  <2>1. UNCHANGED <<progress, isPruned, syncStatus, blockQueue, worker, tasks, eventWorker, spent>>
    BY <1>1 DEF vars, dbVars, queueVars, memoryVars
  <2>2. Rows' = Rows /\ FirstBlocks' = FirstBlocks
    BY <2>1 DEF Rows, FirstBlocks
  <2>3. PrunedRows' /\ OneFirst' /\ OnTrunk' /\ NoGaps'
    BY <2>1, <2>2 DEF TrunkInv, PrunedRows, OneFirst, OnTrunk, NoGaps, IsTrunk, ShallowForks
  <2>4. PruneOrder'
    BY <2>1 DEF TrunkInv, PruneOrder, CanonicalNumber, IsTrunk, ShallowForks
  <2>5. QED BY <2>3, <2>4 DEF TrunkInv
<1>2. CASE Next
  BY <1>2, TrunkBlockJobs, TrunkIndexBlock, TrunkPruneChain, TrunkProcessEvents, TrunkServer,
     TrunkRestart DEF Next
<1>3. QED BY <1>1, <1>2

LEMMA ChainInit == Init => ChainInv
  BY TypeInit, ParentsInit, DeepInit, TrunkInit DEF ChainInv

LEMMA ChainNext == ChainInv /\ [Next]_vars => ChainInv'
  BY TypeNext, ParentsNext, DeepNext, TrunkNext DEF ChainInv

-----------------------------------------------------------------------------
(* The theorems. *)

\* While reorgs stay within the reorg depth, the canonical block has a row (or is the
\* first head) and never is a pruned one, whatever prune jobs are repeated and whatever
\* rows the event handlers write back.
THEOREM CanonicalIsUnpruned == Spec => []CanonicalUnpruned
<1>1. ChainInv => CanonicalUnpruned
  BY DEF ChainInv, ParentsInv, CanonicalHasRow, TrunkInv, OnTrunk, CanonicalUnpruned
<1>2. QED BY <1>1, ChainInit, ChainNext, PTL DEF Spec

\* Only _pruneChain moves the canonical block of a running job runner.
LEMMA OnlyPruningMoves ==
  ASSUME ChainInv, [Next]_vars, running, syncStatus.latestCanonical # NoBlock,
         syncStatus'.latestCanonical # syncStatus.latestCanonical
  PROVE  UpdateCanonicalBlock
<1> USE DEF dbVars, queueVars, memoryVars
<1>1. syncStatus' # syncStatus /\ Next
  BY DEF vars
<1>2. ~FetchBlocks
  BY DEF FetchBlocks, ChainInv, TypeInv, TypeOK, Statuses
<1>3. ~Server
  <2>1. ASSUME NEW j \in completions, OnIndexComplete(j) PROVE FALSE
    BY <2>1 DEF OnIndexComplete, Indexed, ChainInv, TypeInv, TypeOK, Statuses
  <2>2. QED BY <1>1, <2>1 DEF Server, OnPruneComplete, OnEventsComplete, ServerStart
<1>4. ~Start /\ ~Crash
  BY <1>1 DEF Start, Crash
<1>5. ~\E t \in tasks : IndexBlock(t) \/ TaskFault(t)
  BY <1>1 DEF IndexBlock, TaskFault, CheckPruning, ReadProgress, PushParentJob, SaveBlock,
              PushEventsJob
<1>6. ~(ReadPruneHeight \/ MarkBlocksAsPruned)
  BY <1>1 DEF ReadPruneHeight, MarkBlocksAsPruned
<1>7. /\ ~\E j \in BlockQueueJobs : TakeBlockJob(j)
      /\ ~(CompleteIndexJob \/ BlockJobFault)
  BY <1>1 DEF TakeBlockJob, CompleteIndexJob, BlockJobFault
<1>8. /\ ~\E b \in Blocks : TakeEventsJob(b)
      /\ ~(RefetchEvents \/ FinishEvents \/ FailEvents \/ CommitPartly)
  BY <1>1 DEF TakeEventsJob, RefetchEvents, FinishEvents, FailEvents, CommitPartly
<1>9. QED BY <1>1, <1>2, <1>3, <1>4, <1>5, <1>6, <1>7, <1>8 DEF Next, PruneChain

\* The block _pruneChain makes canonical is the child of the one that was.
LEMMA CanonicalChild ==
  ASSUME ChainInv, UpdateCanonicalBlock, ShallowForks, spent.restarts <= MaxReorgDepth,
         syncStatus.latestCanonical # NoBlock
  PROVE  /\ syncStatus'.latestCanonical = worker.canonical
         /\ Parent[worker.canonical] = syncStatus.latestCanonical
<1> USE DEF ChainInv
<1> DEFINE old == syncStatus.latestCanonical
           new == worker.canonical
<1>1. worker.step = "canonical"
  BY DEF UpdateCanonicalBlock
<1>2. /\ new \in Rows /\ new \in Blocks /\ Number[new] = worker.job.height
      /\ IsTrunk(new) /\ Ready(new)
      /\ worker.job.height > CanonicalNumber(syncStatus)
      /\ worker.job.height <= CanonicalNumber(syncStatus) + 1
  BY <1>1 DEF TrunkInv, PruneOrder, DeepInv, PruneDeep, ParentsInv, CanonicalHasRow, RowsReady,
              Rows
<1>3. /\ old \in Blocks /\ CanonicalNumber(syncStatus) = Number[old]
      /\ Number[old] \in Nat /\ Number[old] >= StartNumber
  BY Depths DEF TypeInv, TypeOK, Statuses, CanonicalNumber, ParentsInv, CanonicalHasRow,
                RowsReady, Ready, Rows
<1>4. syncStatus'.latestCanonical = new
  BY <1>2, <1>3, Numbers DEF UpdateCanonicalBlock, TypeInv, TypeOK, Statuses
<1>5. Number[new] = Number[old] + 1 /\ Number[new] > 0
  BY <1>2, <1>3, Depths
<1>6. Parent[new] \in Blocks /\ Number[Parent[new]] = Number[old]
  BY <1>2, <1>3, <1>5, Depths
<1>7. CASE Number[old] = StartNumber
  <2>1. Parent[new] \in Rows
    BY <1>2, <1>3, <1>5, <1>7 DEF Ready
  <2>2. Parent[new] \in FirstBlocks /\ old \in FirstBlocks
    BY <1>3, <1>6, <1>7, <2>1 DEF FirstBlocks
  <2>3. QED BY <1>4, <2>2 DEF TrunkInv, OneFirst
<1>8. CASE Number[old] # StartNumber
  <2>1. IsTrunk(old)
    BY <1>8 DEF TrunkInv, OnTrunk
  <2>2. IsTrunk(Parent[new])
    BY <1>2, <1>5, TrunkParent
  <2>3. QED BY <1>3, <1>4, <1>6, <2>1, <2>2, TrunkIsOne
<1>9. QED BY <1>7, <1>8

\* While reorgs stay within the reorg depth and restarts do not eat into it, every block
\* that becomes canonical is the child of the one before.
THEOREM CanonicalClimbs == Spec => CanonicalChain
<1>1. ChainInv /\ [Next]_vars =>
        [LET old == syncStatus.latestCanonical
             new == syncStatus'.latestCanonical
         IN /\ ShallowForks /\ spent.restarts <= MaxReorgDepth
            /\ running /\ old # NoBlock /\ new # old
            => Parent[new] = old]_syncStatus
  BY OnlyPruningMoves, CanonicalChild
<1>2. QED BY <1>1, ChainInit, ChainNext, PTL DEF Spec, CanonicalChain
=============================================================================
