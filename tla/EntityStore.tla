---------------------------- MODULE EntityStore ----------------------------
(***************************************************************************)
(* How uni-info-watcher keeps its entities.  An entity has a version for   *)
(* each block whose events change it; at a block it is the version of the  *)
(* nearest ancestor, found by walking back to the canonical block and      *)
(* below it as the latest version that is not pruned.  The job runner      *)
(* keeps the versions of the frothy region (the blocks above the canonical *)
(* one) in memory as well.                                                 *)
(*                                                                         *)
(* Blocks are indexed after their parents, as ChainSync shows; a module    *)
(* that extends this one adds the handlers that write entities.            *)
(***************************************************************************)
EXTENDS Integers, FiniteSets

CONSTANTS
  Blocks,
  NoBlock,
  Number,          \* block numbers
  Parent,          \* parentHash
  StartBlock,      \* where the watcher starts, of number 0
  MaxReorgDepth,
  clearEntitiesCacheInterval,
  Ids,             \* ids of entities
  NoEntity,
  MaxIncidents     \* bound: failures of calls and commits, crashes of the job runner, and
                   \* index jobs of blocks that have a row

ASSUME BlockAssumption ==
  /\ NoBlock \notin Blocks /\ StartBlock \in Blocks
  /\ Number \in [Blocks -> Nat] /\ Number[StartBlock] = 0
  /\ Parent \in [Blocks -> Blocks \cup {NoBlock}]
  /\ \A b \in Blocks \ {StartBlock} :
       Parent[b] \in Blocks /\ Number[b] = Number[Parent[b]] + 1
  /\ IsFiniteSet(Blocks)
  /\ MaxReorgDepth \in Nat \ {0} /\ clearEntitiesCacheInterval \in Nat \ {0}
  /\ MaxIncidents \in Nat

VARIABLES
  \* the watcher's database
  progress,        \* block_progress rows: "absent", "incomplete" or "complete"
  prunedBlocks,    \* the rows whose isPruned is set
  latestIndexed,   \* SyncStatus.latestIndexedBlockNumber
  latestCanonical, \* SyncStatus.latestCanonicalBlockHash
  table,           \* the rows of all entities, by [id, block]
  frothy,          \* FrothyEntity: the keys of rows above the canonical block
  \* the memory of the job runner
  frothyBlocks,    \* cachedEntities.frothyBlocks
  latestPruned,    \* cachedEntities.latestPrunedEntities
  pruner,          \* the prune job
  \* counter and history
  spent,           \* incidents so far
  late             \* the events job has written to a block off the chain, or restarts in a row
                   \* have gone back below the canonical block to one

storeVars == <<progress, prunedBlocks, latestIndexed, latestCanonical, table, frothy,
               frothyBlocks, latestPruned, pruner, spent, late>>
cacheVars == <<frothyBlocks, latestPruned>>

Rows == {b \in Blocks : progress[b] # "absent"}
UnprunedAt(n) == {b \in Rows \ prunedBlocks : Number[b] = n}
CanonicalNumber == Number[latestCanonical]
Key(id, b) == [id |-> id, block |-> b]
NoEntities == <<>>

\* The entries of f, and those of g that f does not have.
Over(f, g) == [x \in DOMAIN f \cup DOMAIN g |-> IF x \in DOMAIN f THEN f[x] ELSE g[x]]

IdlePruner == [step |-> "idle", block |-> NoBlock]

Incident == spent < MaxIncidents /\ spent' = spent + 1

Chain[b \in Blocks] == IF b = StartBlock THEN {b} ELSE {b} \cup Chain[Parent[b]]

\* Two blocks of one height never differ deeper than the reorg depth: "Reorgs older than this
\* block cannot be processed".
ASSUME ShallowForks ==
  \A a, b \in Blocks : Number[a] = Number[b] =>
    \A c \in Chain[a] : Number[c] + MaxReorgDepth <= Number[a] => c \in Chain[b]

\* A block that is not, and will never be, on the canonical chain.
Dead(b) ==
  \E c \in Chain[b] : \/ c \in prunedBlocks
                      \/ Number[c] <= CanonicalNumber /\ c \notin Chain[latestCanonical]

\* The events job writes the row of its block, as it was when the job began.
WriteRow(b, wasPruned) ==
  /\ prunedBlocks' = IF wasPruned THEN prunedBlocks \cup {b} ELSE prunedBlocks \ {b}
  /\ late' = (late \/ Dead(b))

-----------------------------------------------------------------------------
(* Reading. *)

\* The latest version not pruned at a height or below.
LatestUnpruned(id, n) ==
  LET versions == {k \in DOMAIN table : k.id = id /\ Number[k.block] <= n /\ ~table[k].isPruned}
  IN IF versions = {} THEN NoEntity
     ELSE table[CHOOSE k \in versions : \A l \in versions : Number[l.block] <= Number[k.block]]

\* getModelEntity at a block hash, from the tables.
FromTable(b, id) ==
  LET version[c \in Blocks] ==
        IF Key(id, c) \in DOMAIN table THEN table[Key(id, c)]
        ELSE IF Number[c] > CanonicalNumber THEN version[Parent[c]]
        ELSE LatestUnpruned(id, Number[c])
  IN version[b]

\* The same from the cache.
FromCache(b, id) ==
  LET version[c \in Blocks] ==
        IF c \in DOMAIN frothyBlocks \ {StartBlock}
        THEN IF id \in DOMAIN frothyBlocks[c] THEN frothyBlocks[c][id] ELSE version[Parent[c]]
        ELSE IF id \in DOMAIN latestPruned THEN latestPruned[id]
        ELSE LatestUnpruned(id, Number[c])
  IN version[b]

\* getModelEntity of the job runner; the cache is used once it reaches down to the
\* canonical block.
GetEntity(b, id) ==
  IF b \in DOMAIN frothyBlocks /\ latestPruned # NoEntities
  THEN FromCache(b, id) ELSE FromTable(b, id)

-----------------------------------------------------------------------------
(* Writing. *)

\* The save functions: the row goes to the transaction, and to the cache at once.
CacheUpdatedEntities(b, writes) ==
  /\ frothyBlocks' = [c \in DOMAIN frothyBlocks |->
                        IF c = b THEN Over(writes, frothyBlocks[c]) ELSE frothyBlocks[c]]
  /\ UNCHANGED latestPruned

\* commitTransaction, with the rows of EntitySubscriber.
CommitEntities(b, writes) ==
  /\ LET keys == {Key(id, b) : id \in DOMAIN writes} IN
     /\ table' = Over([k \in keys |-> writes[k.id]], table)
     /\ frothy' = frothy \cup keys
  /\ late' = (late \/ Dead(b))

\* Mutant: the cache is kept.
KeepCachedEntities == UNCHANGED cacheVars

ClearCachedEntities == frothyBlocks' = <<>> /\ latestPruned' = NoEntities

-----------------------------------------------------------------------------
(* Index jobs. *)

\* updateEntityCacheFrothyBlocks
AddFrothyBlock(b) ==
  /\ frothyBlocks' = [c \in DOMAIN frothyBlocks \cup {b} |->
                        IF c \in DOMAIN frothyBlocks THEN frothyBlocks[c] ELSE NoEntities]
  /\ latestPruned' = IF Number[b] % clearEntitiesCacheInterval = 0
                     THEN NoEntities ELSE latestPruned

\* Index jobs and prune jobs have one handler, which takes them in turn; a prune job does not
\* wait for its last step.  "Check if chain pruning is caught up."
TakeIndexJob ==
  /\ pruner.step \in {"idle", "frothy"}
  /\ latestIndexed - CanonicalNumber <= MaxReorgDepth

\* _indexBlock of a block without a row.
SaveBlock(b, hasEvents) ==
  /\ TakeIndexJob
  /\ progress[b] = "absent" /\ b # StartBlock /\ progress[Parent[b]] = "complete"
  /\ progress' = [progress EXCEPT ![b] = IF hasEvents THEN "incomplete" ELSE "complete"]
  /\ AddFrothyBlock(b)
  /\ UNCHANGED <<prunedBlocks, latestIndexed, latestCanonical, table, frothy, pruner, spent, late>>

\* For the latest canonical block the first row found, which is its parent's, is taken as the
\* block's.
RowFound(b) == IF b = latestCanonical THEN Parent[b] ELSE b

\* _indexBlock of a block with a row, for a child that found it incomplete, or in a retry of the
\* job of its height.
IndexAgain(b) ==
  /\ TakeIndexJob
  /\ b \in Rows \ {StartBlock} /\ progress[Parent[b]] = "complete"
  /\ Incident
  /\ AddFrothyBlock(RowFound(b))
  /\ UNCHANGED <<progress, prunedBlocks, latestIndexed, latestCanonical, table, frothy, pruner,
                 late>>

\* The server hears of the completed index job: updateSyncStatusIndexedBlock.
OnIndexComplete(b) ==
  /\ b \in Rows /\ Number[b] > latestIndexed
  /\ latestIndexed' = Number[b]
  /\ UNCHANGED <<progress, prunedBlocks, latestCanonical, table, frothy, cacheVars, pruner,
                 spent, late>>

-----------------------------------------------------------------------------
(* Prune jobs. *)

\* Mutant: the versions of pruned blocks are left alone.
LeaveEntities(blocks) == table

\* pruneEntities: the versions FrothyEntity has for the blocks.
PruneEntities(blocks) ==
  [k \in DOMAIN table |-> IF k.block \in blocks /\ k \in frothy
                         THEN [table[k] EXCEPT !.isPruned = TRUE] ELSE table[k]]

\* _pruneChain at the height above the canonical block: a single block stays; of several,
\* the one that an indexed block descends from, and markBlocksAsPruned prunes the others.
MarkBlocksAsPruned(ancestor) ==
  LET height == CanonicalNumber + 1 IN
  /\ pruner.step = "idle"
  /\ latestIndexed >= height + MaxReorgDepth
  /\ Number[ancestor] = height
  /\ IF Cardinality(UnprunedAt(height)) = 1 THEN ancestor \in UnprunedAt(height)
     ELSE \E b \in UnprunedAt(height + MaxReorgDepth) : ancestor \in Chain[b]
  /\ prunedBlocks' = prunedBlocks \cup (UnprunedAt(height) \ {ancestor})
  /\ table' = PruneEntities(UnprunedAt(height) \ {ancestor})
  /\ pruner' = [step |-> "status", block |-> ancestor]
  /\ UNCHANGED <<progress, latestIndexed, latestCanonical, frothy, cacheVars, spent, late>>

\* updateSyncStatusCanonicalBlock
UpdateCanonicalBlock ==
  /\ pruner.step = "status"
  /\ latestCanonical' = pruner.block
  /\ pruner' = [pruner EXCEPT !.step = "cache"]
  /\ UNCHANGED <<progress, prunedBlocks, latestIndexed, table, frothy, cacheVars, spent, late>>

\* Mutant: what the canonical block changed does not replace older versions.
KeepLatestPruned(b) ==
  IF b \in DOMAIN frothyBlocks THEN Over(latestPruned, frothyBlocks[b]) ELSE latestPruned

\* What the canonical block changed becomes the latest below the frothy region.
LatestPrunedWith(b) ==
  IF b \in DOMAIN frothyBlocks THEN Over(frothyBlocks[b], latestPruned) ELSE latestPruned

\* pruneEntityCacheFrothyBlocks
PruneCachedEntities ==
  /\ pruner.step = "cache"
  /\ latestPruned' = LatestPrunedWith(pruner.block)
  /\ frothyBlocks' = [b \in {c \in DOMAIN frothyBlocks : Number[c] > Number[pruner.block]} |->
                        frothyBlocks[b]]
  /\ pruner' = [pruner EXCEPT !.step = "frothy"]
  /\ UNCHANGED <<progress, prunedBlocks, latestIndexed, latestCanonical, table, frothy, spent,
                 late>>

\* pruneFrothyEntities; nobody waits for its commit, which may fail unnoticed.
PruneFrothyEntities ==
  /\ pruner.step = "frothy"
  /\ \/ frothy' = {f \in frothy : Number[f.block] > Number[pruner.block]} /\ UNCHANGED spent
     \/ Incident /\ UNCHANGED frothy
  /\ pruner' = IdlePruner
  /\ UNCHANGED <<progress, prunedBlocks, latestIndexed, latestCanonical, table, cacheVars, late>>

-----------------------------------------------------------------------------
(* The job runner dies and starts again: resetWatcherToBlock. *)

ResetHeight == latestIndexed - 1

\* Mutant: FrothyEntity is not among the entities that are reset.
KeepFrothyEntities == frothy

ResetFrothyEntities == {f \in frothy : Number[f.block] <= ResetHeight}

ResetStore ==
  /\ Incident
  /\ UnprunedAt(ResetHeight) # {} /\ \A b \in UnprunedAt(ResetHeight) : progress[b] = "complete"
  /\ progress' = [b \in Blocks |-> IF Number[b] <= ResetHeight THEN progress[b] ELSE "absent"]
  /\ prunedBlocks' = {b \in prunedBlocks : Number[b] <= ResetHeight}
  /\ table' = [k \in {l \in DOMAIN table : Number[l.block] <= ResetHeight} |-> table[k]]
  /\ frothy' = ResetFrothyEntities
  /\ latestIndexed' = ResetHeight
  /\ \E b \in UnprunedAt(ResetHeight) :
       /\ latestCanonical' = IF CanonicalNumber > ResetHeight THEN b ELSE latestCanonical
       /\ late' = (late \/ (CanonicalNumber > ResetHeight /\ Dead(b)))
  /\ frothyBlocks' = <<>> /\ latestPruned' = NoEntities
  /\ pruner' = IdlePruner

InitStore ==
  /\ progress = [b \in Blocks |-> IF b = StartBlock THEN "complete" ELSE "absent"]
  /\ prunedBlocks = {} /\ latestIndexed = 0 /\ latestCanonical = StartBlock
  /\ table = <<>>
  /\ frothy = {}
  /\ frothyBlocks = <<>> /\ latestPruned = NoEntities
  /\ pruner = IdlePruner
  /\ spent = 0
  /\ late = FALSE
=============================================================================
