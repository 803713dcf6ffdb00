----------------------------- MODULE Positions -----------------------------
(***************************************************************************)
(* The handlers of the NonfungiblePositionManager's events, over the       *)
(* entity store.  Each reads the Position of the event's token at the      *)
(* block, creates it from the contract when there is none, refreshes its   *)
(* fees and saves it together with a PositionSnapshot.  Index jobs, prune  *)
(* jobs and the events job interleave, and a client reads entities at a    *)
(* block meanwhile.                                                        *)
(*                                                                         *)
(* Amounts are counted for one of the two tokens of the pool.              *)
(***************************************************************************)
EXTENDS EntityStore, Sequences, SequencesExt

CONSTANTS
  Tokens,          \* token ids
  Events,          \* the events of each block: [name, token, amount, to]
  PoolAt,          \* positions(tokenId) at the end of each block, or NoPool if it reverts
  NoPool,
  HotFixPool,      \* the pool whose liquidity events are skipped
  FirstGraftBlock,
  AddressZero

SnapshotId(token, n) == [position |-> token, number |-> n]

Addresses == {AddressZero} \cup {e.to : e \in UNION {Range(Events[b]) : b \in Blocks}}

\* Positions and snapshots are rows of two tables; a snapshot is of a position at a block.
ASSUME EventsAssumption ==
  /\ Tokens \subseteq Ids
  /\ \A token \in Tokens : \A b \in Blocks : SnapshotId(token, Number[b]) \notin Tokens
  /\ Events \in [Blocks ->
       Seq([name : {"IncreaseLiquidity", "DecreaseLiquidity", "Collect", "Transfer"},
            token : Tokens, amount : Nat, to : Addresses])]
  /\ Events[StartBlock] = <<>>
  /\ \A b \in Blocks : \A i \in DOMAIN Events[b] : SnapshotId(Events[b][i].token, Number[b]) \in Ids

VARIABLES
  lastProcessed,   \* how many events of each block its row says are processed
  eventQueue,      \* blocks with a job in QUEUE_EVENT_PROCESSING
  handler,         \* the events job: its step, its block, whether the row it read was pruned,
                   \* and the position in hand
  tx,              \* what the handler has saved and not committed
  applied          \* history: the indexes of the events applied to each block

handlerVars == <<lastProcessed, eventQueue, handler, tx, applied>>
vars == <<storeVars, handlerVars>>

NoWrites == <<>>
IdleHandler == [step |-> "idle", block |-> NoBlock, wasPruned |-> FALSE, position |-> NoEntity]

NewPosition(pool, b) ==
  [isPruned |-> FALSE, owner |-> AddressZero, pool |-> pool, liquidity |-> 0,
   deposited |-> 0, withdrawn |-> 0, collected |-> 0, fees |-> b]

Block == handler.block
Event == Events[Block][lastProcessed[Block] + 1]

-----------------------------------------------------------------------------
(* Index jobs push the events job of their block. *)

PushEventsJob(b) ==
  /\ eventQueue' = eventQueue \cup {b}
  /\ UNCHANGED <<lastProcessed, handler, tx, applied>>

IndexBlock(b) == SaveBlock(b, Events[b] # <<>>) /\ PushEventsJob(b)
IndexBlockAgain(b) == IndexAgain(b) /\ PushEventsJob(RowFound(b))

-----------------------------------------------------------------------------
(* The events job. *)

TakeEventsJob(b) ==
  /\ handler.step = "idle" /\ b \in eventQueue
  /\ eventQueue' = eventQueue \ {b}
  /\ handler' = [IdleHandler EXCEPT !.step = "next", !.block = b, !.wasPruned = b \in prunedBlocks]
  /\ UNCHANGED <<storeVars, lastProcessed, tx, applied>>

\* All events are processed; the row is written as a whole.
CompleteBlock ==
  /\ handler.step = "next" /\ lastProcessed[Block] = Len(Events[Block])
  /\ progress' = [progress EXCEPT ![Block] = "complete"]
  /\ WriteRow(Block, handler.wasPruned)
  /\ handler' = IdleHandler
  /\ UNCHANGED <<latestIndexed, latestCanonical, table, frothy, cacheVars, pruner, spent,
                 lastProcessed, eventQueue, tx, applied>>

\* The job fails and is retried.
Retry == handler' = IdleHandler /\ eventQueue' = eventQueue \cup {Block}

\* processEvent: the handler throws, its transaction is rolled back and the cache is cleared.
Throw ==
  /\ Incident /\ Retry
  /\ ClearCachedEntities
  /\ tx' = NoWrites
  /\ UNCHANGED <<progress, prunedBlocks, latestIndexed, latestCanonical, table, frothy, pruner,
                 late, lastProcessed, applied>>

\* updateBlockProgress; when it fails the cache stays.
UpdateProgress ==
  /\ handler.step = "update"
  /\ \/ /\ lastProcessed' = [lastProcessed EXCEPT ![Block] = @ + 1]
        /\ WriteRow(Block, handler.wasPruned)
        /\ handler' = [handler EXCEPT !.step = "next", !.position = NoEntity]
        /\ UNCHANGED <<spent, eventQueue>>
     \/ Incident /\ Retry /\ UNCHANGED <<prunedBlocks, late, lastProcessed>>
  /\ UNCHANGED <<progress, latestIndexed, latestCanonical, table, frothy, cacheVars, pruner,
                 tx, applied>>

-----------------------------------------------------------------------------
(* The handlers. *)

GoOn(step, position) ==
  /\ handler' = [handler EXCEPT !.step = step, !.position = position]
  /\ UNCHANGED <<lastProcessed, eventQueue>>

\* _getPosition: the position at the block.
GetPosition ==
  /\ handler.step = "next" /\ lastProcessed[Block] < Len(Events[Block])
  /\ LET position == GetEntity(Block, Event.token) IN
     GoOn(IF position = NoEntity THEN "call" ELSE "got", position)
  /\ UNCHANGED <<storeVars, tx, applied>>

\* The save functions: rows of the transaction, and of the cache at once.
Save(writes, step, position) ==
  /\ CacheUpdatedEntities(Block, writes)
  /\ tx' = writes
  /\ GoOn(step, position)
  /\ UNCHANGED <<progress, prunedBlocks, latestIndexed, latestCanonical, table, frothy, pruner,
                 late, applied>>

Commit(step) ==
  /\ CommitEntities(Block, tx)
  /\ tx' = NoWrites
  /\ GoOn(step, handler.position)
  /\ UNCHANGED <<progress, prunedBlocks, latestIndexed, latestCanonical, cacheVars, pruner, spent>>

\* The eth_calls positions and getPool at the block.
CallPositions(b, token) == PoolAt[b][token]

\* _getPosition: positions, getPool and "Save position to DB to load entity fields with
\* default values."  "The contract call reverts in situations where the position is minted
\* and deleted in the same block."
CreatePosition ==
  /\ handler.step = "call"
  /\ LET pool == CallPositions(Block, Event.token)
         position == NewPosition(pool, Block)
     IN \/ /\ pool = NoPool
           /\ GoOn("update", NoEntity)
           /\ UNCHANGED <<storeVars, tx, applied>>
        \/ /\ pool # NoPool
           /\ Save([id \in {Event.token} |-> position], "created", position)
           /\ UNCHANGED spent
        \/ Throw

CommitNewPosition ==
  /\ handler.step = "created"
  /\ \/ Commit("got") /\ UNCHANGED applied
     \/ Throw

\* Mutant: every event of the pool is skipped.
SkippedInPool(event, position) == position.pool = HotFixPool

\* "Temp fix from Subgraph mapping code."
Skipped(event, position) == event.name # "Transfer" /\ position.pool = HotFixPool

SkipEvent ==
  /\ handler.step = "got" /\ Skipped(Event, handler.position)
  /\ GoOn("update", NoEntity)
  /\ UNCHANGED <<storeVars, tx, applied>>

\* _updateFeeVars; when the call fails the fees stay.
UpdatedFeeVars(position, b, token) ==
  IF CallPositions(b, token) = NoPool THEN position ELSE [position EXCEPT !.fees = b]

\* What each handler does to the position.
Changed(position, event, b) ==
  CASE event.name = "IncreaseLiquidity" ->
         [position EXCEPT !.liquidity = @ + event.amount, !.deposited = @ + event.amount]
    [] event.name = "DecreaseLiquidity" ->
         [position EXCEPT !.liquidity = @ - event.amount, !.withdrawn = @ + event.amount]
    [] event.name = "Collect" ->
         IF Number[b] <= FirstGraftBlock
         THEN [position EXCEPT !.collected = @ + event.amount] ELSE position
    [] event.name = "Transfer" -> [position EXCEPT !.owner = event.to]

\* Mutant: the snapshot is taken of the position before the event.
SnapshotBefore(position) == handler.position

\* _savePositionSnapshot copies the fields of the position.
NewSnapshot(position) == [position EXCEPT !.isPruned = FALSE]

SavePosition(refreshed) ==
  LET position == Changed(refreshed, Event, Block)
      snapshotId == SnapshotId(Event.token, Number[Block])
  IN Save([id \in {Event.token, snapshotId} |->
             IF id = snapshotId THEN NewSnapshot(position) ELSE position],
          "saved", handler.position)

\* _handleTransfer
HandleTransfer ==
  /\ handler.step = "got" /\ Event.name = "Transfer" /\ ~Skipped(Event, handler.position)
  /\ SavePosition(handler.position) /\ UNCHANGED spent

\* _handleIncreaseLiquidity, _handleDecreaseLiquidity, _handleCollect
HandleLiquidity ==
  /\ handler.step = "got" /\ Event.name # "Transfer" /\ ~Skipped(Event, handler.position)
  /\ \/ SavePosition(UpdatedFeeVars(handler.position, Block, Event.token)) /\ UNCHANGED spent
     \/ Incident /\ SavePosition(handler.position)

CommitPosition ==
  /\ handler.step = "saved"
  /\ \/ /\ Commit("update")
        /\ applied' = [applied EXCEPT ![Block] = Append(@, lastProcessed[Block] + 1)]
     \/ Throw

Handle ==
  \/ GetPosition \/ CreatePosition \/ CommitNewPosition \/ SkipEvent
  \/ HandleTransfer \/ HandleLiquidity \/ CommitPosition \/ UpdateProgress \/ CompleteBlock
-----------------------------------------------------------------------------
(* The job runner. *)

\* The job runner starts again: its jobs are deleted and the watcher is reset.
Restart ==
  /\ ResetStore
  /\ lastProcessed' = [b \in Blocks |-> IF Number[b] <= ResetHeight THEN lastProcessed[b] ELSE 0]
  /\ applied' = [b \in Blocks |-> IF Number[b] <= ResetHeight THEN applied[b] ELSE <<>>]
  /\ eventQueue' = {} /\ handler' = IdleHandler /\ tx' = NoWrites

Prune ==
  /\ (\E b \in Blocks : MarkBlocksAsPruned(b))
       \/ UpdateCanonicalBlock \/ PruneCachedEntities \/ PruneFrothyEntities
  /\ UNCHANGED handlerVars

Init ==
  /\ InitStore
  /\ lastProcessed = [b \in Blocks |-> 0]
  /\ eventQueue = {} /\ handler = IdleHandler /\ tx = NoWrites
  /\ applied = [b \in Blocks |-> <<>>]

Next ==
  \/ \E b \in Blocks :
       \/ IndexBlock(b) \/ IndexBlockAgain(b) \/ TakeEventsJob(b)
       \/ OnIndexComplete(b) /\ UNCHANGED handlerVars
  \/ Prune \/ Handle \/ Restart

Spec == Init /\ [][Next]_vars

-----------------------------------------------------------------------------
(* Properties. *)

Positions ==
  [isPruned : BOOLEAN, owner : Addresses,
   pool : {PoolAt[b][t] : b \in Blocks, t \in Tokens}, liquidity : Int, deposited : Nat,
   withdrawn : Nat, collected : Nat, fees : Blocks]

ASSUME NoEntityAssumption == NoEntity \notin Positions

\* Every variable has its type; a liquidity may be negative once an event is applied twice.
TypeOK ==
  /\ progress \in [Blocks -> {"absent", "incomplete", "complete"}]
  /\ prunedBlocks \subseteq Rows /\ latestIndexed \in Nat /\ latestCanonical \in Rows
  /\ \A k \in DOMAIN table : k \in [id : Ids, block : Rows] /\ table[k] \in Positions
  /\ frothy \subseteq DOMAIN table
  /\ DOMAIN frothyBlocks \subseteq Rows
  /\ \A b \in DOMAIN frothyBlocks : Range(frothyBlocks[b]) \subseteq Positions
  /\ Range(latestPruned) \subseteq Positions
  /\ pruner.step \in {"idle", "status", "cache", "frothy"}
  /\ \A b \in Blocks : lastProcessed[b] \in 0..Len(Events[b])
  /\ eventQueue \subseteq Rows
  /\ handler.step \in {"idle", "next", "call", "created", "got", "saved", "update"}
  /\ handler.block \in Rows \cup {NoBlock}
  /\ DOMAIN tx \subseteq Ids /\ late \in BOOLEAN

\* The blocks whose entities are promised to be right.
LiveRows == IF late THEN {} ELSE {b \in Rows : ~Dead(b)}

\* The event of a block that was applied as the k-th one.
AppliedEvent(b, k) == Events[b][applied[b][k]]

\* Whether events of a token have been applied to a block.
AppliedTo(b, token) == \E k \in DOMAIN applied[b] : AppliedEvent(b, k).token = token

Amount(event, token, name) ==
  IF event.token = token /\ event.name = name THEN event.amount ELSE 0

\* What the events applied to a token on the way to a block add up to, of those in some blocks.
Total(b, token, name, blocks) ==
  LET total[c \in Blocks] ==
        (IF c = StartBlock THEN 0 ELSE total[Parent[c]])
        + IF c \notin blocks THEN 0
          ELSE SumFunction([k \in DOMAIN applied[c] |-> Amount(AppliedEvent(c, k), token, name)])
  IN total[b]

\* Whom the last of the transfers applied on the way to a block went to.
Owner(b, token) ==
  LET owner[c \in Blocks] ==
        LET transfers == {k \in DOMAIN applied[c] : /\ AppliedEvent(c, k).token = token
                                                   /\ AppliedEvent(c, k).name = "Transfer"}
        IN IF transfers # {} THEN AppliedEvent(c, Max(transfers)).to
           ELSE IF c = StartBlock THEN AddressZero ELSE owner[Parent[c]]
  IN owner[b]

\* The pool of a token on the way to a block: of the first block with an event of the token at
\* which the contract knows the position.
PoolOf(b, token) ==
  LET pool[c \in Blocks] ==
        LET before == IF c = StartBlock THEN NoPool ELSE pool[Parent[c]]
        IN IF before # NoPool \/ ~\E i \in DOMAIN Events[c] : Events[c][i].token = token
           THEN before ELSE PoolAt[c][token]
  IN pool[b]

\* A position as the events applied on the way to a block make it.
MadeOfEvents(position, b, token) ==
  /\ position.deposited = Total(b, token, "IncreaseLiquidity", Blocks)
  /\ position.withdrawn = Total(b, token, "DecreaseLiquidity", Blocks)
  /\ position.liquidity = position.deposited - position.withdrawn
  /\ position.collected =
       Total(b, token, "Collect", {c \in Blocks : Number[c] <= FirstGraftBlock})
  /\ position.owner = Owner(b, token)
  /\ position.fees \in Chain[b]
  /\ position.pool = PoolOf(b, token)

\* At every live block the position of a token is made of the events applied on the chain to
\* the block and of no others: whatever siblings, the cache, failed handlers, pruning and
\* restarts did meanwhile (_handleIncreaseLiquidity to _handleTransfer, getPosition).
PositionsAgree ==
  \A b \in LiveRows : \A token \in Tokens :
    LET position == FromTable(b, token) IN
    IF position = NoEntity THEN \A c \in Chain[b] : ~AppliedTo(c, token)
    ELSE MadeOfEvents(position, b, token)

\* The events of a block that have a position, apart from liquidity events of the pool the
\* handlers skip.
Due(b) ==
  {i \in DOMAIN Events[b] :
     /\ PoolOf(b, Events[b][i].token) # NoPool
     /\ Events[b][i].name = "Transfer" \/ PoolOf(b, Events[b][i].token) # HotFixPool}

\* At a complete block every event that is due is applied, in log order; twice only after a
\* failure or a crash (processEvent).
EveryEventApplied ==
  \A b \in LiveRows : progress[b] = "complete" =>
    /\ Range(applied[b]) = Due(b)
    /\ \A k \in 1 .. Len(applied[b]) - 1 : applied[b][k] <= applied[b][k + 1]
    /\ Len(applied[b]) - Cardinality(Due(b)) <= spent

\* Whether a version is marked as pruned makes no difference to what it says.
Unmarked(entity) == IF entity = NoEntity THEN NoEntity ELSE [entity EXCEPT !.isPruned = FALSE]

\* The snapshot of a height read at a live block is the position at the block of that height on
\* its own chain, never of a sibling with the same height (_savePositionSnapshot).
SnapshotsAgree ==
  \A b \in LiveRows : \A token \in Tokens : \A c \in Chain[b] :
    SnapshotId(token, Number[c]) \in Ids =>
    LET snapshot == FromTable(b, SnapshotId(token, Number[c])) IN
    IF AppliedTo(c, token)
    THEN snapshot # NoEntity /\ Unmarked(snapshot) = Unmarked(FromTable(c, token))
    ELSE snapshot = NoEntity

\* Between handlers the job runner reads from its cache what the tables hold, at every live
\* block with events to process (updateEntityCacheFrothyBlocks, clearCachedEntities,
\* pruneEntityCacheFrothyBlocks).
CacheCoherent ==
  tx = NoWrites =>
    \A b \in {c \in LiveRows : progress[c] = "incomplete"} : \A id \in Ids :
      Unmarked(GetEntity(b, id)) = Unmarked(FromTable(b, id))

-----------------------------------------------------------------------------
(* Refinement: entities as a history that each block adds to. *)

\* What a client reads at a block: getPool, getToken, getBundle and getEntities of the indexer.
EntitiesAt(b) == [id \in Ids |-> Unmarked(FromTable(b, id))]

History == INSTANCE EntityHistory WITH
  view <- [b \in LiveRows |-> EntitiesAt(b)],
  open <- {b \in LiveRows : progress[b] = "incomplete"}

\* The versions implement EntityHistory: a new block starts with the entities of its parent,
\* only the events of a block change what is read there, a complete block reads the same for
\* ever, and prune jobs and restarts only forget blocks.
KeepsHistory == History!Spec
=============================================================================
