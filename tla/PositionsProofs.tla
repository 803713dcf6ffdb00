--------------------------- MODULE PositionsProofs ---------------------------
(***************************************************************************)
(* The entity store and the position handlers, for every block tree, reorg *)
(* depth, log and number of incidents.                                     *)
(***************************************************************************)
EXTENDS Positions, InductionLemmas

-----------------------------------------------------------------------------
(* Walks back over parents. *)

\* Of blocks there is a lowest one.
LEMMA LowestBlock ==
  ASSUME NEW S, S \subseteq Blocks, S # {}
  PROVE  \E m \in S : \A c \in S : Number[m] <= Number[c]
<1> DEFINE Numbers == {Number[c] : c \in S}
<1>1. Numbers \subseteq Nat /\ Numbers # {}
  BY BlockAssumption
<1>2. PICK n \in Numbers : \A k \in Numbers : n <= k
  BY <1>1, LeastNumber
<1>3. PICK m \in S : n = Number[m]
  OBVIOUS
<1>4. QED BY <1>2, <1>3

LEMMA NumbersBounded == \E n \in Nat : \A c \in Blocks : Number[c] < n
<1> DEFINE Unbounded == {T \in FiniteSubsetsOf(Blocks) : \A n \in Nat : \E c \in T : Number[c] >= n}
<1>1. SUFFICES ASSUME Blocks \in Unbounded PROVE FALSE
  BY BlockAssumption DEF FiniteSubsetsOf
<1>2. Unbounded \subseteq FiniteSubsetsOf(Blocks) /\ Unbounded # {}
  BY <1>1
<1>3. PICK T \in Unbounded : \A U \in Unbounded : ~(<<U, T>> \in StrictSubsetOrdering(Blocks))
  BY <1>2, FS_StrictSubsetOrderingWellFounded, WFMin, Zenon
<1>4. T \subseteq Blocks /\ IsFiniteSet(T) /\ \A n \in Nat : \E c \in T : Number[c] >= n
  BY DEF FiniteSubsetsOf
<1>5. PICK x \in T : Number[x] >= 0
  BY <1>4
<1>6. IsFiniteSet(T \ {x})
  BY <1>4, FS_RemoveElement
<1>7. <<T \ {x}, T>> \in StrictSubsetOrdering(Blocks)
  BY <1>4 DEF StrictSubsetOrdering
<1>8. T \ {x} \notin Unbounded
  BY <1>3, <1>7
<1>9. PICK n \in Nat : \A c \in T \ {x} : ~(Number[c] >= n)
  BY <1>4, <1>6, <1>8 DEF FiniteSubsetsOf
<1>10. Number[x] \in Nat /\ n + Number[x] + 1 \in Nat
  BY <1>4, BlockAssumption
<1>11. PICK c \in T : Number[c] >= n + Number[x] + 1
  BY <1>4, <1>10
<1>12. Number[c] \in Nat
  BY <1>4, BlockAssumption
<1>13. QED BY <1>9, <1>10, <1>11, <1>12

LEMMA ParentBelow ==
  ASSUME NEW b \in Blocks, b # StartBlock
  PROVE  /\ Parent[b] \in Blocks /\ Number[b] = Number[Parent[b]] + 1
         /\ Number[b] \in Nat \ {0} /\ Number[Parent[b]] \in Nat
  BY BlockAssumption

IsWalk(g, B, Stop, v, f) ==
  g = [c \in B |-> IF c \in Stop THEN v[c] ELSE f[c][g[Parent[c]]]]

\* What a walk that takes each block's value from its parent's is defined by.
LEMMA WalkExists ==
  ASSUME NEW Stop, StartBlock \in Stop, NEW S,
         NEW v, \A c \in Stop \cap Blocks : v[c] \in S,
         NEW f, \A c \in Blocks : \A s \in S : f[c][s] \in S
  PROVE  \E g \in [Blocks -> S] : IsWalk(g, Blocks, Stop, v, f)
<1> DEFINE Below(n) == {c \in Blocks : Number[c] < n}
           Good(n) == \E g \in [Below(n) -> S] : IsWalk(g, Below(n), Stop, v, f)
           Bad == {n \in Nat : ~Good(n)}
<1>1. ASSUME Bad # {} PROVE FALSE
  <2>1. PICK n \in Bad : \A k \in Bad : n <= k
    <3>1. Bad \subseteq Nat
      OBVIOUS
    <3> HIDE DEF Bad
    <3>2. QED BY <1>1, <3>1, LeastNumber
  <2>2. CASE n = 0
    <3> DEFINE g == [c \in Below(0) |-> CHOOSE s \in S : TRUE]
    <3>1. Below(0) = {}
      BY BlockAssumption
    <3>2. g \in [Below(0) -> S] /\ IsWalk(g, Below(0), Stop, v, f)
      BY <3>1 DEF IsWalk
    <3>3. QED BY <2>1, <2>2, <3>2
  <2>3. CASE n > 0
    <3>1. n - 1 \in Nat /\ Good(n - 1)
      BY <2>1, <2>3
    <3>2. PICK g \in [Below(n - 1) -> S] : IsWalk(g, Below(n - 1), Stop, v, f)
      BY <3>1
    <3> DEFINE h == [c \in Below(n) |-> IF c \in Stop THEN v[c] ELSE f[c][g[Parent[c]]]]
    <3>3. ASSUME NEW c \in Below(n), c \notin Stop
          PROVE  Parent[c] \in Below(n - 1) /\ Parent[c] \in Below(n)
      BY <2>1, <3>3, ParentBelow
    <3>4. h \in [Below(n) -> S]
      BY <3>3
    <3>5. ASSUME NEW c \in Below(n - 1) PROVE h[c] = g[c]
      <4>1. c \in Below(n)
        BY <2>1, BlockAssumption
      <4>2. g[c] = IF c \in Stop THEN v[c] ELSE f[c][g[Parent[c]]]
        BY <3>2 DEF IsWalk
      <4>3. QED BY <4>1, <4>2
    <3>6. \A c \in Below(n) : h[c] = IF c \in Stop THEN v[c] ELSE f[c][h[Parent[c]]]
      BY <3>3, <3>5
    <3> HIDE DEF h
    <3>7. IsWalk(h, Below(n), Stop, v, f)
      BY <3>4, <3>6 DEF IsWalk
    <3>8. QED BY <2>1, <3>4, <3>7
  <2>4. QED BY <2>1, <2>2, <2>3
<1>2. PICK n \in Nat : \A c \in Blocks : Number[c] < n
  BY NumbersBounded
<1>3. Below(n) = Blocks
  BY <1>2
<1>4. Good(n)
  BY <1>1
<1>5. QED BY <1>3, <1>4

\* A walk that hands on what it finds where it stops.
LEMMA PlainWalk ==
  ASSUME NEW Stop, StartBlock \in Stop, NEW v
  PROVE  \E g : g = [c \in Blocks |-> IF c \in Stop THEN v[c] ELSE g[Parent[c]]]
<1> DEFINE S == {v[c] : c \in Blocks}
           f == [c \in Blocks |-> [s \in S |-> s]]
<1>1. \A c \in Stop \cap Blocks : v[c] \in S
  OBVIOUS
<1>2. \A c \in Blocks : \A s \in S : f[c][s] \in S
  OBVIOUS
<1>3. PICK g \in [Blocks -> S] : IsWalk(g, Blocks, Stop, v, f)
  <2> HIDE DEF f, S
  <2>1. QED BY <1>1, <1>2, WalkExists
<1>4. ASSUME NEW c \in Blocks, c \notin Stop PROVE f[c][g[Parent[c]]] = g[Parent[c]]
  <2>1. Parent[c] \in Blocks
    BY <1>4, ParentBelow
  <2>2. g[Parent[c]] \in S
    BY <1>3, <2>1
  <2> HIDE DEF S
  <2>3. QED BY <2>2
<1>5. g = [c \in Blocks |-> IF c \in Stop THEN v[c] ELSE g[Parent[c]]]
  <2> HIDE DEF f, S
  <2>1. QED BY <1>3, <1>4 DEF IsWalk
<1>6. QED BY <1>5

-----------------------------------------------------------------------------
(* Chains. *)

LEMMA ChainDef ==
  /\ Chain \in [Blocks -> SUBSET Blocks]
  /\ Chain[StartBlock] = {StartBlock}
  /\ \A b \in Blocks \ {StartBlock} : Chain[b] = {b} \cup Chain[Parent[b]]
<1> DEFINE Eq(g) == g = [b \in Blocks |-> IF b = StartBlock THEN {b} ELSE {b} \cup g[Parent[b]]]
           v == [c \in Blocks |-> {c}]
           f == [c \in Blocks |-> [s \in SUBSET Blocks |-> {c} \cup s]]
<1>1. PICK g \in [Blocks -> SUBSET Blocks] : IsWalk(g, Blocks, {StartBlock}, v, f)
  <2>1. \A c \in {StartBlock} \cap Blocks : v[c] \in SUBSET Blocks
    OBVIOUS
  <2>2. \A c \in Blocks : \A s \in SUBSET Blocks : f[c][s] \in SUBSET Blocks
    OBVIOUS
  <2> HIDE DEF v, f
  <2>3. QED BY <2>1, <2>2, WalkExists
<1>2. \A b \in Blocks \ {StartBlock} : Parent[b] \in Blocks
  BY ParentBelow
<1>3. \A b \in Blocks : g[b] = IF b = StartBlock THEN {b} ELSE {b} \cup g[Parent[b]]
  BY <1>1, <1>2 DEF IsWalk
<1>4. Eq(g)
  BY <1>1, <1>3
<1>5. Chain = CHOOSE h : Eq(h)
  BY DEF Chain
<1> HIDE DEF v, f
<1>6. Eq(Chain)
  BY <1>4, <1>5
<1>7. StartBlock \in Blocks
  BY BlockAssumption
<1>8. \A b \in Blocks : Chain[b] = IF b = StartBlock THEN {b} ELSE {b} \cup Chain[Parent[b]]
  BY <1>6
<1>9. ASSUME NEW b \in Blocks, Chain[b] \notin SUBSET Blocks PROVE FALSE
  <2> DEFINE Bad == {c \in Blocks : Chain[c] \notin SUBSET Blocks}
  <2>1. PICK m \in Bad : \A c \in Bad : Number[m] <= Number[c]
    BY <1>9, LowestBlock
  <2>2. m # StartBlock
    BY <1>8
  <2>3. Parent[m] \in Bad
    BY <1>2, <1>8, <2>1, <2>2
  <2>4. QED BY <2>1, <2>2, <2>3, ParentBelow
<1>10. QED BY <1>6, <1>7, <1>8, <1>9

\* A chain goes down: it has the block itself and no other of its height.
LEMMA ChainBelow ==
  ASSUME NEW b \in Blocks, NEW c \in Chain[b]
  PROVE  /\ c \in Blocks /\ b \in Chain[b]
         /\ Number[c] \in Nat /\ Number[b] \in Nat /\ Number[c] <= Number[b]
         /\ Number[c] = Number[b] => c = b
         /\ c # b => b # StartBlock /\ c \in Chain[Parent[b]]
<1> DEFINE Bad == {d \in Blocks : \E e \in Chain[d] : e # d /\ ~(Number[e] < Number[d])}
<1>1. \A d \in Blocks : d \in Chain[d] /\ Chain[d] \subseteq Blocks /\ Number[d] \in Nat
  BY ChainDef, BlockAssumption
<1>2. ASSUME Bad # {} PROVE FALSE
  <2>1. PICK m \in Bad : \A d \in Bad : Number[m] <= Number[d]
    BY <1>2, LowestBlock
  <2>2. PICK e \in Chain[m] : e # m /\ ~(Number[e] < Number[m])
    OBVIOUS
  <2>3. m # StartBlock /\ e \in Chain[Parent[m]]
    BY <2>2, ChainDef
  <2>4. Parent[m] \in Blocks /\ Number[m] = Number[Parent[m]] + 1 /\ Number[Parent[m]] \in Nat
    BY <2>3, ParentBelow
  <2>5. Parent[m] \notin Bad
    BY <2>1, <2>4, <1>1
  <2>6. e = Parent[m] \/ Number[e] < Number[Parent[m]]
    BY <2>3, <2>4, <2>5
  <2>7. QED BY <2>2, <2>4, <2>6, <1>1
<1>3. c # b => Number[c] < Number[b]
  BY <1>2
<1>4. c # b => b # StartBlock /\ c \in Chain[Parent[b]]
  BY ChainDef
<1>5. QED BY <1>1, <1>3, <1>4

\* The chain of an ancestor is part of the chain.
LEMMA ChainOfAncestor ==
  ASSUME NEW b \in Blocks, NEW c \in Chain[b], NEW d \in Chain[c]
  PROVE  d \in Chain[b]
<1> DEFINE Bad == {e \in Blocks : c \in Chain[e] /\ d \notin Chain[e]}
<1>1. ASSUME Bad # {} PROVE FALSE
  <2>1. PICK m \in Bad : \A e \in Bad : Number[m] <= Number[e]
    BY <1>1, LowestBlock
  <2>2. c # m
    BY <2>1
  <2>3. m # StartBlock /\ c \in Chain[Parent[m]]
    BY <2>1, <2>2, ChainBelow
  <2>4. Parent[m] \in Blocks /\ Number[m] = Number[Parent[m]] + 1 /\ Number[Parent[m]] \in Nat
    BY <2>3, ParentBelow
  <2>5. d \in Chain[Parent[m]]
    BY <2>1, <2>3, <2>4
  <2>6. QED BY <2>1, <2>3, <2>5, ChainDef
<1>2. QED BY <1>1

\* Every height up to the block's is on the chain.
LEMMA ChainHasHeight ==
  ASSUME NEW b \in Blocks, NEW n \in Nat, n <= Number[b]
  PROVE  \E c \in Chain[b] : Number[c] = n
<1> DEFINE Bad == {d \in Blocks : n <= Number[d] /\ ~\E c \in Chain[d] : Number[c] = n}
<1>1. ASSUME Bad # {} PROVE FALSE
  <2>1. PICK m \in Bad : \A d \in Bad : Number[m] <= Number[d]
    BY <1>1, LowestBlock
  <2>2. m \in Chain[m] /\ Number[m] \in Nat
    BY ChainDef, BlockAssumption
  <2>3. Number[m] # n
    BY <2>1, <2>2
  <2>4. m # StartBlock
    BY <2>1, <2>3, BlockAssumption
  <2>5. Parent[m] \in Blocks /\ Number[m] = Number[Parent[m]] + 1 /\ Number[Parent[m]] \in Nat
    BY <2>4, ParentBelow
  <2>6. Parent[m] \in Bad
    BY <2>1, <2>2, <2>3, <2>4, <2>5, ChainDef
  <2>7. QED BY <2>1, <2>5, <2>6
<1>2. QED BY <1>1

\* Of one chain there is one block at each height, and it is on the chains of those above.
LEMMA ChainOrder ==
  ASSUME NEW b \in Blocks, NEW c \in Chain[b], NEW d \in Chain[b], Number[c] <= Number[d]
  PROVE  c \in Chain[d]
<1> DEFINE Bad == {e \in Blocks : c \in Chain[e] /\ d \in Chain[e] /\ c \notin Chain[d]}
<1>1. ASSUME Bad # {} PROVE FALSE
  <2>1. PICK m \in Bad : \A e \in Bad : Number[m] <= Number[e]
    BY <1>1, LowestBlock
  <2>2. d # m /\ d \in Blocks /\ d \in Chain[d]
    <3>1. d # m
      BY <2>1
    <3>2. d \in Blocks
      BY ChainBelow
    <3>3. QED BY <3>1, <3>2, ChainDef
  <2>3. c # m
    BY <2>1, <2>2, ChainBelow
  <2>4. m # StartBlock /\ c \in Chain[Parent[m]] /\ d \in Chain[Parent[m]]
    BY <2>1, <2>2, <2>3, ChainBelow
  <2>5. Parent[m] \in Blocks /\ Number[m] = Number[Parent[m]] + 1 /\ Number[Parent[m]] \in Nat
    BY <2>4, ParentBelow
  <2>6. QED BY <2>1, <2>4, <2>5
<1>2. QED BY <1>1

-----------------------------------------------------------------------------
(* The trunk: the blocks that stay whatever branch upstream takes. *)

Trunk(c) ==
  c = StartBlock \/ \E b \in Blocks : c \in Chain[b] /\ Number[c] + MaxReorgDepth <= Number[b]

LEMMA TrunkParent ==
  ASSUME NEW c \in Blocks, Trunk(c), c # StartBlock
  PROVE  Trunk(Parent[c])
<1>1. PICK b \in Blocks : c \in Chain[b] /\ Number[c] + MaxReorgDepth <= Number[b]
  BY DEF Trunk
<1>2. Parent[c] \in Blocks /\ Number[c] = Number[Parent[c]] + 1 /\ Number[Parent[c]] \in Nat
  BY ParentBelow
<1>3. Parent[c] \in Chain[c]
  BY <1>2, ChainDef
<1>4. Parent[c] \in Chain[b]
  BY <1>1, <1>3, ChainOfAncestor
<1>5. Number[Parent[c]] + MaxReorgDepth <= Number[b]
  BY <1>1, <1>2, BlockAssumption
<1>6. QED BY <1>4, <1>5 DEF Trunk

\* Of a trunk block and a block high enough above its height, one is on the other's chain.
LEMMA TrunkOnChain ==
  ASSUME NEW c \in Blocks, Trunk(c), NEW b \in Blocks, Number[c] + MaxReorgDepth <= Number[b]
  PROVE  c \in Chain[b]
<1>1. Number[c] \in Nat /\ Number[b] \in Nat /\ MaxReorgDepth \in Nat
  BY BlockAssumption
<1>2. CASE c = StartBlock
  <2>1. PICK d \in Chain[b] : Number[d] = 0
    BY <1>1, ChainHasHeight
  <2>2. d \in Blocks
    BY ChainBelow
  <2>3. d = StartBlock
    BY <2>1, <2>2, ParentBelow
  <2>4. QED BY <1>2, <2>3
<1>3. CASE c # StartBlock
  <2>1. PICK a \in Blocks : c \in Chain[a] /\ Number[c] + MaxReorgDepth <= Number[a]
    BY <1>3 DEF Trunk
  <2>2. Number[a] \in Nat
    BY BlockAssumption
  <2>3. PICK x \in Chain[a] : Number[x] = Number[c] + MaxReorgDepth
    BY <1>1, <2>1, ChainHasHeight
  <2>4. PICK y \in Chain[b] : Number[y] = Number[c] + MaxReorgDepth
    BY <1>1, ChainHasHeight
  <2>5. x \in Blocks /\ y \in Blocks
    BY ChainBelow
  <2>6. c \in Chain[x]
    BY <1>1, <2>1, <2>3, ChainOrder
  <2>7. c \in Chain[y]
    <3>1. Number[x] = Number[y] /\ Number[c] + MaxReorgDepth <= Number[x]
      BY <1>1, <2>3, <2>4
    <3>2. QED BY <2>5, <2>6, <3>1, ShallowForks
  <2>8. QED BY <2>4, <2>7, ChainOfAncestor
<1>4. QED BY <1>2, <1>3

\* A height has one trunk block.
LEMMA TrunkUnique ==
  ASSUME NEW a \in Blocks, NEW b \in Blocks, Trunk(a), Trunk(b), Number[a] = Number[b]
  PROVE  a = b
<1>1. CASE b = StartBlock
  BY <1>1, ParentBelow, BlockAssumption
<1>2. CASE b # StartBlock
  <2>1. PICK x \in Blocks : b \in Chain[x] /\ Number[b] + MaxReorgDepth <= Number[x]
    BY <1>2 DEF Trunk
  <2>2. a \in Chain[x]
    BY <2>1, TrunkOnChain
  <2>3. Number[a] \in Nat
    BY BlockAssumption
  <2>4. a \in Chain[b]
    BY <2>1, <2>2, <2>3, ChainOrder
  <2>5. QED BY <2>4, ChainBelow
<1>3. QED BY <1>1, <1>2

\* The chain of a trunk block is on the trunk.
LEMMA TrunkChain ==
  ASSUME NEW b \in Blocks, Trunk(b), NEW c \in Chain[b]
  PROVE  c \in Blocks /\ Trunk(c)
<1>1. c \in Blocks /\ Number[c] \in Nat /\ Number[b] \in Nat /\ Number[c] <= Number[b]
  BY ChainBelow
<1>2. CASE b = StartBlock
  BY <1>2, ChainDef DEF Trunk
<1>3. CASE b # StartBlock
  <2>1. PICK x \in Blocks : b \in Chain[x] /\ Number[b] + MaxReorgDepth <= Number[x]
    BY <1>3 DEF Trunk
  <2>2. c \in Chain[x]
    BY <2>1, ChainOfAncestor
  <2>3. Number[c] + MaxReorgDepth <= Number[x]
    BY <1>1, <2>1, BlockAssumption
  <2>4. QED BY <1>1, <2>2, <2>3 DEF Trunk
<1>4. QED BY <1>2, <1>3

-----------------------------------------------------------------------------
(* The inductive invariant. *)

IsEntities(e) ==
  /\ e = [id \in DOMAIN e |-> e[id]]
  /\ DOMAIN e \subseteq Ids /\ \A id \in DOMAIN e : e[id] \in Positions

StoreTyped ==
  /\ progress \in [Blocks -> {"absent", "incomplete", "complete"}]
  /\ prunedBlocks \subseteq Rows /\ latestIndexed \in Nat /\ latestCanonical \in Rows
  /\ DOMAIN table \subseteq [id : Ids, block : Rows] /\ table \in [DOMAIN table -> Positions]
  /\ frothy \subseteq DOMAIN table
  /\ frothyBlocks = [c \in DOMAIN frothyBlocks |-> frothyBlocks[c]]
  /\ DOMAIN frothyBlocks \subseteq Rows
  /\ \A c \in DOMAIN frothyBlocks : IsEntities(frothyBlocks[c])
  /\ IsEntities(latestPruned)
  /\ pruner \in [step : {"idle", "status", "cache", "frothy"}, block : Rows \cup {NoBlock}]
  /\ pruner.step # "idle" => pruner.block \in Rows
  /\ spent \in Nat /\ late \in BOOLEAN

HandlerTyped ==
  /\ lastProcessed \in [Blocks -> Nat]
  /\ \A b \in Blocks : lastProcessed[b] <= Len(Events[b])
  /\ \A b \in Blocks \ Rows : lastProcessed[b] = 0
  /\ eventQueue \subseteq Rows
  /\ handler \in [step : {"idle", "next", "call", "created", "got", "saved", "update"},
                  block : Rows \cup {NoBlock}, wasPruned : BOOLEAN,
                  position : Positions \cup {NoEntity}]
  /\ handler.step # "idle" => Block \in Rows
  /\ handler.step \notin {"idle", "next"} => lastProcessed[Block] < Len(Events[Block])
  /\ handler.step \in {"created", "got", "saved"} => handler.position \in Positions
  /\ IsEntities(tx)
  /\ tx # NoWrites => handler.step \in {"created", "saved"}

\* A row's parent is complete, and a complete row has all its events processed.
ParentsReady ==
  /\ progress[StartBlock] = "complete"
  /\ \A b \in Rows \ {StartBlock} : progress[Parent[b]] = "complete"
  /\ \A b \in Blocks : progress[b] = "complete" => lastProcessed[b] = Len(Events[b])

TypeInv == StoreTyped /\ HandlerTyped /\ ParentsReady

\* What pruning keeps is complete and on the trunk, what it prunes is not.
PruneInv ==
  /\ progress[latestCanonical] = "complete"
  /\ \E b \in Rows : Number[b] = latestIndexed
  /\ pruner.step # "idle" =>
       progress[pruner.block] = "complete" /\ Trunk(pruner.block) /\ pruner.block # StartBlock
  /\ pruner.step = "status" => Number[pruner.block] = CanonicalNumber + 1
  /\ pruner.step \in {"cache", "frothy"} => pruner.block = latestCanonical
  /\ \A b \in prunedBlocks : ~Trunk(b)
  /\ handler.wasPruned => Block \in prunedBlocks

\* A block with a pruned one on its chain.
Off(b) == Chain[b] \cap prunedBlocks # {}

\* Versions of pruned blocks, and only of blocks off the chain, are marked as pruned.
MarkedInv ==
  /\ \A k \in DOMAIN table : /\ table[k].isPruned => Off(k.block)
                             /\ k.block \in prunedBlocks => table[k].isPruned
  /\ handler.position \in Positions /\ handler.position.isPruned => Off(Block)
  /\ \A id \in DOMAIN tx : tx[id].isPruned => Off(Block)
  /\ \A b \in DOMAIN frothyBlocks : \A id \in DOMAIN frothyBlocks[b] :
       frothyBlocks[b][id].isPruned => Off(b)
  /\ \A id \in DOMAIN latestPruned : ~latestPruned[id].isPruned

\* FrothyEntity has the versions above the canonical block.
FrothyInv == \A k \in DOMAIN table : Number[k.block] > CanonicalNumber => k \in frothy

\* The versions not pruned at a height are those of a block.
OnlyOf(n, b) == \A k \in DOMAIN table : Number[k.block] = n /\ ~table[k].isPruned => k.block = b

OneVersionInv ==
  /\ pruner.step = "status" =>
       /\ \A b \in Rows \ {pruner.block} : Number[b] = CanonicalNumber + 1 => b \in prunedBlocks
       /\ OnlyOf(CanonicalNumber + 1, pruner.block)
  /\ pruner.step = "cache" \/ latestPruned # NoEntities => OnlyOf(CanonicalNumber, latestCanonical)

HasVersion(id, b) == Key(id, b) \in DOMAIN table \/ (b = Block /\ id \in DOMAIN tx)

\* The cache has the versions of a block.
Full(b) == b \in DOMAIN frothyBlocks /\ \A id \in Ids : HasVersion(id, b) => id \in DOMAIN frothyBlocks[b]

FullAbove(b) == \A c \in Rows \ {b} : b \in Chain[c] => Full(c)

\* The lower end of the cache: the canonical block, or its parent until the cache follows.
Base == IF pruner.step = "cache" THEN Parent[latestCanonical] ELSE latestCanonical

\* What is cached of a block are its versions, written or about to be.
CacheHolds ==
  \A b \in DOMAIN frothyBlocks : \A id \in DOMAIN frothyBlocks[b] :
    IF b = Block /\ id \in DOMAIN tx THEN frothyBlocks[b][id] = tx[id]
    ELSE Key(id, b) \in DOMAIN table /\ Unmarked(frothyBlocks[b][id]) = Unmarked(table[Key(id, b)])

CacheReaches ==
  /\ \A b \in DOMAIN frothyBlocks : DOMAIN frothyBlocks[b] # {} => FullAbove(b)
  /\ latestCanonical \in DOMAIN frothyBlocks => pruner.step = "cache"
  /\ latestPruned # NoEntities => Trunk(latestCanonical) /\ FullAbove(Base) /\ Base \notin DOMAIN frothyBlocks

\* The lower end holds the latest versions at its height.
LatestInv ==
  \A id \in DOMAIN latestPruned :
    Unmarked(latestPruned[id]) = Unmarked(LatestUnpruned(id, Number[Base]))

VersionsInv == ~late => MarkedInv /\ OneVersionInv /\ LatestInv
CacheInv == FrothyInv /\ CacheHolds /\ CacheReaches

PositionsInv == TypeInv /\ PruneInv /\ VersionsInv /\ CacheInv

-----------------------------------------------------------------------------
(* Reading. *)

\* Of versions not pruned at a height or below there is a highest.
LEMMA HighestVersion ==
  ASSUME StoreTyped, NEW S, S \subseteq DOMAIN table, S # {}
  PROVE  \E k \in S : \A l \in S : Number[l.block] <= Number[k.block]
<1>1. \A k \in S : k.block \in Blocks /\ Number[k.block] \in Nat
  BY BlockAssumption DEF StoreTyped, Rows
<1>2. PICK n \in Nat : \A c \in Blocks : Number[c] < n
  BY NumbersBounded
<1> DEFINE Gaps == {n - Number[k.block] : k \in S}
<1>3. Gaps \subseteq Nat /\ Gaps # {}
  BY <1>1, <1>2
<1>4. PICK m \in Gaps : \A g \in Gaps : m <= g
  BY <1>3, LeastNumber
<1>5. PICK k \in S : m = n - Number[k.block]
  OBVIOUS
<1>6. ASSUME NEW l \in S PROVE Number[l.block] <= Number[k.block]
  <2>1. m <= n - Number[l.block]
    BY <1>4
  <2>2. QED BY <2>1, <1>1, <1>5
<1>7. QED BY <1>6

Versions(id, n) == {k \in DOMAIN table : k.id = id /\ Number[k.block] <= n /\ ~table[k].isPruned}

LEMMA LatestUnprunedDef ==
  ASSUME StoreTyped, NEW id, NEW n
  PROVE  \/ Versions(id, n) = {} /\ LatestUnpruned(id, n) = NoEntity
         \/ \E k \in Versions(id, n) :
              /\ LatestUnpruned(id, n) = table[k]
              /\ \A l \in Versions(id, n) : Number[l.block] <= Number[k.block]
<1> DEFINE k == CHOOSE k \in Versions(id, n) : \A l \in Versions(id, n) : Number[l.block] <= Number[k.block]
<1>1. LatestUnpruned(id, n) = IF Versions(id, n) = {} THEN NoEntity ELSE table[k]
  BY DEF LatestUnpruned, Versions
<1>2. CASE Versions(id, n) = {}
  BY <1>1, <1>2
<1>3. CASE Versions(id, n) # {}
  <2>1. Versions(id, n) \subseteq DOMAIN table
    BY DEF Versions
  <2>2. \E l \in Versions(id, n) : \A m \in Versions(id, n) : Number[m.block] <= Number[l.block]
    BY <2>1, <1>3, HighestVersion
  <2>3. k \in Versions(id, n) /\ \A l \in Versions(id, n) : Number[l.block] <= Number[k.block]
    BY <2>2
  <2> HIDE DEF k
  <2>4. QED BY <1>1, <1>3, <2>3
<1>4. QED BY <1>2, <1>3

LEMMA LatestUnprunedType ==
  ASSUME StoreTyped, NEW id, NEW n
  PROVE  /\ LatestUnpruned(id, n) \in Positions \cup {NoEntity}
         /\ LatestUnpruned(id, n) # NoEntity => ~LatestUnpruned(id, n).isPruned
<1>1. \A k \in Versions(id, n) : table[k] \in Positions /\ ~table[k].isPruned
  BY DEF StoreTyped, Versions
<1>2. QED BY <1>1, LatestUnprunedDef


LEMMA FromTableDef ==
  ASSUME StoreTyped, NEW id, NEW b \in Blocks
  PROVE  FromTable(b, id) =
           IF Key(id, b) \in DOMAIN table THEN table[Key(id, b)]
           ELSE IF Number[b] > CanonicalNumber THEN FromTable(Parent[b], id)
           ELSE LatestUnpruned(id, Number[b])
<1> DEFINE Stop == {c \in Blocks : Key(id, c) \in DOMAIN table \/ ~(Number[c] > CanonicalNumber)}
           v == [c \in Blocks |-> IF Key(id, c) \in DOMAIN table THEN table[Key(id, c)]
                                  ELSE LatestUnpruned(id, Number[c])]
<1>1. StartBlock \in Stop
  BY BlockAssumption DEF StoreTyped, CanonicalNumber, Rows
<1>2. PICK g : g = [c \in Blocks |-> IF c \in Stop THEN v[c] ELSE g[Parent[c]]]
  <2> HIDE DEF v, Stop
  <2>1. QED BY <1>1, PlainWalk
<1>3. g = [c \in Blocks |-> IF Key(id, c) \in DOMAIN table THEN table[Key(id, c)]
                           ELSE IF Number[c] > CanonicalNumber THEN g[Parent[c]]
                           ELSE LatestUnpruned(id, Number[c])]
  BY <1>2
<1> DEFINE h == CHOOSE h : h = [c \in Blocks |->
                  IF Key(id, c) \in DOMAIN table THEN table[Key(id, c)]
                  ELSE IF Number[c] > CanonicalNumber THEN h[Parent[c]]
                  ELSE LatestUnpruned(id, Number[c])]
<1>4. ASSUME NEW x PROVE FromTable(x, id) = h[x]
  BY DEF FromTable
<1>5. h = [c \in Blocks |-> IF Key(id, c) \in DOMAIN table THEN table[Key(id, c)]
                           ELSE IF Number[c] > CanonicalNumber THEN h[Parent[c]]
                           ELSE LatestUnpruned(id, Number[c])]
  BY <1>3
<1> HIDE DEF h
<1>6. QED BY <1>4, <1>5

LEMMA FromCacheDef ==
  ASSUME StoreTyped, NEW id, NEW b \in Blocks
  PROVE  FromCache(b, id) =
           IF b \in DOMAIN frothyBlocks \ {StartBlock}
           THEN IF id \in DOMAIN frothyBlocks[b] THEN frothyBlocks[b][id]
                ELSE FromCache(Parent[b], id)
           ELSE IF id \in DOMAIN latestPruned THEN latestPruned[id]
           ELSE LatestUnpruned(id, Number[b])
<1> DEFINE Stop == {c \in Blocks : c \in DOMAIN frothyBlocks \ {StartBlock} => id \in DOMAIN frothyBlocks[c]}
           v == [c \in Blocks |-> IF c \in DOMAIN frothyBlocks \ {StartBlock} THEN frothyBlocks[c][id]
                                  ELSE IF id \in DOMAIN latestPruned THEN latestPruned[id]
                                  ELSE LatestUnpruned(id, Number[c])]
<1>1. StartBlock \in Stop
  BY BlockAssumption
<1>2. PICK g : g = [c \in Blocks |-> IF c \in Stop THEN v[c] ELSE g[Parent[c]]]
  <2> HIDE DEF v, Stop
  <2>1. QED BY <1>1, PlainWalk
<1>3. g = [c \in Blocks |->
             IF c \in DOMAIN frothyBlocks \ {StartBlock}
             THEN IF id \in DOMAIN frothyBlocks[c] THEN frothyBlocks[c][id] ELSE g[Parent[c]]
             ELSE IF id \in DOMAIN latestPruned THEN latestPruned[id]
             ELSE LatestUnpruned(id, Number[c])]
  BY <1>2
<1> DEFINE h == CHOOSE h : h = [c \in Blocks |->
             IF c \in DOMAIN frothyBlocks \ {StartBlock}
             THEN IF id \in DOMAIN frothyBlocks[c] THEN frothyBlocks[c][id] ELSE h[Parent[c]]
             ELSE IF id \in DOMAIN latestPruned THEN latestPruned[id]
             ELSE LatestUnpruned(id, Number[c])]
<1>4. ASSUME NEW x PROVE FromCache(x, id) = h[x]
  BY DEF FromCache
<1>5. h = [c \in Blocks |->
             IF c \in DOMAIN frothyBlocks \ {StartBlock}
             THEN IF id \in DOMAIN frothyBlocks[c] THEN frothyBlocks[c][id] ELSE h[Parent[c]]
             ELSE IF id \in DOMAIN latestPruned THEN latestPruned[id]
             ELSE LatestUnpruned(id, Number[c])]
  BY <1>3
<1> HIDE DEF h
<1>6. QED BY <1>4, <1>5

LEMMA EmptyFunction ==
  ASSUME NEW f, f = [x \in DOMAIN f |-> f[x]], DOMAIN f = {}
  PROVE  f = <<>>
  OBVIOUS

LEMMA NoEntitiesTyped == IsEntities(NoEntities)
  BY DEF IsEntities, NoEntities

\* What is read at a block is a version or nothing.
LEMMA FromTableType ==
  ASSUME StoreTyped, NEW id, NEW b \in Blocks
  PROVE  FromTable(b, id) \in Positions \cup {NoEntity}
<1> DEFINE Bad == {c \in Blocks : FromTable(c, id) \notin Positions \cup {NoEntity}}
<1>1. ASSUME Bad # {} PROVE FALSE
  <2>1. PICK m \in Bad : \A c \in Bad : Number[m] <= Number[c]
    BY <1>1, LowestBlock
  <2>2. CASE Key(id, m) \in DOMAIN table
    BY <2>1, <2>2, FromTableDef DEF StoreTyped
  <2>3. CASE Key(id, m) \notin DOMAIN table /\ Number[m] > CanonicalNumber
    <3>1. FromTable(Parent[m], id) = FromTable(m, id)
      BY <2>1, <2>3, FromTableDef
    <3>2. m # StartBlock
      BY <2>3, BlockAssumption DEF StoreTyped, CanonicalNumber, Rows
    <3>3. Parent[m] \in Blocks /\ Number[m] = Number[Parent[m]] + 1 /\ Number[Parent[m]] \in Nat
      BY <3>2, ParentBelow
    <3>4. Parent[m] \in Bad
      BY <2>1, <3>1, <3>3
    <3>5. QED BY <2>1, <3>3, <3>4
  <2>4. CASE Key(id, m) \notin DOMAIN table /\ ~(Number[m] > CanonicalNumber)
    <3>1. FromTable(m, id) = LatestUnpruned(id, Number[m])
      BY <2>1, <2>4, FromTableDef
    <3>2. QED BY <2>1, <3>1, LatestUnprunedType
  <2>5. QED BY <2>2, <2>3, <2>4
<1>2. QED BY <1>1

LEMMA FromCacheType ==
  ASSUME StoreTyped, NEW id, NEW b \in Blocks
  PROVE  FromCache(b, id) \in Positions \cup {NoEntity}
<1> DEFINE Bad == {c \in Blocks : FromCache(c, id) \notin Positions \cup {NoEntity}}
<1>1. ASSUME Bad # {} PROVE FALSE
  <2>1. PICK m \in Bad : \A c \in Bad : Number[m] <= Number[c]
    BY <1>1, LowestBlock
  <2>2. CASE m \in DOMAIN frothyBlocks \ {StartBlock}
    <3>1. CASE id \in DOMAIN frothyBlocks[m]
      <4>1. FromCache(m, id) = frothyBlocks[m][id]
        BY <2>1, <2>2, <3>1, FromCacheDef
      <4>2. frothyBlocks[m][id] \in Positions
        BY <2>2, <3>1 DEF StoreTyped, IsEntities
      <4>3. QED BY <2>1, <4>1, <4>2
    <3>2. CASE id \notin DOMAIN frothyBlocks[m]
      <4>1. FromCache(m, id) = FromCache(Parent[m], id)
        BY <2>1, <2>2, <3>2, FromCacheDef
      <4>2. Parent[m] \in Blocks /\ Number[m] = Number[Parent[m]] + 1 /\ Number[Parent[m]] \in Nat
        BY <2>2, ParentBelow
      <4>3. Parent[m] \in Bad
        BY <2>1, <4>1, <4>2
      <4>4. QED BY <2>1, <4>2, <4>3
    <3>3. QED BY <3>1, <3>2
  <2>3. CASE m \notin DOMAIN frothyBlocks \ {StartBlock}
    <3>1. FromCache(m, id) = IF id \in DOMAIN latestPruned THEN latestPruned[id]
                             ELSE LatestUnpruned(id, Number[m])
      BY <2>1, <2>3, FromCacheDef
    <3>2. LatestUnpruned(id, Number[m]) \in Positions \cup {NoEntity}
      BY LatestUnprunedType
    <3>3. id \in DOMAIN latestPruned => latestPruned[id] \in Positions
      BY DEF StoreTyped, IsEntities
    <3>4. QED BY <2>1, <3>1, <3>2, <3>3
  <2>4. QED BY <2>2, <2>3
<1>2. QED BY <1>1

LEMMA GetEntityType ==
  ASSUME StoreTyped, NEW id, NEW b \in Blocks
  PROVE  GetEntity(b, id) \in Positions \cup {NoEntity}
  BY FromTableType, FromCacheType DEF GetEntity

LEMMA EventType ==
  ASSUME StoreTyped, HandlerTyped, handler.step \notin {"idle", "next"}
  PROVE  /\ Block \in Rows /\ Block \in Blocks
         /\ Event.name \in {"IncreaseLiquidity", "DecreaseLiquidity", "Collect", "Transfer"}
         /\ Event.token \in Tokens /\ Event.token \in Ids
         /\ Event.amount \in Nat /\ Event.to \in Addresses
         /\ SnapshotId(Event.token, Number[Block]) \in Ids
<1>1. Block \in Rows /\ Block \in Blocks
  BY DEF HandlerTyped, Rows
<1>2. lastProcessed[Block] \in Nat /\ lastProcessed[Block] < Len(Events[Block])
  BY <1>1 DEF HandlerTyped
<1> DEFINE E == [name : {"IncreaseLiquidity", "DecreaseLiquidity", "Collect", "Transfer"},
                 token : Tokens, amount : Nat, to : Addresses]
<1>3. Events[Block] \in Seq(E)
  BY <1>1, EventsAssumption
<1> HIDE DEF E
<1>4. lastProcessed[Block] + 1 \in 1 .. Len(Events[Block]) /\ DOMAIN Events[Block] = 1 .. Len(Events[Block])
  BY <1>2, <1>3
<1>5. Event \in E
  BY <1>3, <1>4 DEF Event
<1>6. SnapshotId(Event.token, Number[Block]) \in Ids
  BY <1>1, <1>4, EventsAssumption DEF Event
<1>7. QED BY <1>1, <1>5, <1>6, EventsAssumption DEF E

LEMMA NewPositionType ==
  ASSUME NEW b \in Blocks, NEW t \in Tokens
  PROVE  NewPosition(PoolAt[b][t], b) \in Positions /\ ~NewPosition(PoolAt[b][t], b).isPruned
  BY DEF NewPosition, Positions, Addresses

LEMMA UpdatedFeeVarsType ==
  ASSUME NEW b \in Blocks, NEW t, NEW p \in Positions
  PROVE  UpdatedFeeVars(p, b, t) \in Positions /\ UpdatedFeeVars(p, b, t).isPruned = p.isPruned
  BY DEF UpdatedFeeVars, Positions

LEMMA ChangedType ==
  ASSUME NEW b, NEW p \in Positions, NEW e,
         e.name \in {"IncreaseLiquidity", "DecreaseLiquidity", "Collect", "Transfer"},
         e.amount \in Nat, e.to \in Addresses
  PROVE  Changed(p, e, b) \in Positions /\ Changed(p, e, b).isPruned = p.isPruned
<1>1. CASE e.name = "IncreaseLiquidity"
  <2>1. Changed(p, e, b) =
          [p EXCEPT !.liquidity = p.liquidity + e.amount, !.deposited = p.deposited + e.amount]
    BY <1>1 DEF Changed, Positions
  <2>2. p.liquidity + e.amount \in Int /\ p.deposited + e.amount \in Nat
    BY DEF Positions
  <2> DEFINE q == [p EXCEPT !.liquidity = p.liquidity + e.amount]
  <2>3. q \in Positions /\ q.isPruned = p.isPruned
    BY <2>2 DEF Positions
  <2>4. Changed(p, e, b) = [q EXCEPT !.deposited = p.deposited + e.amount]
    BY <2>1
  <2> HIDE DEF q
  <2>5. QED BY <2>2, <2>3, <2>4 DEF Positions
<1>2. CASE e.name = "DecreaseLiquidity"
  <2>1. Changed(p, e, b) =
          [p EXCEPT !.liquidity = p.liquidity - e.amount, !.withdrawn = p.withdrawn + e.amount]
    BY <1>2 DEF Changed, Positions
  <2>2. p.liquidity - e.amount \in Int /\ p.withdrawn + e.amount \in Nat
    BY DEF Positions
  <2> DEFINE q == [p EXCEPT !.liquidity = p.liquidity - e.amount]
  <2>3. q \in Positions /\ q.isPruned = p.isPruned
    BY <2>2 DEF Positions
  <2>4. Changed(p, e, b) = [q EXCEPT !.withdrawn = p.withdrawn + e.amount]
    BY <2>1
  <2> HIDE DEF q
  <2>5. QED BY <2>2, <2>3, <2>4 DEF Positions
<1>3. CASE e.name = "Collect"
  <2>1. Changed(p, e, b) = [p EXCEPT !.collected = p.collected + e.amount] \/ Changed(p, e, b) = p
    BY <1>3 DEF Changed
  <2>2. QED BY <2>1 DEF Positions
<1>4. CASE e.name = "Transfer"
  <2>1. Changed(p, e, b) = [p EXCEPT !.owner = e.to]
    BY <1>4 DEF Changed
  <2>2. QED BY <2>1 DEF Positions
<1>5. QED BY <1>1, <1>2, <1>3, <1>4

-----------------------------------------------------------------------------
(* Types. *)

LEMMA RowsFacts ==
  ASSUME StoreTyped
  PROVE  /\ Rows \subseteq Blocks /\ NoBlock \notin Rows /\ prunedBlocks \subseteq Blocks
         /\ latestCanonical \in Blocks /\ CanonicalNumber \in Nat
  BY BlockAssumption DEF StoreTyped, Rows, CanonicalNumber

LEMMA InitTyped == Init => TypeInv
<1> SUFFICES ASSUME Init PROVE TypeInv
  OBVIOUS
<1>1. StartBlock \in Blocks /\ NoBlock \notin Blocks
  BY BlockAssumption
<1>2. Rows = {StartBlock}
  BY <1>1 DEF Init, InitStore, Rows
<1>3. StoreTyped
  <2>1. progress \in [Blocks -> {"absent", "incomplete", "complete"}]
    BY DEF Init, InitStore
  <2>2. IsEntities(latestPruned) /\ DOMAIN table = {} /\ DOMAIN frothyBlocks = {}
    BY NoEntitiesTyped DEF Init, InitStore, NoEntities
  <2>3. table \in [DOMAIN table -> Positions] /\ frothyBlocks = [b \in DOMAIN frothyBlocks |-> frothyBlocks[b]]
    BY DEF Init, InitStore
  <2>4. QED BY <1>2, <2>1, <2>2, <2>3 DEF StoreTyped, Init, InitStore, IdlePruner
<1>4. HandlerTyped
  <2>1. \A b \in Blocks : Len(Events[b]) \in Nat
    BY EventsAssumption
  <2>2. IsEntities(tx)
    BY NoEntitiesTyped DEF Init, NoWrites, NoEntities
  <2>3. QED BY <2>1, <2>2 DEF HandlerTyped, Init, IdleHandler
<1>5. ParentsReady
  BY <1>1, <1>2, EventsAssumption DEF ParentsReady, Init, InitStore
<1>6. QED BY <1>3, <1>4, <1>5 DEF TypeInv

LEMMA AddFrothyBlockTyped ==
  ASSUME StoreTyped, NEW b, AddFrothyBlock(b)
  PROVE  /\ frothyBlocks' = [c \in DOMAIN frothyBlocks' |-> frothyBlocks'[c]]
         /\ DOMAIN frothyBlocks' = DOMAIN frothyBlocks \cup {b}
         /\ \A c \in DOMAIN frothyBlocks : frothyBlocks'[c] = frothyBlocks[c]
         /\ b \notin DOMAIN frothyBlocks => frothyBlocks'[b] = NoEntities
         /\ \A c \in DOMAIN frothyBlocks' : IsEntities(frothyBlocks'[c])
         /\ latestPruned' \in {latestPruned, NoEntities} /\ IsEntities(latestPruned')
<1>1. /\ frothyBlocks' = [c \in DOMAIN frothyBlocks' |-> frothyBlocks'[c]]
      /\ DOMAIN frothyBlocks' = DOMAIN frothyBlocks \cup {b}
      /\ \A c \in DOMAIN frothyBlocks : frothyBlocks'[c] = frothyBlocks[c]
      /\ b \notin DOMAIN frothyBlocks => frothyBlocks'[b] = NoEntities
  BY DEF AddFrothyBlock
<1>2. \A c \in DOMAIN frothyBlocks' : IsEntities(frothyBlocks'[c])
  BY <1>1, NoEntitiesTyped DEF StoreTyped
<1>3. latestPruned' \in {latestPruned, NoEntities}
  BY DEF AddFrothyBlock
<1>4. IsEntities(latestPruned')
  BY <1>3, NoEntitiesTyped DEF StoreTyped
<1>5. QED BY <1>1, <1>2, <1>3, <1>4

LEMMA IndexBlockTyped ==
  ASSUME TypeInv, NEW b \in Blocks, IndexBlock(b)
  PROVE  TypeInv'
<1>1. Rows' = Rows \cup {b} /\ b \notin Rows /\ b # StartBlock
  BY DEF TypeInv, StoreTyped, Rows, IndexBlock, SaveBlock
<1>2. StoreTyped'
  <2>1. AddFrothyBlock(b) /\ StoreTyped
    BY DEF TypeInv, IndexBlock, SaveBlock
  <2>2. progress' \in [Blocks -> {"absent", "incomplete", "complete"}]
    BY <2>1 DEF StoreTyped, IndexBlock, SaveBlock
  <2>3. UNCHANGED <<prunedBlocks, latestIndexed, latestCanonical, table, frothy, pruner, spent, late>>
    BY DEF IndexBlock, SaveBlock
  <2>4. /\ frothyBlocks' = [c \in DOMAIN frothyBlocks' |-> frothyBlocks'[c]]
        /\ DOMAIN frothyBlocks' \subseteq Rows'
        /\ \A c \in DOMAIN frothyBlocks' : IsEntities(frothyBlocks'[c])
        /\ IsEntities(latestPruned')
    BY ONLY <1>1, <2>1, AddFrothyBlockTyped DEF StoreTyped
  <2>5. DOMAIN table' \subseteq [id : Ids, block : Rows']
    BY ONLY <1>1, <2>1, <2>3 DEF StoreTyped
  <2>6. pruner' \in [step : {"idle", "status", "cache", "frothy"}, block : Rows' \cup {NoBlock}]
    BY ONLY <1>1, <2>1, <2>3 DEF StoreTyped
  <2>7. /\ prunedBlocks' \subseteq Rows' /\ latestIndexed' \in Nat /\ latestCanonical' \in Rows'
        /\ table' \in [DOMAIN table' -> Positions] /\ frothy' \subseteq DOMAIN table'
        /\ spent' \in Nat /\ late' \in BOOLEAN
    BY ONLY <1>1, <2>1, <2>3 DEF StoreTyped
  <2>8. pruner'.step # "idle" => pruner'.block \in Rows'
    BY ONLY <1>1, <2>1, <2>3 DEF StoreTyped
  <2>9. QED BY ONLY <2>2, <2>4, <2>5, <2>6, <2>7, <2>8 DEF StoreTyped
<1>3. HandlerTyped'
  BY <1>1 DEF TypeInv, HandlerTyped, Block, IndexBlock, SaveBlock, PushEventsJob
<1>4. ParentsReady'
  <2>1. progress' = [progress EXCEPT ![b] = IF Events[b] # <<>> THEN "incomplete" ELSE "complete"]
    BY DEF IndexBlock, SaveBlock
  <2>2. progress \in [Blocks -> {"absent", "incomplete", "complete"}] /\ progress[b] = "absent"
    BY DEF TypeInv, StoreTyped, IndexBlock, SaveBlock
  <2>3. progress'[StartBlock] = "complete"
    BY <1>1, <2>1, <2>2 DEF TypeInv, ParentsReady, IndexBlock, SaveBlock, PushEventsJob
  <2>4. ASSUME NEW c \in Rows' \ {StartBlock} PROVE progress'[Parent[c]] = "complete"
    <3>1. progress[Parent[c]] = "complete"
      BY <1>1, <2>4 DEF TypeInv, ParentsReady, IndexBlock, SaveBlock, PushEventsJob
    <3>2. Parent[c] # b
      BY <2>2, <3>1
    <3>3. QED BY <2>1, <2>2, <3>1, <3>2
  <2>5. ASSUME NEW c \in Blocks, progress'[c] = "complete" PROVE lastProcessed'[c] = Len(Events[c])
    <3>1. CASE c # b
      <4>1. progress[c] = "complete"
        BY <2>1, <2>2, <2>5, <3>1
      <4>2. QED BY <4>1 DEF TypeInv, ParentsReady, IndexBlock, SaveBlock, PushEventsJob
    <3>2. CASE c = b
      <4>1. Events[b] = <<>>
        BY <2>1, <2>2, <2>5, <3>2
      <4>2. lastProcessed[b] = 0
        BY <1>1 DEF TypeInv, HandlerTyped
      <4>3. QED BY <3>2, <4>1, <4>2 DEF IndexBlock, PushEventsJob
    <3>3. QED BY <3>1, <3>2
  <2>6. QED BY <2>3, <2>4, <2>5 DEF ParentsReady
<1>5. QED BY <1>2, <1>3, <1>4 DEF TypeInv

\* A step that leaves the rows of blocks alone.
LEMMA SameRows ==
  ASSUME progress' = progress
  PROVE  Rows' = Rows
  BY DEF Rows

LEMMA SameParentsReady ==
  ASSUME ParentsReady, progress' = progress, lastProcessed' = lastProcessed
  PROVE  ParentsReady'
  BY DEF ParentsReady, Rows

LEMMA RowFoundType ==
  ASSUME TypeInv, NEW b \in Rows \ {StartBlock}
  PROVE  RowFound(b) \in Rows
<1>1. b \in Blocks /\ Parent[b] \in Blocks /\ progress[Parent[b]] = "complete"
  BY ParentBelow DEF TypeInv, ParentsReady, Rows
<1>2. QED BY <1>1 DEF RowFound, Rows

LEMMA IndexBlockAgainTyped ==
  ASSUME TypeInv, NEW b \in Blocks, IndexBlockAgain(b)
  PROVE  TypeInv'
<1>1. b \in Rows \ {StartBlock}
  BY DEF IndexBlockAgain, IndexAgain
<1>2. PICK r \in Rows : r = RowFound(b)
  BY <1>1, RowFoundType
<1>3. UNCHANGED <<progress, prunedBlocks, latestIndexed, latestCanonical, table, frothy, pruner,
                  late, lastProcessed, handler, tx>>
  BY DEF IndexBlockAgain, IndexAgain, PushEventsJob
<1>4. Rows' = Rows
  BY <1>3, SameRows
<1>5. StoreTyped'
  <2>1. AddFrothyBlock(r) /\ StoreTyped /\ spent' = spent + 1
    BY <1>2 DEF IndexBlockAgain, IndexAgain, TypeInv, Incident
  <2>2. spent' \in Nat
    BY <2>1 DEF StoreTyped
  <2>3. /\ frothyBlocks' = [c \in DOMAIN frothyBlocks' |-> frothyBlocks'[c]]
        /\ DOMAIN frothyBlocks' = DOMAIN frothyBlocks \cup {r}
        /\ \A c \in DOMAIN frothyBlocks' : IsEntities(frothyBlocks'[c])
        /\ IsEntities(latestPruned')
    BY ONLY <2>1, AddFrothyBlockTyped
  <2>4. DOMAIN frothyBlocks' \subseteq Rows'
    BY ONLY <1>2, <1>4, <2>1, <2>3 DEF StoreTyped
  <2>5. QED BY ONLY <1>3, <1>4, <2>1, <2>2, <2>3, <2>4 DEF StoreTyped
<1>6. HandlerTyped'
  <2>1. eventQueue' = eventQueue \cup {r}
    BY <1>2 DEF IndexBlockAgain, PushEventsJob
  <2>2. QED BY <1>2, <1>3, <1>4, <2>1 DEF TypeInv, HandlerTyped, Block
<1>7. QED BY <1>3, <1>5, <1>6, SameParentsReady DEF TypeInv

LEMMA OnIndexCompleteTyped ==
  ASSUME TypeInv, NEW b \in Blocks, OnIndexComplete(b), UNCHANGED handlerVars
  PROVE  TypeInv'
<1>1. UNCHANGED <<progress, prunedBlocks, latestCanonical, table, frothy, frothyBlocks, latestPruned,
                  pruner, spent, late, lastProcessed, eventQueue, handler, tx>>
  BY DEF OnIndexComplete, cacheVars, handlerVars
<1>2. latestIndexed' \in Nat
  BY BlockAssumption DEF OnIndexComplete, TypeInv
<1>3. Rows' = Rows
  BY <1>1, SameRows
<1>4. StoreTyped'
  BY ONLY <1>1, <1>2, <1>3, TypeInv DEF TypeInv, StoreTyped
<1>5. HandlerTyped'
  BY ONLY <1>1, <1>3, TypeInv DEF TypeInv, HandlerTyped, Block
<1>6. QED BY <1>1, <1>4, <1>5, SameParentsReady DEF TypeInv

\* The chain of a row is rows.
LEMMA AncestorsAreRows ==
  ASSUME TypeInv, NEW b \in Rows, NEW a \in Chain[b]
  PROVE  a \in Rows
<1> DEFINE Bad == {c \in Rows : a \in Chain[c] /\ a \notin Rows}
<1>1. ASSUME Bad # {} PROVE FALSE
  <2>1. Bad \subseteq Blocks
    BY DEF Rows
  <2>2. PICK m \in Bad : \A c \in Bad : Number[m] <= Number[c]
    BY <1>1, <2>1, LowestBlock
  <2>3. m \in Blocks /\ a # m
    BY <2>1, <2>2
  <2>4. m # StartBlock /\ a \in Chain[Parent[m]]
    BY <2>2, <2>3, ChainBelow
  <2>5. Parent[m] \in Blocks /\ Number[m] = Number[Parent[m]] + 1 /\ Number[Parent[m]] \in Nat
    BY <2>3, <2>4, ParentBelow
  <2>6. Parent[m] \in Bad
    BY <2>2, <2>4, <2>5 DEF TypeInv, ParentsReady, Rows
  <2>7. QED BY <2>2, <2>5, <2>6
<1>2. QED BY <1>1

LEMMA Overlay ==
  ASSUME NEW f, NEW g
  PROVE  /\ DOMAIN Over(f, g) = DOMAIN f \cup DOMAIN g
         /\ Over(f, g) = [x \in DOMAIN Over(f, g) |-> Over(f, g)[x]]
         /\ \A x \in DOMAIN f : Over(f, g)[x] = f[x]
         /\ \A x \in DOMAIN g : x \notin DOMAIN f => Over(f, g)[x] = g[x]
  BY DEF Over

LEMMA OverlayTyped ==
  ASSUME NEW f, NEW g, IsEntities(f), IsEntities(g)
  PROVE  IsEntities(Over(f, g))
<1> DEFINE h == Over(f, g)
<1>1. /\ DOMAIN h = DOMAIN f \cup DOMAIN g
      /\ h = [x \in DOMAIN h |-> h[x]]
      /\ \A x \in DOMAIN f : h[x] = f[x]
      /\ \A x \in DOMAIN g : x \notin DOMAIN f => h[x] = g[x]
  BY Overlay
<1> HIDE DEF h
<1>2. IsEntities(h)
  BY <1>1 DEF IsEntities
<1>3. QED BY <1>2 DEF h

LEMMA PruneEntitiesTyped ==
  ASSUME StoreTyped, NEW S
  PROVE  /\ DOMAIN PruneEntities(S) = DOMAIN table
         /\ PruneEntities(S) \in [DOMAIN table -> Positions]
         /\ \A k \in DOMAIN table : Unmarked(PruneEntities(S)[k]) = Unmarked(table[k])
         /\ \A k \in DOMAIN table :
              PruneEntities(S)[k].isPruned <=> table[k].isPruned \/ (k.block \in S /\ k \in frothy)
<1>1. table \in [DOMAIN table -> Positions]
  BY DEF StoreTyped
<1>2. \A p \in Positions : [p EXCEPT !.isPruned = TRUE] \in Positions
  <2>1. \A p \in Positions : \A x \in BOOLEAN : [p EXCEPT !.isPruned = x] \in Positions
    BY DEF Positions
  <2>2. TRUE \in BOOLEAN
    OBVIOUS
  <2>3. QED BY ONLY <2>1, <2>2, Zenon
<1>3. \A p \in Positions : [p EXCEPT !.isPruned = TRUE].isPruned = TRUE
  BY DEF Positions
<1>4. \A p \in Positions : Unmarked([p EXCEPT !.isPruned = TRUE]) = Unmarked(p)
  <2>1. SUFFICES ASSUME NEW p \in Positions
                 PROVE  Unmarked([p EXCEPT !.isPruned = TRUE]) = Unmarked(p)
    OBVIOUS
  <2>2. p # NoEntity /\ [p EXCEPT !.isPruned = TRUE] # NoEntity
    BY <1>2, NoEntityAssumption
  <2>3. [[p EXCEPT !.isPruned = TRUE] EXCEPT !.isPruned = FALSE] = [p EXCEPT !.isPruned = FALSE]
    <3> DEFINE q == [p EXCEPT !.isPruned = TRUE]
    <3>1. DOMAIN q = DOMAIN p /\ q = [x \in DOMAIN p |-> q[x]]
      OBVIOUS
    <3>2. \A x \in DOMAIN p : x # "isPruned" => q[x] = p[x]
      OBVIOUS
    <3> HIDE DEF q
    <3>3. [q EXCEPT !.isPruned = FALSE] = [p EXCEPT !.isPruned = FALSE]
      BY <3>1, <3>2
    <3>4. QED BY <3>3 DEF q
  <2>4. QED BY <2>2, <2>3 DEF Unmarked
<1>5. \A k \in DOMAIN table :
        PruneEntities(S)[k] = IF (k.block \in S /\ k \in frothy)
                              THEN [table[k] EXCEPT !.isPruned = TRUE] ELSE table[k]
  BY DEF PruneEntities
<1>6. DOMAIN PruneEntities(S) = DOMAIN table /\ PruneEntities(S) \in [DOMAIN table -> Positions]
  BY <1>1, <1>2 DEF PruneEntities
<1>7. QED BY <1>1, <1>3, <1>4, <1>5, <1>6

LEMMA SameHandlerTyped ==
  ASSUME HandlerTyped, progress' = progress, UNCHANGED handlerVars
  PROVE  HandlerTyped'
<1>1. Rows' = Rows
  BY SameRows
<1>2. UNCHANGED <<lastProcessed, eventQueue, handler, tx>>
  BY DEF handlerVars
<1>3. QED BY <1>1, <1>2 DEF HandlerTyped, Block

LEMMA PruneTyped ==
  ASSUME TypeInv, Prune
  PROVE  TypeInv'
<1>1. UNCHANGED <<progress, latestIndexed, late>> /\ UNCHANGED handlerVars /\ lastProcessed' = lastProcessed
  BY DEF Prune, MarkBlocksAsPruned, UpdateCanonicalBlock, PruneCachedEntities, PruneFrothyEntities,
     cacheVars, handlerVars
<1>2. Rows' = Rows
  BY <1>1, SameRows
<1>3. StoreTyped
  BY DEF TypeInv
<1>4. StoreTyped'
  <2>1. ASSUME NEW a \in Blocks, MarkBlocksAsPruned(a) PROVE StoreTyped'
    <3>1. PICK S : S = UnprunedAt(CanonicalNumber + 1) \ {a}
      OBVIOUS
    <3>2. table' = PruneEntities(S) /\ prunedBlocks' = prunedBlocks \cup S
      BY <2>1, <3>1 DEF MarkBlocksAsPruned
    <3>3. DOMAIN table' = DOMAIN table /\ table' \in [DOMAIN table' -> Positions]
      BY <1>3, <3>2, PruneEntitiesTyped
    <3>4. S \subseteq Rows
      BY <3>1 DEF UnprunedAt
    <3>5. a \in Rows
      <4>1. CASE Cardinality(UnprunedAt(CanonicalNumber + 1)) = 1
        BY <2>1, <4>1 DEF MarkBlocksAsPruned, UnprunedAt
      <4>2. CASE Cardinality(UnprunedAt(CanonicalNumber + 1)) # 1
        <5>1. PICK b \in UnprunedAt(CanonicalNumber + 1 + MaxReorgDepth) : a \in Chain[b]
          BY <2>1, <4>2 DEF MarkBlocksAsPruned
        <5>2. b \in Rows
          BY DEF UnprunedAt
        <5>3. QED BY <5>1, <5>2, TypeInv, AncestorsAreRows
      <4>3. QED BY <4>1, <4>2
    <3>6. pruner' = [step |-> "status", block |-> a]
      BY <2>1 DEF MarkBlocksAsPruned
    <3>7. pruner' \in [step : {"idle", "status", "cache", "frothy"}, block : Rows' \cup {NoBlock}]
      BY <1>2, <3>5, <3>6
    <3>8. UNCHANGED <<latestCanonical, frothy, frothyBlocks, latestPruned, spent>>
      BY <2>1 DEF MarkBlocksAsPruned, cacheVars
    <3>9. QED BY ONLY <1>1, <1>2, <1>3, <3>2, <3>3, <3>4, <3>5, <3>6, <3>7, <3>8 DEF StoreTyped
  <2>2. ASSUME UpdateCanonicalBlock PROVE StoreTyped'
    <3>1. /\ UNCHANGED <<prunedBlocks, table, frothy, frothyBlocks, latestPruned, spent>>
          /\ pruner.step = "status" /\ latestCanonical' = pruner.block
          /\ pruner' = [pruner EXCEPT !.step = "cache"]
      BY <2>2 DEF UpdateCanonicalBlock, cacheVars
    <3>2. pruner.block \in Rows
      BY <1>3, <3>1 DEF StoreTyped
    <3>3. pruner' \in [step : {"idle", "status", "cache", "frothy"}, block : Rows \cup {NoBlock}]
          /\ pruner'.block = pruner.block
      BY <1>3, <3>1 DEF StoreTyped
    <3>4. QED BY ONLY <1>1, <1>2, <1>3, <3>1, <3>2, <3>3 DEF StoreTyped
  <2>3. ASSUME PruneCachedEntities PROVE StoreTyped'
    <3>1. /\ UNCHANGED <<prunedBlocks, latestCanonical, table, frothy, spent>>
          /\ pruner.step = "cache" /\ pruner' = [pruner EXCEPT !.step = "frothy"]
          /\ latestPruned' = LatestPrunedWith(pruner.block)
          /\ frothyBlocks' = [b \in {c \in DOMAIN frothyBlocks : Number[c] > Number[pruner.block]} |->
                                frothyBlocks[b]]
      BY <2>3 DEF PruneCachedEntities
    <3>2. pruner.block \in Rows
      BY <1>3, <3>1 DEF StoreTyped
    <3>3. pruner' \in [step : {"idle", "status", "cache", "frothy"}, block : Rows \cup {NoBlock}]
          /\ pruner'.block = pruner.block
      BY <1>3, <3>1 DEF StoreTyped
    <3>4. IsEntities(latestPruned) /\ \A b \in DOMAIN frothyBlocks : IsEntities(frothyBlocks[b])
      BY <1>3 DEF StoreTyped
    <3>5. IsEntities(latestPruned')
      BY <3>1, <3>4, OverlayTyped DEF LatestPrunedWith
    <3>6. /\ frothyBlocks' = [c \in DOMAIN frothyBlocks' |-> frothyBlocks'[c]]
          /\ DOMAIN frothyBlocks' \subseteq DOMAIN frothyBlocks
          /\ \A c \in DOMAIN frothyBlocks' : frothyBlocks'[c] = frothyBlocks[c]
      BY <3>1
    <3>7. \A c \in DOMAIN frothyBlocks' : IsEntities(frothyBlocks'[c])
      BY <3>4, <3>6
    <3>8. DOMAIN frothyBlocks' \subseteq Rows
      BY <1>3, <3>6 DEF StoreTyped
    <3>9. QED BY ONLY <1>1, <1>2, <1>3, <3>1, <3>2, <3>3, <3>5, <3>6, <3>7, <3>8 DEF StoreTyped
  <2>4. ASSUME PruneFrothyEntities PROVE StoreTyped'
    <3>1. /\ UNCHANGED <<prunedBlocks, latestCanonical, table, frothyBlocks, latestPruned>>
          /\ frothy' \subseteq frothy /\ pruner' = IdlePruner
          /\ spent' \in {spent, spent + 1}
      BY <2>4 DEF PruneFrothyEntities, cacheVars, Incident
    <3>2. spent' \in Nat
      BY <1>3, <3>1 DEF StoreTyped
    <3>3. pruner' \in [step : {"idle", "status", "cache", "frothy"}, block : Rows \cup {NoBlock}]
          /\ pruner'.step = "idle"
      BY <3>1 DEF IdlePruner
    <3>4. QED BY ONLY <1>1, <1>2, <1>3, <3>1, <3>2, <3>3 DEF StoreTyped
  <2>5. QED BY <2>1, <2>2, <2>3, <2>4 DEF Prune
<1>5. HandlerTyped'
  BY <1>1, SameHandlerTyped DEF TypeInv
<1>6. QED BY <1>1, <1>4, <1>5, SameParentsReady DEF TypeInv

Steps == {"idle", "next", "call", "created", "got", "saved", "update"}
Handlers == [step : Steps, block : Rows \cup {NoBlock}, wasPruned : BOOLEAN,
             position : Positions \cup {NoEntity}]

LEMMA GoOnTyped ==
  ASSUME HandlerTyped, NEW step \in Steps, NEW position \in Positions \cup {NoEntity},
         GoOn(step, position)
  PROVE  /\ handler' \in Handlers
         /\ handler'.step = step /\ handler'.position = position
         /\ handler'.block = handler.block /\ handler'.wasPruned = handler.wasPruned
         /\ lastProcessed' = lastProcessed /\ eventQueue' = eventQueue
<1>1. handler \in Handlers
  BY DEF HandlerTyped, Handlers, Steps
<1>2. handler' = [handler EXCEPT !.step = step, !.position = position]
  BY DEF GoOn
<1>3. /\ handler' \in Handlers
      /\ handler'.step = step /\ handler'.position = position
      /\ handler'.block = handler.block
  BY <1>1, <1>2 DEF Handlers
<1>4. handler'.wasPruned = handler.wasPruned
  BY <1>1, <1>2 DEF Handlers
<1>5. QED BY <1>3, <1>4 DEF GoOn

\* The handler goes on to the next step with the same event.
LEMMA GoOnHandlerTyped ==
  ASSUME TypeInv, Rows' = Rows, NEW step \in Steps, NEW position \in Positions \cup {NoEntity},
         GoOn(step, position), Block \in Rows,
         step \notin {"idle", "next"}, lastProcessed[Block] < Len(Events[Block]),
         step \in {"created", "got", "saved"} => position \in Positions,
         IsEntities(tx'), tx' # NoWrites => step \in {"created", "saved"}
  PROVE  HandlerTyped'
<1>1. /\ handler' \in Handlers
      /\ handler'.step = step /\ handler'.position = position
      /\ handler'.block = handler.block
      /\ lastProcessed' = lastProcessed /\ eventQueue' = eventQueue
  BY GoOnTyped DEF TypeInv
<1>2. HandlerTyped
  BY DEF TypeInv
<1>3. /\ lastProcessed' \in [Blocks -> Nat] /\ eventQueue' \subseteq Rows'
      /\ \A b \in Blocks : lastProcessed'[b] <= Len(Events[b])
      /\ \A b \in Blocks \ Rows' : lastProcessed'[b] = 0
  BY <1>1, <1>2 DEF HandlerTyped
<1>4. /\ handler' \in [step : Steps, block : Rows' \cup {NoBlock}, wasPruned : BOOLEAN,
                       position : Positions \cup {NoEntity}]
      /\ handler'.block \in Rows'
  BY <1>1 DEF Handlers, Block
<1>5. lastProcessed'[handler'.block] < Len(Events[handler'.block])
  BY <1>1 DEF Block
<1>6. QED BY ONLY <1>1, <1>3, <1>4, <1>5, IsEntities(tx'), tx' # NoWrites => step \in {"created", "saved"},
         step \in {"created", "got", "saved"} => position \in Positions, step \notin {"idle", "next"}
      DEF HandlerTyped, Block, Steps

\* The job is over: done, or pushed again.
LEMMA IdleHandlerTyped ==
  ASSUME TypeInv, Rows' = Rows, handler' = IdleHandler, tx' = NoWrites, lastProcessed' = lastProcessed,
         eventQueue' \subseteq Rows
  PROVE  HandlerTyped'
<1>1. IsEntities(tx')
  BY NoEntitiesTyped DEF NoEntities, NoWrites
<1>2. /\ handler' \in [step : Steps, block : Rows' \cup {NoBlock}, wasPruned : BOOLEAN,
                       position : Positions \cup {NoEntity}]
      /\ handler'.step = "idle"
  BY DEF IdleHandler, Steps
<1>3. /\ lastProcessed' \in [Blocks -> Nat] /\ eventQueue' \subseteq Rows'
      /\ \A b \in Blocks : lastProcessed'[b] <= Len(Events[b])
      /\ \A b \in Blocks \ Rows' : lastProcessed'[b] = 0
  BY DEF TypeInv, HandlerTyped
<1>4. QED BY ONLY <1>1, <1>2, <1>3, tx' = NoWrites DEF HandlerTyped, Block, Steps

LEMMA SaveTyped ==
  ASSUME TypeInv, NEW writes, NEW step \in {"created", "saved"}, NEW position \in Positions,
         Save(writes, step, position), IsEntities(writes), spent' \in Nat,
         handler.step \notin {"idle", "next"}
  PROVE  TypeInv'
<1>1. UNCHANGED <<progress, prunedBlocks, latestIndexed, latestCanonical, table, frothy, pruner, late,
                  latestPruned>>
      /\ tx' = writes /\ GoOn(step, position)
  BY DEF Save, CacheUpdatedEntities
<1>2. Rows' = Rows
  BY <1>1, SameRows
<1>3. Block \in Rows /\ lastProcessed[Block] < Len(Events[Block])
  BY DEF TypeInv, HandlerTyped
<1>4. /\ frothyBlocks' = [c \in DOMAIN frothyBlocks' |-> frothyBlocks'[c]]
      /\ DOMAIN frothyBlocks' = DOMAIN frothyBlocks
      /\ \A c \in DOMAIN frothyBlocks :
           frothyBlocks'[c] = IF c = Block THEN Over(writes, frothyBlocks[c]) ELSE frothyBlocks[c]
  BY DEF Save, CacheUpdatedEntities
<1>5. \A c \in DOMAIN frothyBlocks' : IsEntities(frothyBlocks'[c])
  <2>1. SUFFICES ASSUME NEW c \in DOMAIN frothyBlocks PROVE IsEntities(frothyBlocks'[c])
    BY <1>4
  <2>2. IsEntities(frothyBlocks[c])
    BY DEF TypeInv, StoreTyped
  <2>3. QED BY <1>4, <2>2, OverlayTyped
<1>6. StoreTyped'
  <2>1. StoreTyped
    BY DEF TypeInv
  <2>2. QED BY ONLY <1>1, <1>2, <1>4, <1>5, <2>1, spent' \in Nat DEF StoreTyped
<1>7. HandlerTyped'
  <2>1. IsEntities(tx') /\ lastProcessed' = lastProcessed
    BY <1>1 DEF GoOn
  <2>2. QED BY <1>1, <1>2, <1>3, <2>1, GoOnHandlerTyped DEF Steps
<1>8. lastProcessed' = lastProcessed /\ ParentsReady
  BY <1>1 DEF GoOn, TypeInv
<1>9. QED BY <1>1, <1>6, <1>7, <1>8, SameParentsReady DEF TypeInv

\* What a commit adds to the table.
LEMMA CommitTable ==
  ASSUME TypeInv, CommitEntities(Block, tx), Block \in Rows
  PROVE  /\ \A k : k \in DOMAIN table' <=> k \in DOMAIN table \/ (k.id \in DOMAIN tx /\ k = Key(k.id, Block))
         /\ DOMAIN table' \subseteq [id : Ids, block : Rows] /\ table' \in [DOMAIN table' -> Positions]
         /\ \A id \in DOMAIN tx : Key(id, Block) \in DOMAIN table' /\ table'[Key(id, Block)] = tx[id]
         /\ \A k \in DOMAIN table : ~(k.id \in DOMAIN tx /\ k = Key(k.id, Block)) => table'[k] = table[k]
         /\ frothy' = frothy \cup (DOMAIN table' \ DOMAIN table) \cup {Key(id, Block) : id \in DOMAIN tx}
<1> DEFINE keys == {Key(id, Block) : id \in DOMAIN tx}
           new == [k \in keys |-> tx[k.id]]
<1>1. table' = Over(new, table) /\ frothy' = frothy \cup keys
  BY DEF CommitEntities
<1>2. \A k : k \in keys <=> k.id \in DOMAIN tx /\ k = Key(k.id, Block)
  BY DEF Key
<1>3. DOMAIN new = keys /\ \A k \in keys : new[k] = tx[k.id]
  OBVIOUS
<1>4. \A id \in DOMAIN tx : Key(id, Block) \in keys /\ Key(id, Block).id = id
  BY DEF Key
<1>5. IsEntities(tx) /\ StoreTyped
  BY DEF TypeInv, HandlerTyped
<1> HIDE DEF new
<1>6. /\ DOMAIN table' = keys \cup DOMAIN table
      /\ table' = [k \in DOMAIN table' |-> table'[k]]
      /\ \A k \in keys : table'[k] = tx[k.id]
      /\ \A k \in DOMAIN table : k \notin keys => table'[k] = table[k]
  <2>1. /\ DOMAIN Over(new, table) = DOMAIN new \cup DOMAIN table
        /\ Over(new, table) = [k \in DOMAIN Over(new, table) |-> Over(new, table)[k]]
        /\ \A k \in DOMAIN new : Over(new, table)[k] = new[k]
        /\ \A k \in DOMAIN table : k \notin DOMAIN new => Over(new, table)[k] = table[k]
    BY ONLY Overlay
  <2>2. QED BY ONLY <2>1, <1>1, <1>3
<1>7. keys \subseteq [id : Ids, block : Rows]
  BY <1>5 DEF Key, IsEntities
<1>8. DOMAIN table' \subseteq [id : Ids, block : Rows]
  BY <1>5, <1>6, <1>7 DEF StoreTyped
<1>9. \A k \in DOMAIN table' : table'[k] \in Positions
  BY <1>2, <1>5, <1>6 DEF StoreTyped, IsEntities
<1>10. table' \in [DOMAIN table' -> Positions]
  BY <1>6, <1>9
<1>11. \A k : k \in DOMAIN table' <=> k \in DOMAIN table \/ (k.id \in DOMAIN tx /\ k = Key(k.id, Block))
  BY <1>2, <1>6
<1>12. \A id \in DOMAIN tx : Key(id, Block) \in DOMAIN table' /\ table'[Key(id, Block)] = tx[id]
  BY <1>4, <1>6
<1>13. \A k \in DOMAIN table : ~(k.id \in DOMAIN tx /\ k = Key(k.id, Block)) => table'[k] = table[k]
  BY <1>2, <1>6
<1>14. frothy' = frothy \cup (DOMAIN table' \ DOMAIN table) \cup keys
  BY <1>1, <1>6
<1>15. QED BY <1>8, <1>10, <1>11, <1>12, <1>13, <1>14

LEMMA CommitTyped ==
  ASSUME TypeInv, NEW step \in {"got", "update"}, Commit(step), handler.step \in {"created", "saved"}
  PROVE  TypeInv'
<1>1. /\ UNCHANGED <<progress, prunedBlocks, latestIndexed, latestCanonical, frothyBlocks, latestPruned,
                     pruner, spent>>
      /\ tx' = NoWrites /\ GoOn(step, handler.position) /\ CommitEntities(Block, tx)
  BY DEF Commit, cacheVars
<1>2. Rows' = Rows
  BY <1>1, SameRows
<1>3. Block \in Rows /\ lastProcessed[Block] < Len(Events[Block]) /\ handler.position \in Positions
  BY DEF TypeInv, HandlerTyped
<1>4. /\ DOMAIN table' \subseteq [id : Ids, block : Rows] /\ table' \in [DOMAIN table' -> Positions]
      /\ frothy' = frothy \cup (DOMAIN table' \ DOMAIN table) \cup {Key(id, Block) : id \in DOMAIN tx}
      /\ \A k \in DOMAIN table : k \in DOMAIN table'
      /\ \A id \in DOMAIN tx : Key(id, Block) \in DOMAIN table'
  BY <1>1, <1>3, CommitTable
<1>5. StoreTyped'
  <2>1. StoreTyped
    BY DEF TypeInv
  <2>2. late' \in BOOLEAN
    BY <1>1, <2>1 DEF CommitEntities, StoreTyped
  <2>3. frothy' \subseteq DOMAIN table'
    BY <1>4, <2>1 DEF StoreTyped
  <2>4. QED BY ONLY <1>1, <1>2, <1>4, <2>1, <2>2, <2>3 DEF StoreTyped
<1>6. HandlerTyped'
  <2>1. IsEntities(tx')
    BY <1>1, NoEntitiesTyped DEF NoEntities, NoWrites
  <2>2. QED BY <1>1, <1>2, <1>3, <2>1, GoOnHandlerTyped DEF Steps
<1>7. lastProcessed' = lastProcessed /\ ParentsReady
  BY <1>1 DEF GoOn, TypeInv
<1>8. QED BY <1>1, <1>5, <1>6, <1>7, SameParentsReady DEF TypeInv

LEMMA ThrowTyped ==
  ASSUME TypeInv, Throw, Block \in Rows
  PROVE  TypeInv'
<1>1. /\ UNCHANGED <<progress, prunedBlocks, latestIndexed, latestCanonical, table, frothy, pruner,
                     late, lastProcessed>>
      /\ frothyBlocks' = <<>> /\ latestPruned' = NoEntities /\ spent' = spent + 1
      /\ tx' = NoWrites /\ handler' = IdleHandler /\ eventQueue' = eventQueue \cup {Block}
  BY DEF Throw, ClearCachedEntities, Incident, Retry
<1>2. Rows' = Rows
  BY <1>1, SameRows
<1>3. DOMAIN frothyBlocks' = {} /\ frothyBlocks' = [c \in DOMAIN frothyBlocks' |-> frothyBlocks'[c]]
  BY <1>1
<1>4. StoreTyped'
  <2>1. StoreTyped
    BY DEF TypeInv
  <2>2. spent' \in Nat /\ IsEntities(latestPruned')
    BY <1>1, <2>1, NoEntitiesTyped DEF StoreTyped
  <2>3. UNCHANGED <<progress, prunedBlocks, latestIndexed, latestCanonical, table, frothy, pruner, late>>
    BY <1>1
  <2>4. QED BY ONLY <1>2, <1>3, <2>1, <2>2, <2>3 DEF StoreTyped
<1>5. eventQueue' \subseteq Rows
  BY <1>1 DEF TypeInv, HandlerTyped
<1>6. HandlerTyped'
  BY <1>1, <1>2, <1>5, IdleHandlerTyped
<1>7. QED BY <1>1, <1>4, <1>6, SameParentsReady DEF TypeInv

\* A save: the rows are marked as pruned only if the position in hand was.
Saves ==
  \E writes : \E step \in {"created", "saved"} : \E position \in Positions :
    /\ Save(writes, step, position) /\ IsEntities(writes)
    /\ spent' \in {spent, spent + 1} /\ handler.step \in {"call", "got"}
    /\ \A id \in DOMAIN writes : writes[id].isPruned => position.isPruned
    /\ position.isPruned => position = handler.position

\* A commit.
Commits == handler.step \in {"created", "saved"} /\ \E step \in {"got", "update"} : Commit(step)

\* A step that only reads: what it takes in hand is what is read at the block, or nothing.
Reads ==
  \E step \in {"call", "got", "update"} : \E position \in Positions \cup {NoEntity} :
    /\ GoOn(step, position) /\ UNCHANGED <<storeVars, tx>>
    /\ handler.step \in {"next", "call", "got"} /\ lastProcessed[Block] < Len(Events[Block])
    /\ step = "got" => position \in Positions
    /\ position # NoEntity => position = GetEntity(Block, Event.token)

LEMMA HandlerBusy ==
  ASSUME TypeInv, handler.step # "idle"
  PROVE  /\ Block \in Rows /\ Block \in Blocks
         /\ handler.step \notin {"idle", "next"} => lastProcessed[Block] < Len(Events[Block])
         /\ handler.step \notin {"created", "saved"} => tx = NoWrites
         /\ handler.step \in {"created", "got", "saved"} => handler.position \in Positions
  BY DEF TypeInv, HandlerTyped, Rows

LEMMA CreatePositionCases ==
  ASSUME TypeInv, CreatePosition
  PROVE  Saves \/ Throw \/ Reads
<1>1. handler.step = "call"
  BY DEF CreatePosition
<1>2. Block \in Blocks /\ Event.token \in Tokens /\ Event.token \in Ids
  BY <1>1, EventType DEF TypeInv
<1>3. PICK pool : pool = PoolAt[Block][Event.token]
  OBVIOUS
<1>4. PICK position : position = NewPosition(pool, Block)
  OBVIOUS
<1>5. position \in Positions /\ ~position.isPruned
  BY <1>2, <1>3, <1>4, NewPositionType
<1>6. \/ GoOn("update", NoEntity) /\ UNCHANGED <<storeVars, tx>>
      \/ Save([id \in {Event.token} |-> position], "created", position) /\ UNCHANGED spent
      \/ Throw
  BY <1>3, <1>4 DEF CreatePosition, CallPositions
<1>7. CASE GoOn("update", NoEntity) /\ UNCHANGED <<storeVars, tx>>
  BY <1>1, <1>7, HandlerBusy DEF Reads
<1>8. CASE Save([id \in {Event.token} |-> position], "created", position) /\ UNCHANGED spent
  <2>1. PICK writes : writes = [id \in {Event.token} |-> position]
    OBVIOUS
  <2>2. IsEntities(writes) /\ \A id \in DOMAIN writes : writes[id] = position
    BY <1>2, <1>5, <2>1 DEF IsEntities
  <2>3. Save(writes, "created", position)
    BY <1>8, <2>1
  <2>4. QED BY <1>1, <1>5, <1>8, <2>2, <2>3 DEF Saves
<1>9. QED BY <1>6, <1>7, <1>8

LEMMA SavePositionSaves ==
  ASSUME TypeInv, handler.step = "got", NEW refreshed \in Positions,
         refreshed.isPruned = handler.position.isPruned,
         SavePosition(refreshed), spent' \in {spent, spent + 1}
  PROVE  Saves
<1>1. /\ Block \in Blocks /\ Event.token \in Ids /\ SnapshotId(Event.token, Number[Block]) \in Ids
      /\ Event.name \in {"IncreaseLiquidity", "DecreaseLiquidity", "Collect", "Transfer"}
      /\ Event.amount \in Nat /\ Event.to \in Addresses
  BY EventType DEF TypeInv
<1>2. handler.position \in Positions
  BY HandlerBusy
<1>3. PICK position : position = Changed(refreshed, Event, Block)
  OBVIOUS
<1>4. position \in Positions /\ position.isPruned = handler.position.isPruned
  <2>1. position \in Positions /\ position.isPruned = refreshed.isPruned
    BY <1>1, <1>3, ChangedType
  <2>2. QED BY <2>1, Zenon
<1>5. PICK snapshot : snapshot = NewSnapshot(position)
  OBVIOUS
<1>6. snapshot \in Positions /\ snapshot.isPruned = FALSE
  <2>1. \A x \in BOOLEAN : /\ [position EXCEPT !.isPruned = x] \in Positions
                           /\ [position EXCEPT !.isPruned = x].isPruned = x
    BY <1>4 DEF Positions
  <2>2. snapshot = [position EXCEPT !.isPruned = FALSE] /\ FALSE \in BOOLEAN
    BY <1>5 DEF NewSnapshot
  <2>3. QED BY ONLY <2>1, <2>2, Zenon
<1>7. PICK s \in Ids : s = SnapshotId(Event.token, Number[Block])
  BY <1>1
<1>8. PICK t \in Ids : t = Event.token
  BY <1>1
<1>9. PICK writes : writes = [id \in {t, s} |-> IF id = s THEN snapshot ELSE position]
  OBVIOUS
<1>10. Save(writes, "saved", handler.position)
  BY <1>3, <1>5, <1>7, <1>8, <1>9 DEF SavePosition
<1>11. IsEntities(writes)
  BY <1>4, <1>6, <1>9 DEF IsEntities
<1>12. \A id \in DOMAIN writes : writes[id] = snapshot \/ writes[id] = position
  BY <1>9
<1>13. \A id \in DOMAIN writes : writes[id].isPruned => handler.position.isPruned
  BY <1>4, <1>6, <1>12, Zenon
<1>14. QED BY <1>2, <1>10, <1>11, <1>13 DEF Saves

LEMMA HandleCases ==
  ASSUME TypeInv, Handle
  PROVE  \/ Saves \/ Commits \/ Reads
         \/ Throw /\ Block \in Rows
         \/ UpdateProgress \/ CompleteBlock
<1>1. CASE GetPosition
  <2>1. handler.step = "next" /\ lastProcessed[Block] < Len(Events[Block]) /\ UNCHANGED <<storeVars, tx>>
    BY <1>1 DEF GetPosition
  <2>2. Block \in Blocks
    BY <2>1, HandlerBusy
  <2>3. PICK position : position = GetEntity(Block, Event.token)
    OBVIOUS
  <2>4. position \in Positions \cup {NoEntity}
    BY <2>2, <2>3, GetEntityType DEF TypeInv
  <2>5. GoOn(IF position = NoEntity THEN "call" ELSE "got", position)
    BY <1>1, <2>3 DEF GetPosition
  <2>6. CASE position = NoEntity
    <3>1. GoOn("call", NoEntity)
      BY <2>5, <2>6
    <3>2. QED BY <2>1, <3>1 DEF Reads
  <2>7. CASE position # NoEntity
    <3>1. GoOn("got", position) /\ position \in Positions
      BY <2>4, <2>5, <2>7
    <3>2. QED BY <2>1, <2>3, <3>1 DEF Reads
  <2>8. QED BY <2>6, <2>7
<1>2. CASE CreatePosition
  <2>1. Block \in Rows
    BY <1>2, HandlerBusy DEF CreatePosition
  <2>2. QED BY <1>2, <2>1, CreatePositionCases
<1>3. CASE CommitNewPosition
  <2>1. handler.step = "created"
    BY <1>3 DEF CommitNewPosition
  <2>2. Block \in Rows
    BY <2>1, HandlerBusy
  <2>3. QED BY <1>3, <2>1, <2>2 DEF CommitNewPosition, Commits
<1>4. CASE SkipEvent
  <2>1. handler.step = "got" /\ GoOn("update", NoEntity) /\ UNCHANGED <<storeVars, tx>>
    BY <1>4 DEF SkipEvent
  <2>2. QED BY <2>1, HandlerBusy DEF Reads
<1>5. CASE HandleTransfer
  <2>1. handler.step = "got" /\ SavePosition(handler.position) /\ spent' = spent
    BY <1>5 DEF HandleTransfer
  <2>2. handler.position \in Positions
    BY <2>1, HandlerBusy
  <2>3. QED BY <2>1, <2>2, SavePositionSaves
<1>6. CASE HandleLiquidity
  <2>1. handler.step = "got"
    BY <1>6 DEF HandleLiquidity
  <2>2. handler.position \in Positions /\ Block \in Blocks
    BY <2>1, HandlerBusy
  <2>3. PICK updated : updated = UpdatedFeeVars(handler.position, Block, Event.token)
    OBVIOUS
  <2>4. updated \in Positions /\ updated.isPruned = handler.position.isPruned
    BY <2>2, <2>3, UpdatedFeeVarsType
  <2>5. \/ SavePosition(updated) /\ spent' = spent
        \/ SavePosition(handler.position) /\ spent' = spent + 1
    BY <1>6, <2>3 DEF HandleLiquidity, Incident
  <2>6. QED BY <2>1, <2>2, <2>4, <2>5, SavePositionSaves
<1>7. CASE CommitPosition
  <2>1. handler.step = "saved"
    BY <1>7 DEF CommitPosition
  <2>2. Block \in Rows
    BY <2>1, HandlerBusy
  <2>3. QED BY <1>7, <2>1, <2>2 DEF CommitPosition, Commits
<1>8. QED BY <1>1, <1>2, <1>3, <1>4, <1>5, <1>6, <1>7 DEF Handle

LEMMA ReadsTyped ==
  ASSUME TypeInv, Reads
  PROVE  TypeInv'
<1>1. PICK step \in {"call", "got", "update"}, position \in Positions \cup {NoEntity} :
        /\ GoOn(step, position) /\ UNCHANGED <<storeVars, tx>>
        /\ handler.step \in {"next", "call", "got"} /\ lastProcessed[Block] < Len(Events[Block])
        /\ step = "got" => position \in Positions
  BY DEF Reads
<1>2. Block \in Rows /\ tx = NoWrites
  BY <1>1, HandlerBusy
<1>3. UNCHANGED <<progress, prunedBlocks, latestIndexed, latestCanonical, table, frothy,
                  frothyBlocks, latestPruned, pruner, spent, late>>
  BY <1>1 DEF storeVars
<1>4. Rows' = Rows
  BY <1>3, SameRows
<1>5. StoreTyped'
  BY ONLY <1>3, <1>4, TypeInv DEF TypeInv, StoreTyped
<1>6. tx' = NoWrites /\ IsEntities(tx') /\ lastProcessed' = lastProcessed
  BY <1>1, <1>2, NoEntitiesTyped DEF NoEntities, NoWrites, GoOn
<1>7. HandlerTyped'
  BY <1>1, <1>2, <1>4, <1>6, GoOnHandlerTyped DEF Steps
<1>8. QED BY <1>3, <1>5, <1>6, <1>7, SameParentsReady DEF TypeInv

LEMMA SavesTyped ==
  ASSUME TypeInv, Saves
  PROVE  TypeInv'
<1>1. PICK writes : \E step \in {"created", "saved"} : \E position \in Positions :
        /\ Save(writes, step, position) /\ IsEntities(writes)
        /\ spent' \in {spent, spent + 1} /\ handler.step \in {"call", "got"}
  BY DEF Saves
<1>2. spent' \in Nat
  BY <1>1 DEF TypeInv, StoreTyped
<1>3. PICK step \in {"created", "saved"}, position \in Positions : Save(writes, step, position)
  BY <1>1
<1>4. IsEntities(writes) /\ handler.step \notin {"idle", "next"}
  BY <1>1
<1>5. QED BY <1>2, <1>3, <1>4, SaveTyped

LEMMA TakeEventsJobTyped ==
  ASSUME TypeInv, NEW b \in Blocks, TakeEventsJob(b)
  PROVE  /\ TypeInv' /\ tx = NoWrites /\ b \in Rows
         /\ handler'.block = b /\ handler'.step = "next" /\ handler'.position = NoEntity
         /\ handler'.wasPruned => b \in prunedBlocks
<1>1. /\ handler.step = "idle" /\ b \in eventQueue /\ eventQueue' = eventQueue \ {b}
      /\ handler' = [IdleHandler EXCEPT !.step = "next", !.block = b, !.wasPruned = b \in prunedBlocks]
      /\ UNCHANGED <<progress, prunedBlocks, latestIndexed, latestCanonical, table, frothy,
                     frothyBlocks, latestPruned, pruner, spent, late, lastProcessed, tx>>
  BY DEF TakeEventsJob, storeVars
<1>2. tx = NoWrites /\ b \in Rows
  BY <1>1 DEF TypeInv, HandlerTyped
<1>3. Rows' = Rows
  BY <1>1, SameRows
<1>4. handler' = [step |-> "next", block |-> b, wasPruned |-> b \in prunedBlocks, position |-> NoEntity]
  BY <1>1 DEF IdleHandler
<1>5. /\ handler' \in [step : Steps, block : Rows' \cup {NoBlock}, wasPruned : BOOLEAN,
                       position : Positions \cup {NoEntity}]
      /\ handler'.block = b /\ handler'.step = "next" /\ handler'.position = NoEntity
  <2>1. \A x \in BOOLEAN :
          LET h == [step |-> "next", block |-> b, wasPruned |-> x, position |-> NoEntity] IN
          /\ h \in [step : Steps, block : Rows' \cup {NoBlock}, wasPruned : BOOLEAN,
                    position : Positions \cup {NoEntity}]
          /\ h.block = b /\ h.step = "next" /\ h.position = NoEntity
    BY <1>2, <1>3 DEF Steps
  <2>2. (b \in prunedBlocks) \in BOOLEAN
    OBVIOUS
  <2>3. QED BY ONLY <2>1, <2>2, <1>4, Zenon
<1>6. handler'.wasPruned => b \in prunedBlocks
  BY <1>4
<1>7. StoreTyped'
  BY ONLY <1>1, <1>3, TypeInv DEF TypeInv, StoreTyped
<1>8. HandlerTyped'
  <2>1. IsEntities(tx') /\ tx' = NoWrites
    BY <1>1, <1>2, NoEntitiesTyped DEF NoEntities, NoWrites
  <2>2. /\ lastProcessed' \in [Blocks -> Nat] /\ eventQueue' \subseteq Rows'
        /\ \A c \in Blocks : lastProcessed'[c] <= Len(Events[c])
        /\ \A c \in Blocks \ Rows' : lastProcessed'[c] = 0
    BY <1>1, <1>3 DEF TypeInv, HandlerTyped
  <2>3. QED BY ONLY <1>2, <1>3, <1>5, <2>1, <2>2 DEF HandlerTyped, Block, Steps
<1>9. QED BY <1>1, <1>2, <1>5, <1>6, <1>7, <1>8, SameParentsReady DEF TypeInv

LEMMA CompleteBlockTyped ==
  ASSUME TypeInv, CompleteBlock
  PROVE  TypeInv'
<1>1. /\ handler.step = "next" /\ lastProcessed[Block] = Len(Events[Block])
      /\ progress' = [progress EXCEPT ![Block] = "complete"]
      /\ prunedBlocks' \in {prunedBlocks \cup {Block}, prunedBlocks \ {Block}}
      /\ late' = (late \/ Dead(Block)) /\ handler' = IdleHandler
      /\ UNCHANGED <<latestIndexed, latestCanonical, table, frothy, frothyBlocks, latestPruned, pruner,
                     spent, lastProcessed, eventQueue, tx>>
  BY DEF CompleteBlock, WriteRow, cacheVars
<1>2. Block \in Rows /\ Block \in Blocks /\ tx = NoWrites
  BY <1>1, HandlerBusy
<1>3. progress \in [Blocks -> {"absent", "incomplete", "complete"}]
  BY DEF TypeInv, StoreTyped
<1>4. /\ progress' \in [Blocks -> {"absent", "incomplete", "complete"}]
      /\ \A b \in Blocks : progress'[b] = IF b = Block THEN "complete" ELSE progress[b]
  BY <1>1, <1>2, <1>3
<1>5. Rows' = Rows
  BY <1>2, <1>4 DEF Rows
<1>6. StoreTyped'
  <2>1. StoreTyped
    BY DEF TypeInv
  <2>2. late' \in BOOLEAN /\ prunedBlocks' \subseteq Rows
    BY <1>1, <1>2, <2>1 DEF StoreTyped
  <2>3. UNCHANGED <<latestIndexed, latestCanonical, table, frothy, frothyBlocks, latestPruned, pruner,
                    spent>>
    BY <1>1
  <2>4. progress' \in [Blocks -> {"absent", "incomplete", "complete"}]
    BY <1>4
  <2>5. QED BY ONLY <1>5, <2>1, <2>2, <2>3, <2>4 DEF StoreTyped
<1>7. HandlerTyped'
  <2>1. eventQueue' \subseteq Rows
    BY <1>1 DEF TypeInv, HandlerTyped
  <2>2. QED BY <1>1, <1>2, <1>5, <2>1, IdleHandlerTyped
<1>8. ParentsReady'
  <2>1. progress'[StartBlock] = "complete"
    BY <1>4, BlockAssumption DEF TypeInv, ParentsReady
  <2>2. ASSUME NEW b \in Rows' \ {StartBlock} PROVE progress'[Parent[b]] = "complete"
    <3>1. b \in Blocks /\ progress[Parent[b]] = "complete"
      BY <1>5, <2>2 DEF TypeInv, ParentsReady, Rows
    <3>2. Parent[b] \in Blocks
      BY <2>2, <3>1, ParentBelow
    <3>3. QED BY <1>4, <3>1, <3>2
  <2>3. ASSUME NEW b \in Blocks, progress'[b] = "complete" PROVE lastProcessed'[b] = Len(Events[b])
    BY <1>1, <1>4, <2>3 DEF TypeInv, ParentsReady
  <2>4. QED BY <2>1, <2>2, <2>3 DEF ParentsReady
<1>9. QED BY <1>6, <1>7, <1>8 DEF TypeInv

LEMMA UpdateProgressCases ==
  ASSUME TypeInv, UpdateProgress
  PROVE  /\ handler.step = "update" /\ Block \in Rows /\ Block \in Blocks /\ tx = NoWrites
         /\ lastProcessed[Block] < Len(Events[Block])
         /\ UNCHANGED <<progress, latestIndexed, latestCanonical, table, frothy, frothyBlocks,
                        latestPruned, pruner, tx>>
         /\ \/ /\ lastProcessed' = [lastProcessed EXCEPT ![Block] = @ + 1]
               /\ WriteRow(Block, handler.wasPruned)
               /\ handler' = [handler EXCEPT !.step = "next", !.position = NoEntity]
               /\ UNCHANGED <<spent, eventQueue>>
            \/ /\ spent' = spent + 1 /\ handler' = IdleHandler
               /\ eventQueue' = eventQueue \cup {Block} /\ UNCHANGED <<prunedBlocks, late, lastProcessed>>
<1>1. handler.step = "update"
  BY DEF UpdateProgress
<1>2. Block \in Rows /\ Block \in Blocks /\ tx = NoWrites /\ lastProcessed[Block] < Len(Events[Block])
  BY <1>1, HandlerBusy
<1>3. UNCHANGED <<progress, latestIndexed, latestCanonical, table, frothy, frothyBlocks,
                  latestPruned, pruner, tx>>
  BY DEF UpdateProgress, cacheVars
<1>4. \/ /\ lastProcessed' = [lastProcessed EXCEPT ![Block] = @ + 1]
         /\ WriteRow(Block, handler.wasPruned)
         /\ handler' = [handler EXCEPT !.step = "next", !.position = NoEntity]
         /\ UNCHANGED <<spent, eventQueue>>
      \/ /\ spent' = spent + 1 /\ handler' = IdleHandler
         /\ eventQueue' = eventQueue \cup {Block} /\ UNCHANGED <<prunedBlocks, late, lastProcessed>>
  BY DEF UpdateProgress, Incident, Retry
<1>5. QED BY <1>1, <1>2, <1>3, <1>4

LEMMA UpdateProgressTyped ==
  ASSUME TypeInv, UpdateProgress
  PROVE  TypeInv'
<1>1. /\ handler.step = "update" /\ Block \in Rows /\ Block \in Blocks /\ tx = NoWrites
      /\ lastProcessed[Block] < Len(Events[Block])
      /\ UNCHANGED <<progress, latestIndexed, latestCanonical, table, frothy, frothyBlocks,
                     latestPruned, pruner, tx>>
  BY UpdateProgressCases
<1>2. Rows' = Rows
  BY <1>1, SameRows
<1>3. StoreTyped /\ HandlerTyped /\ ParentsReady
  BY DEF TypeInv
<1>4. CASE /\ lastProcessed' = [lastProcessed EXCEPT ![Block] = @ + 1]
           /\ WriteRow(Block, handler.wasPruned)
           /\ handler' = [handler EXCEPT !.step = "next", !.position = NoEntity]
           /\ UNCHANGED <<spent, eventQueue>>
  <2>1. late' \in BOOLEAN /\ prunedBlocks' \subseteq Rows
    BY <1>1, <1>3, <1>4 DEF StoreTyped, WriteRow
  <2>2. StoreTyped'
    <3>1. UNCHANGED <<progress, latestIndexed, latestCanonical, table, frothy, frothyBlocks,
                      latestPruned, pruner, spent>>
      BY <1>1, <1>4
    <3>2. QED BY ONLY <1>2, <1>3, <2>1, <3>1 DEF StoreTyped
  <2>3. lastProcessed \in [Blocks -> Nat] /\ handler \in Handlers /\ Len(Events[Block]) \in Nat
    BY <1>1, <1>3, EventsAssumption DEF HandlerTyped, Handlers, Steps
  <2>4. /\ lastProcessed' \in [Blocks -> Nat]
        /\ \A b \in Blocks : lastProcessed'[b] = IF b = Block THEN lastProcessed[b] + 1 ELSE lastProcessed[b]
    BY <1>1, <1>4, <2>3
  <2>5. /\ handler' \in [step : Steps, block : Rows' \cup {NoBlock}, wasPruned : BOOLEAN,
                         position : Positions \cup {NoEntity}]
        /\ handler'.step = "next" /\ handler'.block = Block /\ handler'.position = NoEntity
    BY <1>2, <1>4, <2>3 DEF Handlers, Steps, Block
  <2>6. /\ \A b \in Blocks : lastProcessed'[b] <= Len(Events[b])
        /\ \A b \in Blocks \ Rows' : lastProcessed'[b] = 0
    <3>1. \A b \in Blocks : lastProcessed[b] \in Nat /\ Len(Events[b]) \in Nat
      BY <2>3, EventsAssumption
    <3>2. QED BY <1>1, <1>2, <1>3, <2>4, <3>1 DEF HandlerTyped
  <2>7. HandlerTyped'
    <3>1. IsEntities(tx') /\ tx' = NoWrites /\ eventQueue' \subseteq Rows'
      BY <1>1, <1>2, <1>3, <1>4 DEF HandlerTyped
    <3>2. QED BY ONLY <1>1, <1>2, <2>4, <2>5, <2>6, <3>1 DEF HandlerTyped, Block, Steps
  <2>8. ParentsReady'
    <3>1. ASSUME NEW b \in Blocks, progress'[b] = "complete" PROVE lastProcessed'[b] = Len(Events[b])
      <4>1. progress[b] = "complete" /\ lastProcessed[b] = Len(Events[b])
        BY <1>1, <1>3, <3>1 DEF ParentsReady
      <4>2. b # Block
        BY <1>1, <2>3, <4>1
      <4>3. QED BY <2>4, <4>1, <4>2
    <3>2. QED BY <1>1, <1>2, <1>3, <3>1 DEF ParentsReady
  <2>9. QED BY <2>2, <2>7, <2>8 DEF TypeInv
<1>5. CASE /\ spent' = spent + 1 /\ handler' = IdleHandler
           /\ eventQueue' = eventQueue \cup {Block} /\ UNCHANGED <<prunedBlocks, late, lastProcessed>>
  <2>1. StoreTyped'
    <3>1. spent' \in Nat
      BY <1>3, <1>5 DEF StoreTyped
    <3>2. UNCHANGED <<progress, prunedBlocks, latestIndexed, latestCanonical, table, frothy,
                      frothyBlocks, latestPruned, pruner, late>>
      BY <1>1, <1>5
    <3>3. QED BY ONLY <1>2, <1>3, <3>1, <3>2 DEF StoreTyped
  <2>2. eventQueue' \subseteq Rows
    BY <1>1, <1>3, <1>5 DEF HandlerTyped
  <2>3. HandlerTyped'
    BY <1>1, <1>2, <1>5, <2>2, IdleHandlerTyped
  <2>4. QED BY <1>1, <1>3, <1>5, <2>1, <2>3, SameParentsReady DEF TypeInv
<1>6. QED BY <1>4, <1>5, UpdateProgressCases

LEMMA RestartCases ==
  ASSUME TypeInv, Restart
  PROVE  \E n \in Nat :
           /\ latestIndexed' = n
           /\ progress' = [b \in Blocks |-> IF Number[b] <= n THEN progress[b] ELSE "absent"]
           /\ \A b : b \in Rows' <=> b \in Rows /\ Number[b] <= n
           /\ prunedBlocks' = {b \in prunedBlocks : Number[b] <= n}
           /\ table' = [k \in {l \in DOMAIN table : Number[l.block] <= n} |-> table[k]]
           /\ frothy' = {f \in frothy : Number[f.block] <= n}
           /\ \E b \in UnprunedAt(n) :
                /\ progress[b] = "complete"
                /\ latestCanonical' = IF CanonicalNumber > n THEN b ELSE latestCanonical
                /\ late' = (late \/ (CanonicalNumber > n /\ Dead(b)))
           /\ frothyBlocks' = <<>> /\ latestPruned' = NoEntities /\ pruner' = IdlePruner
           /\ spent' = spent + 1
           /\ lastProcessed' = [b \in Blocks |-> IF Number[b] <= n THEN lastProcessed[b] ELSE 0]
           /\ eventQueue' = {} /\ handler' = IdleHandler /\ tx' = NoWrites
<1>1. PICK b \in UnprunedAt(ResetHeight) :
        /\ latestCanonical' = IF CanonicalNumber > ResetHeight THEN b ELSE latestCanonical
        /\ late' = (late \/ (CanonicalNumber > ResetHeight /\ Dead(b)))
  BY DEF Restart, ResetStore
<1>2. PICK n : n = ResetHeight
  OBVIOUS
<1>3. b \in Blocks /\ Number[b] = n /\ progress[b] = "complete"
  BY <1>1, <1>2 DEF UnprunedAt, Restart, ResetStore, Rows
<1>4. n \in Nat
  BY <1>3, BlockAssumption
<1>5. /\ latestIndexed' = n
      /\ progress' = [c \in Blocks |-> IF Number[c] <= n THEN progress[c] ELSE "absent"]
      /\ prunedBlocks' = {c \in prunedBlocks : Number[c] <= n}
      /\ table' = [k \in {l \in DOMAIN table : Number[l.block] <= n} |-> table[k]]
      /\ frothy' = {f \in frothy : Number[f.block] <= n}
  BY <1>2 DEF Restart, ResetStore, ResetFrothyEntities
<1>6. /\ frothyBlocks' = <<>> /\ latestPruned' = NoEntities /\ pruner' = IdlePruner
      /\ spent' = spent + 1
      /\ lastProcessed' = [c \in Blocks |-> IF Number[c] <= n THEN lastProcessed[c] ELSE 0]
      /\ eventQueue' = {} /\ handler' = IdleHandler /\ tx' = NoWrites
  BY <1>2 DEF Restart, ResetStore, Incident
<1>7. \A c : c \in Rows' <=> c \in Rows /\ Number[c] <= n
  BY <1>5 DEF Rows
<1>8. /\ b \in UnprunedAt(n) /\ latestCanonical' = IF CanonicalNumber > n THEN b ELSE latestCanonical
      /\ late' = (late \/ (CanonicalNumber > n /\ Dead(b)))
  BY <1>1, <1>2
<1>9. QED BY <1>3, <1>4, <1>5, <1>6, <1>7, <1>8

LEMMA RestartTyped ==
  ASSUME TypeInv, Restart
  PROVE  TypeInv'
<1>1. PICK n \in Nat :
           /\ latestIndexed' = n
           /\ progress' = [b \in Blocks |-> IF Number[b] <= n THEN progress[b] ELSE "absent"]
           /\ \A b : b \in Rows' <=> b \in Rows /\ Number[b] <= n
           /\ prunedBlocks' = {b \in prunedBlocks : Number[b] <= n}
           /\ table' = [k \in {l \in DOMAIN table : Number[l.block] <= n} |-> table[k]]
           /\ frothy' = {f \in frothy : Number[f.block] <= n}
           /\ \E b \in UnprunedAt(n) :
                /\ progress[b] = "complete"
                /\ latestCanonical' = IF CanonicalNumber > n THEN b ELSE latestCanonical
                /\ late' = (late \/ (CanonicalNumber > n /\ Dead(b)))
           /\ frothyBlocks' = <<>> /\ latestPruned' = NoEntities /\ pruner' = IdlePruner
           /\ spent' = spent + 1
           /\ lastProcessed' = [b \in Blocks |-> IF Number[b] <= n THEN lastProcessed[b] ELSE 0]
           /\ eventQueue' = {} /\ handler' = IdleHandler /\ tx' = NoWrites
  BY RestartCases
<1>2. StoreTyped /\ HandlerTyped /\ ParentsReady
  BY DEF TypeInv
<1>3. progress' \in [Blocks -> {"absent", "incomplete", "complete"}]
  BY <1>1, <1>2 DEF StoreTyped
<1>4. latestCanonical' \in Rows' /\ prunedBlocks' \subseteq Rows'
  <2>1. latestCanonical \in Rows /\ Number[latestCanonical] \in Nat /\ prunedBlocks \subseteq Rows
    BY <1>2, BlockAssumption DEF StoreTyped, Rows
  <2>2. PICK b \in UnprunedAt(n) : latestCanonical' = IF CanonicalNumber > n THEN b ELSE latestCanonical
    BY <1>1
  <2>3. b \in Rows /\ Number[b] = n
    BY DEF UnprunedAt
  <2>4. QED BY <1>1, <2>1, <2>2, <2>3 DEF CanonicalNumber
<1>5. /\ DOMAIN table' = {l \in DOMAIN table : Number[l.block] <= n}
      /\ \A k \in DOMAIN table' : table'[k] = table[k]
      /\ table' \in [DOMAIN table' -> Positions]
  BY <1>1, <1>2 DEF StoreTyped
<1>6. DOMAIN table' \subseteq [id : Ids, block : Rows'] /\ frothy' \subseteq DOMAIN table'
  BY <1>1, <1>2, <1>5 DEF StoreTyped
<1>7. StoreTyped'
  <2>1. DOMAIN frothyBlocks' = {} /\ frothyBlocks' = [c \in DOMAIN frothyBlocks' |-> frothyBlocks'[c]]
    BY <1>1
  <2>2. IsEntities(latestPruned')
    BY <1>1, NoEntitiesTyped
  <2>3. /\ pruner' \in [step : {"idle", "status", "cache", "frothy"}, block : Rows' \cup {NoBlock}]
        /\ pruner'.step = "idle"
    BY <1>1 DEF IdlePruner
  <2>4. latestIndexed' \in Nat /\ spent' \in Nat /\ late' \in BOOLEAN
    BY <1>1, <1>2 DEF StoreTyped
  <2>5. QED BY ONLY <1>3, <1>4, <1>5, <1>6, <2>1, <2>2, <2>3, <2>4 DEF StoreTyped
<1>8. HandlerTyped'
  <2>1. IsEntities(tx') /\ tx' = NoWrites /\ eventQueue' = {}
    BY <1>1, NoEntitiesTyped DEF NoEntities, NoWrites
  <2>2. /\ handler' \in [step : Steps, block : Rows' \cup {NoBlock}, wasPruned : BOOLEAN,
                         position : Positions \cup {NoEntity}]
        /\ handler'.step = "idle"
    BY <1>1 DEF IdleHandler, Steps
  <2>3. /\ lastProcessed' \in [Blocks -> Nat]
        /\ \A b \in Blocks : lastProcessed'[b] <= Len(Events[b])
    BY <1>1, <1>2, EventsAssumption DEF HandlerTyped
  <2>4. \A b \in Blocks \ Rows' : lastProcessed'[b] = 0
    BY <1>1, <1>2 DEF HandlerTyped
  <2>5. QED BY ONLY <2>1, <2>2, <2>3, <2>4 DEF HandlerTyped, Block, Steps
<1>9. ParentsReady'
  <2>1. \A b \in Blocks : progress'[b] = IF Number[b] <= n THEN progress[b] ELSE "absent"
    BY <1>1
  <2>2. progress'[StartBlock] = "complete"
    BY <1>2, <2>1, BlockAssumption DEF ParentsReady
  <2>3. ASSUME NEW b \in Rows' \ {StartBlock} PROVE progress'[Parent[b]] = "complete"
    <3>1. b \in Rows \ {StartBlock} /\ b \in Blocks /\ Number[b] <= n
      BY <1>1, <2>3 DEF Rows
    <3>2. Parent[b] \in Blocks /\ Number[b] = Number[Parent[b]] + 1 /\ Number[Parent[b]] \in Nat
      BY <3>1, ParentBelow
    <3>3. progress[Parent[b]] = "complete"
      BY <1>2, <3>1 DEF ParentsReady
    <3>4. QED BY <2>1, <3>1, <3>2, <3>3
  <2>4. ASSUME NEW b \in Blocks, progress'[b] = "complete" PROVE lastProcessed'[b] = Len(Events[b])
    BY <1>1, <1>2, <2>1, <2>4 DEF ParentsReady
  <2>5. QED BY <2>2, <2>3, <2>4 DEF ParentsReady
<1>10. QED BY <1>7, <1>8, <1>9 DEF TypeInv

LEMMA StutterTyped ==
  ASSUME TypeInv, UNCHANGED vars
  PROVE  TypeInv'
<1>1. UNCHANGED <<progress, prunedBlocks, latestIndexed, latestCanonical, table, frothy, frothyBlocks,
                  latestPruned, pruner, spent, late, lastProcessed, eventQueue, handler, tx>>
  BY DEF vars, storeVars, handlerVars
<1>2. Rows' = Rows
  BY <1>1, SameRows
<1>3. StoreTyped'
  BY ONLY <1>1, <1>2, TypeInv DEF TypeInv, StoreTyped
<1>4. HandlerTyped'
  BY ONLY <1>1, <1>2, TypeInv DEF TypeInv, HandlerTyped, Block
<1>5. QED BY <1>1, <1>3, <1>4, SameParentsReady DEF TypeInv

LEMMA StepTyped ==
  ASSUME TypeInv, [Next]_vars
  PROVE  TypeInv'
<1>1. ASSUME NEW b \in Blocks, IndexBlock(b) PROVE TypeInv'
  BY <1>1, IndexBlockTyped
<1>2. ASSUME NEW b \in Blocks, IndexBlockAgain(b) PROVE TypeInv'
  BY <1>2, IndexBlockAgainTyped
<1>3. ASSUME NEW b \in Blocks, TakeEventsJob(b) PROVE TypeInv'
  BY <1>3, TakeEventsJobTyped
<1>4. ASSUME NEW b \in Blocks, OnIndexComplete(b), UNCHANGED handlerVars PROVE TypeInv'
  BY <1>4, OnIndexCompleteTyped
<1>5. CASE Prune
  BY <1>5, PruneTyped
<1>6. CASE Handle
  <2>1. CASE Saves
    BY <2>1, SavesTyped
  <2>2. CASE Commits
    BY <2>2, CommitTyped DEF Commits
  <2>3. CASE Reads
    BY <2>3, ReadsTyped
  <2>4. CASE Throw /\ Block \in Rows
    BY <2>4, ThrowTyped
  <2>5. CASE UpdateProgress
    BY <2>5, UpdateProgressTyped
  <2>6. CASE CompleteBlock
    BY <2>6, CompleteBlockTyped
  <2>7. QED BY <1>6, <2>1, <2>2, <2>3, <2>4, <2>5, <2>6, HandleCases
<1>7. CASE Restart
  BY <1>7, RestartTyped
<1>8. CASE UNCHANGED vars
  BY <1>8, StutterTyped
<1>9. QED BY <1>1, <1>2, <1>3, <1>4, <1>5, <1>6, <1>7, <1>8 DEF Next

LEMMA TypeInvType == TypeInv => TypeOK
<1> SUFFICES ASSUME TypeInv PROVE TypeOK
  OBVIOUS
<1>1. StoreTyped /\ HandlerTyped
  BY DEF TypeInv
<1>2. \A e : IsEntities(e) => Range(e) \subseteq Positions
  BY DEF IsEntities, Range
<1>3. Range(latestPruned) \subseteq Positions
  BY <1>1, <1>2 DEF StoreTyped
<1>4. \A b \in DOMAIN frothyBlocks : Range(frothyBlocks[b]) \subseteq Positions
  BY <1>1, <1>2 DEF StoreTyped
<1>5. \A k \in DOMAIN table : k \in [id : Ids, block : Rows] /\ table[k] \in Positions
  BY <1>1 DEF StoreTyped
<1>6. \A b \in Blocks : lastProcessed[b] \in 0 .. Len(Events[b])
  BY <1>1, EventsAssumption DEF HandlerTyped
<1>7. pruner.step \in {"idle", "status", "cache", "frothy"}
  BY <1>1 DEF StoreTyped
<1>8. /\ handler.step \in {"idle", "next", "call", "created", "got", "saved", "update"}
      /\ handler.block \in Rows \cup {NoBlock}
  BY <1>1 DEF HandlerTyped
<1>9. DOMAIN tx \subseteq Ids /\ eventQueue \subseteq Rows
  BY <1>1 DEF HandlerTyped, IsEntities
<1>10. /\ progress \in [Blocks -> {"absent", "incomplete", "complete"}]
       /\ prunedBlocks \subseteq Rows /\ latestIndexed \in Nat /\ latestCanonical \in Rows
       /\ frothy \subseteq DOMAIN table /\ DOMAIN frothyBlocks \subseteq Rows /\ late \in BOOLEAN
  BY <1>1 DEF StoreTyped
<1>11. QED BY ONLY <1>3, <1>4, <1>5, <1>6, <1>7, <1>8, <1>9, <1>10 DEF TypeOK

\* Every version kept, cached, marked or about to be written is a position of a row, whatever
\* the interleaving of index jobs, prune jobs, event handlers, failures and restarts.
THEOREM TypesHold == Spec => []TypeOK
<1>1. Init => TypeInv
  BY InitTyped
<1>2. TypeInv /\ [Next]_vars => TypeInv'
  BY StepTyped
<1>3. TypeInv => TypeOK
  BY TypeInvType
<1>4. QED BY <1>1, <1>2, <1>3, PTL DEF Spec

-----------------------------------------------------------------------------
(* Pruning keeps to the trunk. *)

\* A row below another on its chain is complete.
LEMMA AncestorsComplete ==
  ASSUME TypeInv, NEW b \in Rows, NEW a \in Chain[b], a # b
  PROVE  a \in Rows /\ progress[a] = "complete"
<1> DEFINE Bad == {c \in Rows : a \in Chain[c] /\ a # c /\ progress[a] # "complete"}
<1>1. ASSUME Bad # {} PROVE FALSE
  <2>1. Bad \subseteq Blocks
    BY DEF Rows
  <2>2. PICK m \in Bad : \A c \in Bad : Number[m] <= Number[c]
    BY <1>1, <2>1, LowestBlock
  <2>3. m \in Blocks
    BY <2>1, <2>2
  <2>4. m # StartBlock /\ a \in Chain[Parent[m]]
    BY <2>2, <2>3, ChainBelow
  <2>5. Parent[m] \in Blocks /\ Number[m] = Number[Parent[m]] + 1 /\ Number[Parent[m]] \in Nat
    BY <2>3, <2>4, ParentBelow
  <2>6. progress[Parent[m]] = "complete" /\ Parent[m] \in Rows
    BY <2>2, <2>4, <2>5 DEF TypeInv, ParentsReady, Rows
  <2>7. a # Parent[m]
    BY <2>2, <2>6
  <2>8. Parent[m] \in Bad
    BY <2>2, <2>4, <2>6, <2>7
  <2>9. QED BY <2>2, <2>5, <2>8
<1>2. QED BY <1>1, AncestorsAreRows

LEMMA InitPrune == Init => PruneInv
<1> SUFFICES ASSUME Init PROVE PruneInv
  OBVIOUS
<1>1. StartBlock \in Blocks /\ Number[StartBlock] = 0
  BY BlockAssumption
<1>2. Rows = {StartBlock} /\ progress[StartBlock] = "complete"
  BY <1>1 DEF Init, InitStore, Rows
<1>3. pruner.step = "idle" /\ handler.wasPruned = FALSE /\ prunedBlocks = {}
      /\ latestIndexed = 0 /\ latestCanonical = StartBlock
  BY DEF Init, InitStore, IdlePruner, IdleHandler
<1>4. QED BY <1>1, <1>2, <1>3 DEF PruneInv

\* A step that prunes no block and neither takes rows away nor moves the pruner.
LEMMA SamePrune ==
  ASSUME PruneInv, UNCHANGED <<latestIndexed, latestCanonical, pruner>>,
         \A b \in Rows : b \in Rows' /\ (progress[b] = "complete" => progress'[b] = "complete"),
         latestCanonical \in Rows, pruner.step # "idle" => pruner.block \in Rows,
         prunedBlocks' \subseteq prunedBlocks,
         handler'.wasPruned => handler'.block \in prunedBlocks'
  PROVE  PruneInv'
<1>1. progress'[latestCanonical'] = "complete"
  BY DEF PruneInv
<1>2. \E b \in Rows' : Number[b] = latestIndexed'
  BY DEF PruneInv
<1>3. pruner'.step # "idle" =>
        progress'[pruner'.block] = "complete" /\ Trunk(pruner'.block) /\ pruner'.block # StartBlock
  BY DEF PruneInv
<1>4. pruner'.step = "status" => Number[pruner'.block] = Number[latestCanonical'] + 1
  BY DEF PruneInv, CanonicalNumber
<1>5. pruner'.step \in {"cache", "frothy"} => pruner'.block = latestCanonical'
  BY DEF PruneInv
<1>6. \A b \in prunedBlocks' : ~Trunk(b)
  BY DEF PruneInv
<1>7. QED BY ONLY <1>1, <1>2, <1>3, <1>4, <1>5, <1>6, handler'.wasPruned => handler'.block \in prunedBlocks'
      DEF PruneInv, CanonicalNumber, Block

\* What the prune job keeps at its height is complete and on the trunk.
LEMMA MarkedOnTrunk ==
  ASSUME TypeInv, PruneInv, NEW a \in Blocks, MarkBlocksAsPruned(a)
  PROVE  /\ a \in Rows /\ progress[a] = "complete" /\ Trunk(a) /\ a # StartBlock
         /\ Number[a] = CanonicalNumber + 1
         /\ \A b \in Rows : Number[b] = Number[a] => b = a \/ b \in prunedBlocks'
         /\ \A b \in prunedBlocks' : ~Trunk(b)
         /\ prunedBlocks \subseteq prunedBlocks'
<1>1. PICK h : h = CanonicalNumber + 1
  OBVIOUS
<1>2. /\ latestIndexed >= h + MaxReorgDepth /\ Number[a] = h
      /\ IF Cardinality(UnprunedAt(h)) = 1 THEN a \in UnprunedAt(h)
         ELSE \E b \in UnprunedAt(h + MaxReorgDepth) : a \in Chain[b]
      /\ prunedBlocks' = prunedBlocks \cup (UnprunedAt(h) \ {a})
  BY <1>1 DEF MarkBlocksAsPruned
<1>3. h \in Nat /\ MaxReorgDepth \in Nat \ {0} /\ CanonicalNumber \in Nat /\ latestIndexed \in Nat
  BY <1>1, RowsFacts, BlockAssumption DEF TypeInv, StoreTyped
<1>4. a \in Rows /\ progress[a] = "complete" /\ Trunk(a)
  <2>1. CASE Cardinality(UnprunedAt(h)) = 1
    <3>1. UnprunedAt(h) \subseteq Blocks
      BY DEF UnprunedAt, Rows
    <3>2. IsFiniteSet(UnprunedAt(h))
      BY <3>1, BlockAssumption, FS_Subset
    <3>3. PICK x : UnprunedAt(h) = {x}
      BY <3>2, <2>1, FS_Singleton
    <3>4. a = x
      BY <1>2, <2>1, <3>3
    <3>5. PICK r \in Rows : Number[r] = latestIndexed
      BY DEF PruneInv
    <3>6. r \in Blocks /\ h <= Number[r]
      BY <1>2, <1>3, <3>5 DEF Rows
    <3>7. PICK c \in Chain[r] : Number[c] = h
      BY <1>3, <3>6, ChainHasHeight
    <3>8. c # r
      BY <1>2, <1>3, <3>5, <3>7
    <3>9. c \in Rows /\ progress[c] = "complete"
      BY <3>8, AncestorsComplete
    <3>10. Trunk(c)
      BY <1>2, <1>3, <3>5, <3>6, <3>7 DEF Trunk
    <3>11. c \in UnprunedAt(h)
      BY <3>7, <3>9, <3>10 DEF UnprunedAt, PruneInv
    <3>12. QED BY <3>3, <3>4, <3>9, <3>10, <3>11
  <2>2. CASE Cardinality(UnprunedAt(h)) # 1
    <3>1. PICK b \in UnprunedAt(h + MaxReorgDepth) : a \in Chain[b]
      BY <1>2, <2>2
    <3>2. b \in Rows /\ b \in Blocks /\ Number[b] = h + MaxReorgDepth
      BY DEF UnprunedAt, Rows
    <3>3. a # b
      BY <1>2, <1>3, <3>2
    <3>4. Trunk(a)
      BY <1>2, <1>3, <3>1, <3>2 DEF Trunk
    <3>5. QED BY <3>1, <3>2, <3>3, <3>4, AncestorsComplete
  <2>3. QED BY <2>1, <2>2
<1>5. \A b \in Rows : Number[b] = Number[a] => b = a \/ b \in prunedBlocks'
  BY <1>2 DEF UnprunedAt
<1>6. ASSUME NEW b \in prunedBlocks', Trunk(b) PROVE FALSE
  <2>1. b \notin prunedBlocks
    BY <1>6 DEF PruneInv
  <2>2. b \in UnprunedAt(h) \ {a}
    BY <1>2, <2>1
  <2>3. b \in Blocks /\ Number[b] = Number[a] /\ b # a
    BY <1>2, <2>2 DEF UnprunedAt, Rows
  <2>4. QED BY <1>4, <1>6, <2>3, TrunkUnique
<1>7. a # StartBlock
  BY <1>1, <1>2, <1>3, BlockAssumption
<1>8. QED BY <1>1, <1>2, <1>4, <1>5, <1>6, <1>7

LEMMA PruneKeepsPrune ==
  ASSUME TypeInv, PruneInv, Prune
  PROVE  PruneInv'
<1>1. UNCHANGED <<progress, latestIndexed>> /\ handler' = handler
  BY DEF Prune, MarkBlocksAsPruned, UpdateCanonicalBlock, PruneCachedEntities, PruneFrothyEntities,
     handlerVars
<1>2. Rows' = Rows
  BY <1>1, SameRows
<1>3. latestCanonical \in Rows
  BY DEF TypeInv, StoreTyped
<1>4. /\ progress[latestCanonical] = "complete" /\ \E b \in Rows : Number[b] = latestIndexed
      /\ \A b \in prunedBlocks : ~Trunk(b)
      /\ handler.wasPruned => Block \in prunedBlocks
      /\ pruner.step # "idle" =>
           progress[pruner.block] = "complete" /\ Trunk(pruner.block) /\ pruner.block # StartBlock
      /\ pruner.step \in {"cache", "frothy"} => pruner.block = latestCanonical
  BY DEF PruneInv
<1>5. pruner \in [step : {"idle", "status", "cache", "frothy"}, block : Rows \cup {NoBlock}]
  BY DEF TypeInv, StoreTyped
<1>6. ASSUME NEW a \in Blocks, MarkBlocksAsPruned(a) PROVE PruneInv'
  <2>1. /\ progress[a] = "complete" /\ Trunk(a) /\ Number[a] = CanonicalNumber + 1
        /\ a # StartBlock
        /\ \A b \in prunedBlocks' : ~Trunk(b)
        /\ prunedBlocks \subseteq prunedBlocks'
    BY <1>6, MarkedOnTrunk
  <2>2. pruner' = [step |-> "status", block |-> a] /\ latestCanonical' = latestCanonical
    BY <1>6 DEF MarkBlocksAsPruned
  <2>3. pruner'.step = "status" /\ pruner'.block = a
    BY <2>2
  <2>4. QED BY ONLY <1>1, <1>2, <1>4, <2>1, <2>2, <2>3 DEF PruneInv, CanonicalNumber, Block
<1>7. ASSUME UpdateCanonicalBlock PROVE PruneInv'
  <2>1. /\ pruner.step = "status" /\ latestCanonical' = pruner.block
        /\ pruner' = [pruner EXCEPT !.step = "cache"] /\ prunedBlocks' = prunedBlocks
    BY <1>7 DEF UpdateCanonicalBlock
  <2>2. pruner'.step = "cache" /\ pruner'.block = pruner.block
    BY <1>5, <2>1
  <2>3. QED BY ONLY <1>1, <1>2, <1>4, <2>1, <2>2 DEF PruneInv, CanonicalNumber, Block
<1>8. ASSUME PruneCachedEntities PROVE PruneInv'
  <2>1. /\ pruner.step = "cache" /\ latestCanonical' = latestCanonical
        /\ pruner' = [pruner EXCEPT !.step = "frothy"] /\ prunedBlocks' = prunedBlocks
    BY <1>8 DEF PruneCachedEntities
  <2>2. pruner'.step = "frothy" /\ pruner'.block = pruner.block
    BY <1>5, <2>1
  <2>3. QED BY ONLY <1>1, <1>2, <1>4, <2>1, <2>2 DEF PruneInv, CanonicalNumber, Block
<1>9. ASSUME PruneFrothyEntities PROVE PruneInv'
  <2>1. /\ latestCanonical' = latestCanonical /\ prunedBlocks' = prunedBlocks
        /\ pruner'.step = "idle"
    BY <1>9 DEF PruneFrothyEntities, IdlePruner
  <2>2. QED BY ONLY <1>1, <1>2, <1>4, <2>1 DEF PruneInv, CanonicalNumber, Block
<1>10. QED BY <1>6, <1>7, <1>8, <1>9 DEF Prune

LEMMA RestartKeepsPrune ==
  ASSUME TypeInv, PruneInv, Restart
  PROVE  PruneInv'
<1>1. PICK n \in Nat :
        /\ latestIndexed' = n
        /\ progress' = [b \in Blocks |-> IF Number[b] <= n THEN progress[b] ELSE "absent"]
        /\ \A b : b \in Rows' <=> b \in Rows /\ Number[b] <= n
        /\ prunedBlocks' = {b \in prunedBlocks : Number[b] <= n}
        /\ \E b \in UnprunedAt(n) :
             /\ progress[b] = "complete"
             /\ latestCanonical' = IF CanonicalNumber > n THEN b ELSE latestCanonical
        /\ pruner' = IdlePruner /\ handler' = IdleHandler
  BY RestartCases
<1>2. PICK b \in UnprunedAt(n) :
        /\ progress[b] = "complete"
        /\ latestCanonical' = IF CanonicalNumber > n THEN b ELSE latestCanonical
  BY <1>1
<1>3. b \in Rows /\ b \in Blocks /\ Number[b] = n
  BY DEF UnprunedAt, Rows
<1>4. \E c \in Rows' : Number[c] = latestIndexed'
  BY <1>1, <1>3
<1>5. latestCanonical \in Blocks /\ CanonicalNumber \in Nat /\ progress[latestCanonical] = "complete"
  BY RowsFacts DEF TypeInv, PruneInv
<1>6. progress'[latestCanonical'] = "complete"
  BY <1>1, <1>2, <1>3, <1>5 DEF CanonicalNumber
<1>7. \A c \in prunedBlocks' : ~Trunk(c)
  BY <1>1 DEF PruneInv
<1>8. pruner'.step = "idle" /\ handler'.wasPruned = FALSE
  BY <1>1 DEF IdlePruner, IdleHandler
<1>9. QED BY ONLY <1>4, <1>6, <1>7, <1>8 DEF PruneInv

\* A row is written as the job found it.
LEMMA WriteRowPruned ==
  ASSUME PruneInv, WriteRow(Block, handler.wasPruned), handler.wasPruned \in BOOLEAN
  PROVE  /\ prunedBlocks' \subseteq prunedBlocks /\ prunedBlocks \ {Block} \subseteq prunedBlocks'
         /\ prunedBlocks' # prunedBlocks => Block \in prunedBlocks /\ Block \notin prunedBlocks'
         /\ handler.wasPruned => Block \in prunedBlocks'
         /\ late' = (late \/ Dead(Block))
  BY DEF WriteRow, PruneInv

LEMMA HandleKeepsPrune ==
  ASSUME TypeInv, PruneInv, Handle
  PROVE  PruneInv'
<1>1. latestCanonical \in Rows /\ (pruner.step # "idle" => pruner.block \in Rows)
  BY DEF TypeInv, StoreTyped
<1>2. handler.wasPruned => Block \in prunedBlocks
  BY DEF PruneInv
<1>3. HandlerTyped /\ handler \in Handlers /\ handler.wasPruned \in BOOLEAN
  BY DEF TypeInv, HandlerTyped, Handlers, Steps
<1>4. ASSUME UNCHANGED <<progress, prunedBlocks, latestIndexed, latestCanonical, pruner>>,
             \/ (handler'.wasPruned = handler.wasPruned /\ handler'.block = handler.block)
             \/ handler' = IdleHandler
      PROVE  PruneInv'
  <2>1. Rows' = Rows
    BY <1>4, SameRows
  <2>2. handler'.wasPruned => handler'.block \in prunedBlocks'
    <3>1. CASE handler'.wasPruned = handler.wasPruned /\ handler'.block = handler.block
      BY <1>2, <1>4, <3>1, Zenon DEF Block
    <3>2. CASE handler' = IdleHandler
      BY <3>2 DEF IdleHandler
    <3>3. QED BY <1>4, <3>1, <3>2
  <2>3. QED BY <1>1, <1>4, <2>1, <2>2, SamePrune
<1>5. ASSUME NEW step, NEW position, GoOn(step, position)
      PROVE  handler'.wasPruned = handler.wasPruned /\ handler'.block = handler.block
  BY <1>3, <1>5 DEF GoOn, Handlers
<1>6. CASE Saves
  <2>1. PICK writes : \E step \in {"created", "saved"} : \E position \in Positions :
          Save(writes, step, position)
    BY <1>6 DEF Saves
  <2>2. PICK step, position : Save(writes, step, position)
    BY <2>1
  <2>3. GoOn(step, position) /\ UNCHANGED <<progress, prunedBlocks, latestIndexed, latestCanonical, pruner>>
    BY <2>2 DEF Save
  <2>4. QED BY <1>4, <1>5, <2>3
<1>7. CASE Commits
  <2>1. PICK step : Commit(step)
    BY <1>7 DEF Commits
  <2>2. /\ GoOn(step, handler.position)
        /\ UNCHANGED <<progress, prunedBlocks, latestIndexed, latestCanonical, pruner>>
    BY <2>1 DEF Commit
  <2>3. QED BY <1>4, <1>5, <2>2
<1>8. CASE Reads
  <2>1. PICK step, position : GoOn(step, position) /\ UNCHANGED storeVars
    BY <1>8 DEF Reads
  <2>2. QED BY <1>4, <1>5, <2>1 DEF storeVars
<1>9. CASE Throw
  BY <1>4, <1>9 DEF Throw, Retry
<1>10. CASE UpdateProgress
  <2>1. /\ UNCHANGED <<progress, latestIndexed, latestCanonical, pruner>>
        /\ \/ /\ WriteRow(Block, handler.wasPruned)
              /\ handler' = [handler EXCEPT !.step = "next", !.position = NoEntity]
           \/ handler' = IdleHandler /\ prunedBlocks' = prunedBlocks
    BY <1>10, UpdateProgressCases
  <2>2. CASE handler' = IdleHandler /\ prunedBlocks' = prunedBlocks
    BY <1>4, <2>1, <2>2
  <2>3. CASE /\ WriteRow(Block, handler.wasPruned)
             /\ handler' = [handler EXCEPT !.step = "next", !.position = NoEntity]
    <3>1. Rows' = Rows
      BY <2>1, SameRows
    <3>2. handler'.wasPruned = handler.wasPruned /\ handler'.block = Block
      BY <1>3, <2>3 DEF Handlers, Block
    <3>3. prunedBlocks' \subseteq prunedBlocks /\ (handler.wasPruned => Block \in prunedBlocks')
      BY <1>3, <2>3, WriteRowPruned
    <3>4. handler'.wasPruned => handler'.block \in prunedBlocks'
      BY <3>2, <3>3
    <3>5. QED BY <1>1, <2>1, <3>1, <3>3, <3>4, SamePrune
  <2>4. QED BY <2>1, <2>2, <2>3
<1>11. CASE CompleteBlock
  <2>1. /\ progress' = [progress EXCEPT ![Block] = "complete"]
        /\ WriteRow(Block, handler.wasPruned) /\ handler' = IdleHandler
        /\ UNCHANGED <<latestIndexed, latestCanonical, pruner>> /\ handler.step = "next"
    BY <1>11 DEF CompleteBlock
  <2>2. prunedBlocks' \subseteq prunedBlocks
    BY <1>3, <2>1, WriteRowPruned
  <2>3. \A b \in Rows : b \in Rows' /\ (progress[b] = "complete" => progress'[b] = "complete")
    BY <2>1 DEF TypeInv, StoreTyped, Rows
  <2>4. ~handler'.wasPruned
    BY <2>1 DEF IdleHandler
  <2>5. QED BY <1>1, <2>1, <2>2, <2>3, <2>4, SamePrune
<1>12. QED BY <1>6, <1>7, <1>8, <1>9, <1>10, <1>11, HandleCases

LEMMA StepKeepsPrune ==
  ASSUME TypeInv, PruneInv, [Next]_vars
  PROVE  PruneInv'
<1>1. latestCanonical \in Rows /\ (pruner.step # "idle" => pruner.block \in Rows)
  BY DEF TypeInv, StoreTyped
<1>2. handler.wasPruned => Block \in prunedBlocks
  BY DEF PruneInv
<1>3. ASSUME NEW b \in Blocks, IndexBlock(b) PROVE PruneInv'
  <2>1. /\ UNCHANGED <<latestIndexed, latestCanonical, pruner, prunedBlocks, handler>>
        /\ progress[b] = "absent"
        /\ progress' = [progress EXCEPT ![b] = IF Events[b] # <<>> THEN "incomplete" ELSE "complete"]
    BY <1>3 DEF IndexBlock, SaveBlock, PushEventsJob
  <2>2. \A c \in Rows : c \in Rows' /\ (progress[c] = "complete" => progress'[c] = "complete")
    BY <2>1 DEF TypeInv, StoreTyped, Rows
  <2>3. QED BY <1>1, <1>2, <2>1, <2>2, SamePrune DEF Block
<1>4. ASSUME NEW b \in Blocks, IndexBlockAgain(b) PROVE PruneInv'
  <2>1. UNCHANGED <<progress, latestIndexed, latestCanonical, pruner, prunedBlocks, handler>>
    BY <1>4 DEF IndexBlockAgain, IndexAgain, PushEventsJob
  <2>2. QED BY <1>1, <1>2, <2>1, SameRows, SamePrune DEF Block
<1>5. ASSUME NEW b \in Blocks, TakeEventsJob(b) PROVE PruneInv'
  <2>1. UNCHANGED <<progress, latestIndexed, latestCanonical, pruner, prunedBlocks>>
    BY <1>5 DEF TakeEventsJob, storeVars
  <2>2. handler'.wasPruned => handler'.block \in prunedBlocks'
    BY <1>5, <2>1, TakeEventsJobTyped
  <2>3. QED BY <1>1, <2>1, <2>2, SameRows, SamePrune
<1>6. ASSUME NEW b \in Blocks, OnIndexComplete(b), UNCHANGED handlerVars PROVE PruneInv'
  <2>1. /\ UNCHANGED <<progress, latestCanonical, pruner, prunedBlocks, handler>>
        /\ b \in Rows /\ latestIndexed' = Number[b]
    BY <1>6 DEF OnIndexComplete, handlerVars
  <2>2. Rows' = Rows
    BY <2>1, SameRows
  <2>3. \E c \in Rows' : Number[c] = latestIndexed'
    BY <2>1, <2>2
  <2>4. QED BY ONLY PruneInv, <2>1, <2>2, <2>3 DEF PruneInv, CanonicalNumber, Block
<1>7. CASE Prune
  BY <1>7, PruneKeepsPrune
<1>8. CASE Handle
  BY <1>8, HandleKeepsPrune
<1>9. CASE Restart
  BY <1>9, RestartKeepsPrune
<1>10. CASE UNCHANGED vars
  <2>1. UNCHANGED <<progress, latestIndexed, latestCanonical, pruner, prunedBlocks, handler>>
    BY <1>10 DEF vars, storeVars, handlerVars
  <2>2. QED BY <1>1, <1>2, <2>1, SameRows, SamePrune DEF Block
<1>11. QED BY <1>3, <1>4, <1>5, <1>6, <1>7, <1>8, <1>9, <1>10 DEF Next

-----------------------------------------------------------------------------
(* The cache. *)

LEMMA InitCache == Init => VersionsInv /\ CacheInv
<1> SUFFICES ASSUME Init PROVE VersionsInv /\ CacheInv
  OBVIOUS
<1>1. /\ DOMAIN table = {} /\ DOMAIN frothyBlocks = {} /\ latestPruned = NoEntities
      /\ DOMAIN latestPruned = {} /\ DOMAIN tx = {} /\ pruner.step = "idle"
      /\ handler.position = NoEntity
  BY DEF Init, InitStore, NoEntities, NoWrites, IdlePruner, IdleHandler
<1>2. MarkedInv
  BY ONLY <1>1, NoEntityAssumption DEF MarkedInv
<1>3. OneVersionInv /\ LatestInv
  BY ONLY <1>1 DEF OneVersionInv, LatestInv
<1>4. CacheInv
  BY ONLY <1>1 DEF CacheInv, FrothyInv, CacheHolds, CacheReaches
<1>5. QED BY <1>2, <1>3, <1>4 DEF VersionsInv

LEMMA ReachesKept ==
  ASSUME CacheReaches, UNCHANGED <<latestCanonical, pruner>>, latestPruned' \in {latestPruned, NoEntities},
         \A c \in Rows' : (c \in Rows => Full(c)) => Full(c)',
         latestCanonical \in DOMAIN frothyBlocks' => latestCanonical \in DOMAIN frothyBlocks,
         Base \in DOMAIN frothyBlocks' => Base \in DOMAIN frothyBlocks,
         \A b \in DOMAIN frothyBlocks' : DOMAIN frothyBlocks'[b] # {} =>
           \/ FullAbove(b)'
           \/ (b \in DOMAIN frothyBlocks /\ DOMAIN frothyBlocks[b] # {})
  PROVE  CacheReaches'
<1>1. \A b : FullAbove(b) => FullAbove(b)'
  BY DEF FullAbove
<1>2. Base' = Base
  BY DEF Base
<1>3. FullAbove(Base) => FullAbove(Base)'
  <2>1. PICK b : b = Base
    OBVIOUS
  <2>2. b = Base'
    BY <1>2, <2>1
  <2>3. QED BY <1>1, <2>1, <2>2 DEF FullAbove
<1>4. \A b \in DOMAIN frothyBlocks' : DOMAIN frothyBlocks'[b] # {} => FullAbove(b)'
  BY <1>1 DEF CacheReaches
<1>5. latestCanonical' \in DOMAIN frothyBlocks' => pruner'.step = "cache"
  BY DEF CacheReaches
<1>6. latestPruned' # NoEntities =>
        Trunk(latestCanonical') /\ FullAbove(Base)' /\ Base' \notin DOMAIN frothyBlocks'
  BY <1>2, <1>3 DEF CacheReaches
<1>7. QED BY ONLY <1>4, <1>5, <1>6 DEF CacheReaches, Trunk

\* A step that neither reads nor writes entities.
LEMMA StillCache ==
  ASSUME CacheInv, Rows' = Rows,
         UNCHANGED <<latestCanonical, table, frothy, frothyBlocks, latestPruned, pruner, tx>>,
         \/ tx = NoWrites
         \/ Block' = Block
  PROVE  CacheInv'
<1>1. FrothyInv'
  BY DEF CacheInv, FrothyInv, CanonicalNumber
<1>2. \A id, b : HasVersion(id, b)' <=> HasVersion(id, b)
  BY DEF HasVersion, NoWrites
<1>3. CacheHolds'
  BY DEF CacheInv, CacheHolds, NoWrites
<1>4. \A c : Full(c)' <=> Full(c)
  BY <1>2 DEF Full
<1>5. CacheReaches'
  BY <1>4, ReachesKept DEF CacheInv
<1>6. QED BY <1>1, <1>3, <1>5 DEF CacheInv

\* What a step leaves when the cache is emptied.
LEMMA EmptyCache ==
  ASSUME FrothyInv', frothyBlocks' = <<>>, latestPruned' = NoEntities
  PROVE  CacheInv'
<1>1. DOMAIN frothyBlocks' = {}
  OBVIOUS
<1>2. CacheHolds' /\ CacheReaches'
  BY ONLY <1>1, latestPruned' = NoEntities DEF CacheHolds, CacheReaches
<1>3. QED BY <1>2 DEF CacheInv

LEMMA IndexBlockCache ==
  ASSUME TypeInv, CacheInv, NEW b \in Blocks, IndexBlock(b)
  PROVE  CacheInv'
<1>1. /\ progress[b] = "absent" /\ b \notin Rows
      /\ progress' = [progress EXCEPT ![b] = IF Events[b] # <<>> THEN "incomplete" ELSE "complete"]
      /\ AddFrothyBlock(b) /\ pruner.step \in {"idle", "frothy"}
      /\ UNCHANGED <<latestCanonical, table, frothy, pruner, handler, tx>>
  BY DEF IndexBlock, SaveBlock, TakeIndexJob, PushEventsJob, Rows
<1>2. Rows' = Rows \cup {b}
  BY <1>1 DEF TypeInv, StoreTyped, Rows
<1>3. /\ DOMAIN frothyBlocks' = DOMAIN frothyBlocks \cup {b}
      /\ \A c \in DOMAIN frothyBlocks : frothyBlocks'[c] = frothyBlocks[c]
      /\ b \notin DOMAIN frothyBlocks => frothyBlocks'[b] = NoEntities
      /\ latestPruned' \in {latestPruned, NoEntities}
  BY <1>1, AddFrothyBlockTyped DEF TypeInv
<1>4. b \notin DOMAIN frothyBlocks /\ b # latestCanonical
  BY <1>1 DEF TypeInv, StoreTyped
<1>5. DOMAIN frothyBlocks'[b] = {}
  BY <1>3, <1>4 DEF NoEntities
<1>6. FrothyInv'
  BY <1>1 DEF CacheInv, FrothyInv, CanonicalNumber
<1>7. CacheHolds'
  BY <1>1, <1>3, <1>5 DEF CacheInv, CacheHolds, Block
<1>8. \A id, c : HasVersion(id, c)' <=> HasVersion(id, c)
  BY <1>1 DEF HasVersion, Block
<1>9. \A c : Full(c) => Full(c)'
  BY <1>3, <1>8 DEF Full
<1>10. \A id : ~HasVersion(id, b)
  <2>1. \A id : Key(id, b) \notin DOMAIN table
    BY <1>1 DEF TypeInv, StoreTyped, Key
  <2>2. b = Block => tx = NoWrites
    BY <1>1 DEF TypeInv, HandlerTyped
  <2>3. DOMAIN NoWrites = {}
    BY DEF NoWrites
  <2>4. QED BY <2>1, <2>2, <2>3 DEF HasVersion
<1>11. Full(b)'
  BY <1>3, <1>8, <1>10 DEF Full
<1>12. \A c \in Rows' : (c \in Rows => Full(c)) => Full(c)'
  BY <1>2, <1>9, <1>11
<1>13. Base = latestCanonical
  BY <1>1 DEF Base
<1>14. CacheReaches'
  BY <1>1, <1>3, <1>4, <1>5, <1>12, <1>13, ReachesKept DEF CacheInv
<1>15. QED BY <1>6, <1>7, <1>14 DEF CacheInv

LEMMA IndexBlockAgainCache ==
  ASSUME TypeInv, CacheInv, NEW b \in Blocks, IndexBlockAgain(b)
  PROVE  CacheInv'
<1>1. b \in Rows \ {StartBlock} /\ pruner.step \in {"idle", "frothy"}
      /\ UNCHANGED <<progress, latestCanonical, table, frothy, pruner, handler, tx>>
  BY DEF IndexBlockAgain, IndexAgain, TakeIndexJob, PushEventsJob
<1>2. PICK r \in Rows : r = RowFound(b)
  BY <1>1, RowFoundType
<1>3. AddFrothyBlock(r)
  BY <1>2 DEF IndexBlockAgain, IndexAgain
<1>4. r # latestCanonical
  <2>1. b \in Blocks /\ Number[b] = Number[Parent[b]] + 1 /\ Number[Parent[b]] \in Nat
    BY <1>1, ParentBelow
  <2>2. Parent[b] # b
    BY <2>1
  <2>3. QED BY <1>2, <2>2 DEF RowFound
<1>5. Rows' = Rows
  BY <1>1, SameRows
<1>6. /\ DOMAIN frothyBlocks' = DOMAIN frothyBlocks \cup {r}
      /\ \A c \in DOMAIN frothyBlocks : frothyBlocks'[c] = frothyBlocks[c]
      /\ r \notin DOMAIN frothyBlocks => frothyBlocks'[r] = NoEntities
      /\ latestPruned' \in {latestPruned, NoEntities}
  BY <1>3, AddFrothyBlockTyped DEF TypeInv
<1>7. r \notin DOMAIN frothyBlocks => DOMAIN frothyBlocks'[r] = {}
  BY <1>6 DEF NoEntities
<1>8. FrothyInv'
  BY <1>1 DEF CacheInv, FrothyInv, CanonicalNumber
<1>9. CacheHolds'
  BY <1>1, <1>6, <1>7 DEF CacheInv, CacheHolds, Block
<1>10. \A id, c : HasVersion(id, c)' <=> HasVersion(id, c)
  BY <1>1 DEF HasVersion, Block
<1>11. \A c : Full(c) => Full(c)'
  BY <1>6, <1>10 DEF Full
<1>12. Base = latestCanonical
  BY <1>1 DEF Base
<1>13. CacheReaches'
  BY <1>1, <1>4, <1>5, <1>6, <1>7, <1>11, <1>12, ReachesKept DEF CacheInv
<1>14. QED BY <1>8, <1>9, <1>13 DEF CacheInv

\* The rows of a save reach the cache and the transaction together; no other row has the block
\* of an open transaction on its chain.
LEMMA SaveCache ==
  ASSUME TypeInv, CacheInv, NEW writes, NEW step \in {"created", "saved"}, NEW position \in Positions,
         Save(writes, step, position), IsEntities(writes), handler.step \in {"call", "got"}
  PROVE  CacheInv'
<1>1. UNCHANGED <<progress, latestCanonical, table, frothy, pruner, latestPruned>>
      /\ tx' = writes /\ GoOn(step, position)
  BY DEF Save, CacheUpdatedEntities
<1>2. Rows' = Rows
  BY <1>1, SameRows
<1>3. Block \in Rows /\ lastProcessed[Block] < Len(Events[Block]) /\ tx = NoWrites /\ Block \in Blocks
  BY HandlerBusy
<1>4. Block' = Block
  BY <1>1, GoOnTyped DEF TypeInv, Block, Steps
<1>5. /\ DOMAIN frothyBlocks' = DOMAIN frothyBlocks
      /\ \A c \in DOMAIN frothyBlocks :
           frothyBlocks'[c] = IF c = Block THEN Over(writes, frothyBlocks[c]) ELSE frothyBlocks[c]
  BY DEF Save, CacheUpdatedEntities
<1>6. Block \in DOMAIN frothyBlocks =>
        /\ DOMAIN frothyBlocks'[Block] = DOMAIN writes \cup DOMAIN frothyBlocks[Block]
        /\ \A id \in DOMAIN writes : frothyBlocks'[Block][id] = writes[id]
        /\ \A id \in DOMAIN frothyBlocks[Block] :
             id \notin DOMAIN writes => frothyBlocks'[Block][id] = frothyBlocks[Block][id]
  <2>1. PICK e : e = frothyBlocks[Block]
    OBVIOUS
  <2>2. /\ DOMAIN Over(writes, e) = DOMAIN writes \cup DOMAIN e
        /\ \A id \in DOMAIN writes : Over(writes, e)[id] = writes[id]
        /\ \A id \in DOMAIN e : id \notin DOMAIN writes => Over(writes, e)[id] = e[id]
    BY DEF Over
  <2>3. Block \in DOMAIN frothyBlocks => frothyBlocks'[Block] = Over(writes, e)
    BY <1>5, <2>1
  <2>4. QED BY ONLY <2>1, <2>2, <2>3
<1>7. DOMAIN tx = {}
  BY <1>3 DEF NoWrites
<1>8. FrothyInv'
  BY <1>1 DEF CacheInv, FrothyInv, CanonicalNumber
<1>9. CacheHolds'
  <2>1. SUFFICES ASSUME NEW c \in DOMAIN frothyBlocks', NEW id \in DOMAIN frothyBlocks'[c]
                 PROVE  IF c = Block /\ id \in DOMAIN writes THEN frothyBlocks'[c][id] = writes[id]
                        ELSE /\ Key(id, c) \in DOMAIN table
                             /\ Unmarked(frothyBlocks'[c][id]) = Unmarked(table[Key(id, c)])
    BY ONLY <1>1, <1>4, <2>1 DEF CacheHolds
  <2>2. c \in DOMAIN frothyBlocks
    BY <1>5
  <2>3. \A x \in DOMAIN frothyBlocks[c] : /\ Key(x, c) \in DOMAIN table
                                          /\ Unmarked(frothyBlocks[c][x]) = Unmarked(table[Key(x, c)])
    BY <1>7, <2>2 DEF CacheInv, CacheHolds
  <2>4. CASE c = Block
    <3>1. CASE id \in DOMAIN writes
      BY <1>6, <2>2, <2>4, <3>1
    <3>2. CASE id \notin DOMAIN writes
      BY <1>6, <2>2, <2>3, <2>4, <3>2
    <3>3. QED BY <3>1, <3>2
  <2>5. CASE c # Block
    BY <1>5, <2>2, <2>3, <2>5
  <2>6. QED BY <2>4, <2>5
<1>10. \A c : Full(c) => Full(c)'
  <2>1. \A id, c : HasVersion(id, c)' => HasVersion(id, c) \/ (c = Block /\ id \in DOMAIN writes)
    BY <1>1, <1>4 DEF HasVersion
  <2>2. \A c \in DOMAIN frothyBlocks : DOMAIN frothyBlocks[c] \subseteq DOMAIN frothyBlocks'[c]
    BY <1>5, <1>6
  <2>3. QED BY <1>5, <1>6, <2>1, <2>2 DEF Full
<1>11. \A b : b = Block => FullAbove(b)'
  <2>1. ASSUME NEW c \in Rows \ {Block}, Block \in Chain[c] PROVE FALSE
    <3>1. progress[Block] = "complete"
      BY <2>1, AncestorsComplete
    <3>2. lastProcessed[Block] = Len(Events[Block])
      BY <1>3, <3>1 DEF TypeInv, ParentsReady
    <3>3. lastProcessed[Block] \in Nat
      BY <1>3 DEF TypeInv, HandlerTyped
    <3>4. QED BY <1>3, <3>2, <3>3
  <2>2. QED BY <1>2, <2>1 DEF FullAbove
<1>12. \A c \in DOMAIN frothyBlocks' : DOMAIN frothyBlocks'[c] # {} =>
         \/ FullAbove(c)'
         \/ (c \in DOMAIN frothyBlocks /\ DOMAIN frothyBlocks[c] # {})
  BY <1>5, <1>11
<1>13. CacheReaches'
  BY <1>1, <1>2, <1>5, <1>10, <1>12, ReachesKept DEF CacheInv
<1>14. QED BY <1>8, <1>9, <1>13 DEF CacheInv

LEMMA CommitCache ==
  ASSUME TypeInv, CacheInv, NEW step \in {"got", "update"}, Commit(step),
         handler.step \in {"created", "saved"}
  PROVE  CacheInv'
<1>1. /\ UNCHANGED <<progress, latestCanonical, frothyBlocks, latestPruned, pruner>>
      /\ tx' = NoWrites /\ GoOn(step, handler.position) /\ CommitEntities(Block, tx)
  BY DEF Commit, cacheVars
<1>2. Rows' = Rows
  BY <1>1, SameRows
<1>3. Block \in Rows /\ handler.position \in Positions
  BY HandlerBusy
<1>4. Block' = Block
  BY <1>1, <1>3, GoOnTyped DEF TypeInv, Block, Steps
<1>5. /\ \A k : k \in DOMAIN table' <=> k \in DOMAIN table \/ (k.id \in DOMAIN tx /\ k = Key(k.id, Block))
      /\ \A id \in DOMAIN tx : Key(id, Block) \in DOMAIN table' /\ table'[Key(id, Block)] = tx[id]
      /\ \A k \in DOMAIN table : ~(k.id \in DOMAIN tx /\ k = Key(k.id, Block)) => table'[k] = table[k]
      /\ frothy' = frothy \cup (DOMAIN table' \ DOMAIN table) \cup {Key(id, Block) : id \in DOMAIN tx}
  BY <1>1, <1>3, CommitTable
<1>6. FrothyInv'
  BY <1>1, <1>5 DEF CacheInv, FrothyInv, CanonicalNumber
<1>7. DOMAIN tx' = {}
  BY <1>1 DEF NoWrites
<1>8. CacheHolds'
  <2>1. SUFFICES ASSUME NEW c \in DOMAIN frothyBlocks, NEW id \in DOMAIN frothyBlocks[c]
                 PROVE  /\ Key(id, c) \in DOMAIN table'
                        /\ Unmarked(frothyBlocks[c][id]) = Unmarked(table'[Key(id, c)])
    BY ONLY <1>1, <1>7, <2>1 DEF CacheHolds
  <2>2. CASE c = Block /\ id \in DOMAIN tx
    <3>1. frothyBlocks[c][id] = tx[id]
      BY <2>2 DEF CacheInv, CacheHolds
    <3>2. QED BY <1>5, <2>2, <3>1
  <2>3. CASE ~(c = Block /\ id \in DOMAIN tx)
    <3>1. Key(id, c) \in DOMAIN table /\ Unmarked(frothyBlocks[c][id]) = Unmarked(table[Key(id, c)])
      BY <2>3 DEF CacheInv, CacheHolds
    <3>2. ~(Key(id, c).id \in DOMAIN tx /\ Key(id, c) = Key(Key(id, c).id, Block))
      BY <2>3 DEF Key
    <3>3. Key(id, c) \in DOMAIN table' /\ table'[Key(id, c)] = table[Key(id, c)]
      BY <1>5, <3>1, <3>2
    <3>4. QED BY <3>1, <3>3
  <2>4. QED BY <2>2, <2>3
<1>9. \A id, c : HasVersion(id, c)' <=> HasVersion(id, c)
  <2>1. \A id, c : (Key(id, c).id \in DOMAIN tx /\ Key(id, c) = Key(Key(id, c).id, Block))
                     <=> (c = Block /\ id \in DOMAIN tx)
    BY DEF Key
  <2>2. QED BY <1>5, <1>7, <2>1 DEF HasVersion
<1>10. \A c : Full(c) => Full(c)'
  BY <1>1, <1>9 DEF Full
<1>11. CacheReaches'
  BY <1>1, <1>2, <1>10, ReachesKept DEF CacheInv
<1>12. QED BY <1>6, <1>8, <1>11 DEF CacheInv

LEMMA ThrowCache ==
  ASSUME CacheInv, Throw
  PROVE  CacheInv'
<1>1. /\ UNCHANGED <<latestCanonical, table, frothy>>
      /\ frothyBlocks' = <<>> /\ latestPruned' = NoEntities
  BY DEF Throw, ClearCachedEntities
<1>2. FrothyInv'
  BY <1>1 DEF CacheInv, FrothyInv, CanonicalNumber
<1>3. QED BY <1>1, <1>2, EmptyCache

LEMMA RestartCache ==
  ASSUME TypeInv, CacheInv, Restart
  PROVE  CacheInv'
<1>1. PICK n \in Nat :
        /\ table' = [k \in {l \in DOMAIN table : Number[l.block] <= n} |-> table[k]]
        /\ frothy' = {f \in frothy : Number[f.block] <= n}
        /\ \E b \in UnprunedAt(n) :
             latestCanonical' = IF CanonicalNumber > n THEN b ELSE latestCanonical
        /\ frothyBlocks' = <<>> /\ latestPruned' = NoEntities
  BY RestartCases
<1>2. PICK b \in UnprunedAt(n) : latestCanonical' = IF CanonicalNumber > n THEN b ELSE latestCanonical
  BY <1>1
<1>3. Number[b] = n
  BY DEF UnprunedAt
<1>4. FrothyInv'
  <2>1. SUFFICES ASSUME NEW k \in DOMAIN table', Number[k.block] > Number[latestCanonical']
                 PROVE  k \in frothy'
    BY DEF FrothyInv, CanonicalNumber
  <2>2. k \in DOMAIN table /\ Number[k.block] <= n /\ k.block \in Blocks /\ Number[k.block] \in Nat
    BY <1>1, BlockAssumption DEF TypeInv, StoreTyped, Rows
  <2>3. latestCanonical' = latestCanonical
    BY <1>2, <1>3, <2>1, <2>2
  <2>4. k \in frothy
    BY <2>1, <2>2, <2>3 DEF CacheInv, FrothyInv, CanonicalNumber
  <2>5. QED BY <1>1, <2>2, <2>4
<1>5. QED BY <1>1, <1>4, EmptyCache

LEMMA MarkCache ==
  ASSUME TypeInv, CacheInv, NEW a \in Blocks, MarkBlocksAsPruned(a), UNCHANGED handlerVars
  PROVE  CacheInv'
<1>1. /\ pruner.step = "idle" /\ pruner'.step = "status"
      /\ UNCHANGED <<progress, latestCanonical, frothy, frothyBlocks, latestPruned, handler, tx>>
  BY DEF MarkBlocksAsPruned, cacheVars, handlerVars
<1>2. PICK S : table' = PruneEntities(S)
  BY DEF MarkBlocksAsPruned
<1>3. DOMAIN table' = DOMAIN table /\ \A k \in DOMAIN table : Unmarked(table'[k]) = Unmarked(table[k])
  BY <1>2, PruneEntitiesTyped DEF TypeInv
<1>4. Rows' = Rows
  BY <1>1, SameRows
<1>5. FrothyInv'
  BY <1>1, <1>3 DEF CacheInv, FrothyInv, CanonicalNumber
<1>6. CacheHolds'
  BY <1>1, <1>3 DEF CacheInv, CacheHolds, Block
<1>7. \A id, c : HasVersion(id, c)' <=> HasVersion(id, c)
  BY <1>1, <1>3 DEF HasVersion, Block
<1>8. \A c : Full(c) => Full(c)'
  BY <1>1, <1>7 DEF Full
<1>9. \A c : FullAbove(c) => FullAbove(c)'
  BY <1>4, <1>8 DEF FullAbove
<1>10. Base = latestCanonical /\ Base' = latestCanonical
  BY <1>1 DEF Base
<1>11. CacheReaches'
  <2>1. \A b \in DOMAIN frothyBlocks' : DOMAIN frothyBlocks'[b] # {} => FullAbove(b)'
    BY <1>1, <1>9 DEF CacheInv, CacheReaches
  <2>2. latestCanonical' \in DOMAIN frothyBlocks' => pruner'.step = "cache"
    BY <1>1 DEF CacheInv, CacheReaches
  <2>3. ASSUME latestPruned' # NoEntities
        PROVE  Trunk(latestCanonical') /\ FullAbove(Base)' /\ Base' \notin DOMAIN frothyBlocks'
    <3>1. Trunk(latestCanonical) /\ FullAbove(Base) /\ Base \notin DOMAIN frothyBlocks
      BY <1>1, <2>3 DEF CacheInv, CacheReaches
    <3>2. PICK c : c = latestCanonical
      OBVIOUS
    <3>3. FullAbove(c)
      BY <1>10, <3>1, <3>2
    <3>4. FullAbove(c)' /\ c = Base'
      BY <1>9, <1>10, <3>2, <3>3
    <3>5. FullAbove(Base)'
      BY <3>4 DEF FullAbove
    <3>6. QED BY <1>1, <1>10, <3>1, <3>5
  <2>4. QED BY ONLY <2>1, <2>2, <2>3 DEF CacheReaches, Trunk
<1>12. QED BY <1>5, <1>6, <1>11 DEF CacheInv

\* The parent of the next canonical block is the canonical one, once the cache holds what is
\* below it.
LEMMA ParentOfNext ==
  ASSUME TypeInv, PruneInv, CacheInv, pruner.step = "status", latestPruned # NoEntities
  PROVE  /\ Parent[pruner.block] = latestCanonical
         /\ Trunk(latestCanonical) /\ Trunk(pruner.block) /\ pruner.block \in Blocks
<1>1. Trunk(latestCanonical)
  BY DEF CacheInv, CacheReaches
<1>2. /\ pruner.block \in Blocks /\ Trunk(pruner.block) /\ pruner.block # StartBlock
      /\ Number[pruner.block] = CanonicalNumber + 1
  BY DEF TypeInv, StoreTyped, Rows, PruneInv
<1>3. /\ Parent[pruner.block] \in Blocks /\ Number[pruner.block] = Number[Parent[pruner.block]] + 1
      /\ Number[Parent[pruner.block]] \in Nat
  BY <1>2, ParentBelow
<1>4. Trunk(Parent[pruner.block])
  BY <1>2, TrunkParent
<1>5. latestCanonical \in Blocks /\ CanonicalNumber \in Nat
  BY RowsFacts DEF TypeInv
<1>6. Number[Parent[pruner.block]] = Number[latestCanonical]
  BY <1>2, <1>3, <1>5 DEF CanonicalNumber
<1>7. QED BY <1>1, <1>2, <1>3, <1>4, <1>5, <1>6, TrunkUnique

LEMMA UpdateCanonicalCache ==
  ASSUME TypeInv, PruneInv, CacheInv, UpdateCanonicalBlock, UNCHANGED handlerVars
  PROVE  /\ CacheInv'
         /\ latestPruned # NoEntities => Base' = Base
<1>1. /\ pruner.step = "status" /\ latestCanonical' = pruner.block
      /\ pruner' = [pruner EXCEPT !.step = "cache"]
      /\ UNCHANGED <<progress, table, frothy, frothyBlocks, latestPruned, handler, tx>>
  BY DEF UpdateCanonicalBlock, cacheVars, handlerVars
<1>2. pruner'.step = "cache"
  BY <1>1 DEF TypeInv, StoreTyped
<1>3. Rows' = Rows
  BY <1>1, SameRows
<1>4. Number[pruner.block] = CanonicalNumber + 1 /\ CanonicalNumber \in Nat
  BY <1>1, RowsFacts DEF TypeInv, PruneInv
<1>5. FrothyInv'
  <2>1. \A k \in DOMAIN table : Number[k.block] \in Nat
    BY BlockAssumption DEF TypeInv, StoreTyped, Rows
  <2>2. QED BY <1>1, <1>4, <2>1 DEF CacheInv, FrothyInv, CanonicalNumber
<1>6. CacheHolds'
  BY <1>1 DEF CacheInv, CacheHolds, Block
<1>7. \A id, c : HasVersion(id, c)' <=> HasVersion(id, c)
  BY <1>1 DEF HasVersion, Block
<1>8. \A c : Full(c) => Full(c)'
  BY <1>1, <1>7 DEF Full
<1>9. \A c : FullAbove(c) => FullAbove(c)'
  BY <1>3, <1>8 DEF FullAbove
<1>10. ASSUME latestPruned # NoEntities
       PROVE  Base = latestCanonical /\ Base' = latestCanonical /\ Trunk(latestCanonical')
  <2>1. Parent[pruner.block] = latestCanonical /\ Trunk(pruner.block)
    BY <1>1, <1>10, ParentOfNext
  <2>2. Base = latestCanonical
    BY <1>1 DEF Base
  <2>3. Base' = Parent[pruner.block]
    BY <1>1, <1>2 DEF Base
  <2>4. Trunk(latestCanonical')
    BY <1>1, <2>1
  <2>5. QED BY <2>1, <2>2, <2>3, <2>4
<1>11. CacheReaches'
  <2>1. \A b \in DOMAIN frothyBlocks' : DOMAIN frothyBlocks'[b] # {} => FullAbove(b)'
    BY <1>1, <1>9 DEF CacheInv, CacheReaches
  <2>2. latestCanonical' \in DOMAIN frothyBlocks' => pruner'.step = "cache"
    BY <1>2
  <2>3. ASSUME latestPruned' # NoEntities
        PROVE  Trunk(latestCanonical') /\ FullAbove(Base)' /\ Base' \notin DOMAIN frothyBlocks'
    <3>1. latestPruned # NoEntities
      BY <1>1, <2>3
    <3>2. FullAbove(Base) /\ Base \notin DOMAIN frothyBlocks
      BY <3>1 DEF CacheInv, CacheReaches
    <3>3. PICK c : c = latestCanonical
      OBVIOUS
    <3>4. FullAbove(c)
      BY <1>10, <3>1, <3>2, <3>3
    <3>5. FullAbove(c)' /\ c = Base'
      BY <1>9, <1>10, <3>1, <3>3, <3>4
    <3>6. FullAbove(Base)'
      BY <3>5 DEF FullAbove
    <3>7. QED BY <1>1, <1>10, <3>1, <3>2, <3>6
  <2>4. QED BY ONLY <2>1, <2>2, <2>3 DEF CacheReaches, Trunk
<1>12. QED BY <1>5, <1>6, <1>10, <1>11 DEF CacheInv

LEMMA PruneCachedCases ==
  ASSUME TypeInv, PruneInv, PruneCachedEntities, UNCHANGED handlerVars
  PROVE  /\ pruner.step = "cache" /\ pruner'.step = "frothy" /\ Base' = latestCanonical
         /\ Base = Parent[latestCanonical]
         /\ latestCanonical \in Blocks /\ latestCanonical # StartBlock /\ Trunk(latestCanonical)
         /\ progress[latestCanonical] = "complete"
         /\ UNCHANGED <<progress, prunedBlocks, latestCanonical, table, frothy, handler, tx, late>>
         /\ latestPruned' = LatestPrunedWith(latestCanonical)
         /\ DOMAIN frothyBlocks' = {c \in DOMAIN frothyBlocks : Number[c] > Number[latestCanonical]}
         /\ \A c \in DOMAIN frothyBlocks' : frothyBlocks'[c] = frothyBlocks[c]
<1>1. /\ pruner.step = "cache" /\ pruner' = [pruner EXCEPT !.step = "frothy"]
      /\ UNCHANGED <<progress, prunedBlocks, latestCanonical, table, frothy, handler, tx, late>>
      /\ latestPruned' = LatestPrunedWith(pruner.block)
      /\ frothyBlocks' = [b \in {c \in DOMAIN frothyBlocks : Number[c] > Number[pruner.block]} |->
                            frothyBlocks[b]]
  BY DEF PruneCachedEntities, handlerVars
<1>2. pruner.block = latestCanonical
  BY <1>1 DEF PruneInv
<1>3. pruner'.step = "frothy"
  BY <1>1 DEF TypeInv, StoreTyped
<1>4. Base' = latestCanonical /\ Base = Parent[latestCanonical]
  BY <1>1, <1>3 DEF Base
<1>5. /\ latestCanonical \in Blocks /\ latestCanonical # StartBlock /\ Trunk(latestCanonical)
      /\ progress[latestCanonical] = "complete"
  <2>1. /\ pruner.block # StartBlock /\ Trunk(pruner.block) /\ progress[pruner.block] = "complete"
        /\ latestCanonical \in Blocks
    BY <1>1, RowsFacts DEF PruneInv, TypeInv
  <2>2. QED BY <1>2, <2>1
<1>6. latestPruned' = LatestPrunedWith(latestCanonical)
  BY <1>1, <1>2
<1>7. /\ DOMAIN frothyBlocks' = {c \in DOMAIN frothyBlocks : Number[c] > Number[latestCanonical]}
      /\ \A c \in DOMAIN frothyBlocks' : frothyBlocks'[c] = frothyBlocks[c]
  BY <1>1, <1>2
<1>8. QED BY <1>1, <1>3, <1>4, <1>5, <1>6, <1>7

LEMMA LatestPrunedWithDef ==
  ASSUME TypeInv, NEW b
  PROVE  /\ \A id \in DOMAIN LatestPrunedWith(b) :
              \/ /\ b \in DOMAIN frothyBlocks /\ id \in DOMAIN frothyBlocks[b]
                 /\ LatestPrunedWith(b)[id] = frothyBlocks[b][id]
              \/ /\ ~(b \in DOMAIN frothyBlocks /\ id \in DOMAIN frothyBlocks[b])
                 /\ id \in DOMAIN latestPruned
                 /\ LatestPrunedWith(b)[id] = latestPruned[id]
         /\ LatestPrunedWith(b) # NoEntities =>
              \/ b \in DOMAIN frothyBlocks /\ DOMAIN frothyBlocks[b] # {}
              \/ latestPruned # NoEntities
<1>1. CASE b \notin DOMAIN frothyBlocks
  <2>1. LatestPrunedWith(b) = latestPruned
    BY <1>1 DEF LatestPrunedWith
  <2>2. QED BY ONLY <1>1, <2>1
<1>2. CASE b \in DOMAIN frothyBlocks
  <2>1. PICK e : e = frothyBlocks[b]
    OBVIOUS
  <2>2. PICK p : p = LatestPrunedWith(b)
    OBVIOUS
  <2>3. p = Over(e, latestPruned)
    BY <1>2, <2>1, <2>2 DEF LatestPrunedWith
  <2>4. /\ DOMAIN p = DOMAIN e \cup DOMAIN latestPruned
        /\ p = [x \in DOMAIN p |-> p[x]]
        /\ \A x \in DOMAIN e : p[x] = e[x]
        /\ \A x \in DOMAIN latestPruned : x \notin DOMAIN e => p[x] = latestPruned[x]
    BY <2>3 DEF Over
  <2>5. ASSUME p # NoEntities, DOMAIN e = {}, latestPruned = NoEntities PROVE FALSE
    <3>1. DOMAIN p = {}
      BY <2>4, <2>5 DEF NoEntities
    <3>2. p = <<>>
      BY <2>4, <3>1, EmptyFunction
    <3>3. QED BY <2>5, <3>2 DEF NoEntities
  <2>6. QED BY ONLY <1>2, <2>1, <2>2, <2>4, <2>5
<1>3. QED BY <1>1, <1>2

LEMMA PruneCachedCache ==
  ASSUME TypeInv, PruneInv, CacheInv, PruneCachedEntities, UNCHANGED handlerVars
  PROVE  CacheInv'
<1>1. PICK q : q = latestCanonical
  OBVIOUS
<1>2. /\ pruner'.step = "frothy" /\ Base' = q /\ Base = Parent[q]
      /\ q \in Blocks /\ q # StartBlock /\ Trunk(q) /\ latestCanonical' = q
      /\ UNCHANGED <<progress, latestCanonical, table, frothy, handler, tx>>
      /\ latestPruned' = LatestPrunedWith(q)
      /\ DOMAIN frothyBlocks' = {c \in DOMAIN frothyBlocks : Number[c] > Number[q]}
      /\ \A c \in DOMAIN frothyBlocks' : frothyBlocks'[c] = frothyBlocks[c]
  BY <1>1, PruneCachedCases
<1>3. Rows' = Rows
  BY <1>2, SameRows
<1>4. FrothyInv'
  BY <1>2 DEF CacheInv, FrothyInv, CanonicalNumber
<1>5. CacheHolds'
  BY <1>2 DEF CacheInv, CacheHolds, Block
<1>6. \A id, c : HasVersion(id, c)' <=> HasVersion(id, c)
  BY <1>2 DEF HasVersion, Block
<1>7. \A c \in Blocks : Full(c) /\ Number[c] > Number[q] => Full(c)'
  BY <1>2, <1>6 DEF Full
<1>8. Number[q] \in Nat
  BY <1>2, BlockAssumption
<1>9. ASSUME NEW b \in Blocks, Number[b] >= Number[q], FullAbove(b) PROVE FullAbove(b)'
  <2>1. SUFFICES ASSUME NEW c \in Rows \ {b}, b \in Chain[c] PROVE Full(c)'
    BY <1>3 DEF FullAbove
  <2>2. c \in Blocks /\ Full(c)
    BY <1>9, <2>1 DEF FullAbove, Rows
  <2>3. Number[c] > Number[b]
    <3>1. Number[b] \in Nat /\ Number[c] \in Nat /\ Number[b] <= Number[c] /\ Number[b] # Number[c]
      BY <2>1, <2>2, ChainBelow
    <3>2. QED BY <3>1
  <2>4. Number[c] > Number[q]
    BY <1>8, <1>9, <2>2, <2>3, BlockAssumption
  <2>5. QED BY <1>7, <2>2, <2>4
<1>10. DOMAIN frothyBlocks \subseteq Blocks
  BY DEF TypeInv, StoreTyped, Rows
<1>11. \A b \in DOMAIN frothyBlocks' : DOMAIN frothyBlocks'[b] # {} => FullAbove(b)'
  <2>1. SUFFICES ASSUME NEW b \in DOMAIN frothyBlocks', DOMAIN frothyBlocks'[b] # {} PROVE FullAbove(b)'
    OBVIOUS
  <2>2. b \in DOMAIN frothyBlocks /\ DOMAIN frothyBlocks[b] # {} /\ Number[b] > Number[q] /\ b \in Blocks
    BY <1>2, <1>10, <2>1
  <2>3. Number[b] >= Number[q]
    BY <1>8, <2>2, BlockAssumption
  <2>4. FullAbove(b)
    BY <2>2 DEF CacheInv, CacheReaches
  <2>5. QED BY <1>9, <2>2, <2>3, <2>4
<1>12. q \notin DOMAIN frothyBlocks'
  <2>1. ~(Number[q] > Number[q])
    BY <1>8
  <2>2. DOMAIN frothyBlocks' = {c \in DOMAIN frothyBlocks : Number[c] > Number[q]}
    BY <1>2
  <2>3. QED BY ONLY <2>1, <2>2
<1>13. ASSUME latestPruned' # NoEntities PROVE FullAbove(q)'
  <2>1. \/ q \in DOMAIN frothyBlocks /\ DOMAIN frothyBlocks[q] # {}
        \/ latestPruned # NoEntities
    BY <1>2, <1>13, LatestPrunedWithDef
  <2>2. FullAbove(q)
    <3>1. CASE q \in DOMAIN frothyBlocks /\ DOMAIN frothyBlocks[q] # {}
      BY <3>1 DEF CacheInv, CacheReaches
    <3>2. CASE latestPruned # NoEntities
      <4>1. FullAbove(Parent[q])
        BY <1>2, <3>2 DEF CacheInv, CacheReaches
      <4>2. SUFFICES ASSUME NEW c \in Rows \ {q}, q \in Chain[c] PROVE Full(c)
        BY DEF FullAbove
      <4>3. Parent[q] \in Blocks /\ Parent[q] \in Chain[q] /\ Number[q] = Number[Parent[q]] + 1
            /\ Number[Parent[q]] \in Nat
        BY <1>2, ParentBelow, ChainDef
      <4>4. c \in Blocks
        BY DEF Rows
      <4>5. Parent[q] \in Chain[c]
        BY <4>2, <4>3, <4>4, ChainOfAncestor
      <4>6. c # Parent[q]
        <5>1. Number[q] <= Number[c]
          BY <4>2, <4>4, ChainBelow
        <5>2. QED BY <4>3, <5>1
      <4>7. QED BY <4>1, <4>5, <4>6 DEF FullAbove
    <3>3. QED BY <2>1, <3>1, <3>2
  <2>3. QED BY <1>2, <1>8, <1>9, <2>2
<1>14. CacheReaches'
  <2>1. latestPruned' # NoEntities => FullAbove(Base)'
    <3>1. \A b : b = Base' /\ FullAbove(b)' => FullAbove(Base)'
      BY DEF FullAbove
    <3>2. QED BY <1>2, <1>13, <3>1
  <2>2. latestCanonical' \notin DOMAIN frothyBlocks' /\ Base' \notin DOMAIN frothyBlocks'
    BY <1>2, <1>12
  <2>3. Trunk(latestCanonical')
    BY <1>2
  <2>4. QED BY ONLY <1>11, <2>1, <2>2, <2>3 DEF CacheReaches, Trunk
<1>15. QED BY <1>4, <1>5, <1>14 DEF CacheInv

LEMMA PruneFrothyCache ==
  ASSUME TypeInv, PruneInv, CacheInv, PruneFrothyEntities, UNCHANGED handlerVars
  PROVE  CacheInv'
<1>1. /\ pruner.step = "frothy" /\ pruner'.step = "idle"
      /\ UNCHANGED <<progress, latestCanonical, table, frothyBlocks, latestPruned, handler, tx>>
      /\ \/ frothy' = {f \in frothy : Number[f.block] > Number[pruner.block]}
         \/ frothy' = frothy
  BY DEF PruneFrothyEntities, IdlePruner, cacheVars, handlerVars
<1>2. pruner.block = latestCanonical
  BY <1>1 DEF PruneInv
<1>3. FrothyInv'
  BY <1>1, <1>2 DEF CacheInv, FrothyInv, CanonicalNumber
<1>4. CacheHolds'
  BY <1>1 DEF CacheInv, CacheHolds, Block
<1>5. Rows' = Rows
  BY <1>1, SameRows
<1>6. \A id, c : HasVersion(id, c)' <=> HasVersion(id, c)
  BY <1>1 DEF HasVersion, Block
<1>7. \A c : Full(c) => Full(c)'
  BY <1>1, <1>6 DEF Full
<1>8. \A c : FullAbove(c) => FullAbove(c)'
  BY <1>5, <1>7 DEF FullAbove
<1>9. Base = latestCanonical /\ Base' = latestCanonical
  BY <1>1 DEF Base
<1>10. CacheReaches'
  <2>1. \A b \in DOMAIN frothyBlocks' : DOMAIN frothyBlocks'[b] # {} => FullAbove(b)'
    BY <1>1, <1>8 DEF CacheInv, CacheReaches
  <2>2. latestCanonical' \notin DOMAIN frothyBlocks'
    BY <1>1 DEF CacheInv, CacheReaches
  <2>3. ASSUME latestPruned' # NoEntities
        PROVE  Trunk(latestCanonical') /\ FullAbove(Base)' /\ Base' \notin DOMAIN frothyBlocks'
    <3>1. Trunk(latestCanonical) /\ FullAbove(Base) /\ Base \notin DOMAIN frothyBlocks
      BY <1>1, <2>3 DEF CacheInv, CacheReaches
    <3>2. PICK c : c = latestCanonical
      OBVIOUS
    <3>3. FullAbove(c)
      BY <1>9, <3>1, <3>2
    <3>4. FullAbove(c)' /\ c = Base'
      BY <1>8, <1>9, <3>2, <3>3
    <3>5. FullAbove(Base)'
      BY <3>4 DEF FullAbove
    <3>6. QED BY <1>1, <1>9, <3>1, <3>5
  <2>4. QED BY ONLY <2>1, <2>2, <2>3 DEF CacheReaches, Trunk
<1>11. QED BY <1>3, <1>4, <1>10 DEF CacheInv

LEMMA StepKeepsCache ==
  ASSUME TypeInv, PruneInv, CacheInv, [Next]_vars
  PROVE  CacheInv'
<1>1. ASSUME NEW b \in Blocks, IndexBlock(b) PROVE CacheInv'
  BY <1>1, IndexBlockCache
<1>2. ASSUME NEW b \in Blocks, IndexBlockAgain(b) PROVE CacheInv'
  BY <1>2, IndexBlockAgainCache
<1>3. ASSUME NEW b \in Blocks, TakeEventsJob(b) PROVE CacheInv'
  <2>1. tx = NoWrites
    BY <1>3, TakeEventsJobTyped
  <2>2. UNCHANGED <<progress, latestCanonical, table, frothy, frothyBlocks, latestPruned, pruner, tx>>
    BY <1>3 DEF TakeEventsJob, storeVars
  <2>3. QED BY <2>1, <2>2, SameRows, StillCache
<1>4. ASSUME NEW b \in Blocks, OnIndexComplete(b), UNCHANGED handlerVars PROVE CacheInv'
  <2>1. UNCHANGED <<progress, latestCanonical, table, frothy, frothyBlocks, latestPruned, pruner, tx,
                    handler>>
    BY <1>4 DEF OnIndexComplete, cacheVars, handlerVars
  <2>2. QED BY <2>1, SameRows, StillCache DEF Block
<1>5. CASE Prune
  <2>1. UNCHANGED handlerVars
    BY <1>5 DEF Prune
  <2>2. QED BY <1>5, <2>1, MarkCache, UpdateCanonicalCache, PruneCachedCache, PruneFrothyCache DEF Prune
<1>6. CASE Handle
  <2>1. CASE Saves
    <3>1. PICK writes : \E step \in {"created", "saved"} : \E position \in Positions :
            Save(writes, step, position) /\ IsEntities(writes) /\ handler.step \in {"call", "got"}
      BY <2>1 DEF Saves
    <3>2. PICK step \in {"created", "saved"}, position \in Positions : Save(writes, step, position)
      BY <3>1
    <3>3. IsEntities(writes) /\ handler.step \in {"call", "got"}
      BY <3>1
    <3>4. QED BY <3>2, <3>3, SaveCache
  <2>2. CASE Commits
    BY <2>2, CommitCache DEF Commits
  <2>3. CASE Reads
    <3>1. UNCHANGED <<progress, latestCanonical, table, frothy, frothyBlocks, latestPruned, pruner, tx>>
      BY <2>3 DEF Reads, storeVars
    <3>2. handler.step \in {"next", "call", "got"}
      BY <2>3 DEF Reads
    <3>3. tx = NoWrites
      BY <3>2, HandlerBusy
    <3>4. QED BY <3>1, <3>3, SameRows, StillCache
  <2>4. CASE Throw
    BY <2>4, ThrowCache
  <2>5. CASE UpdateProgress
    <3>1. /\ tx = NoWrites
          /\ UNCHANGED <<progress, latestCanonical, table, frothyBlocks, latestPruned, pruner, tx>>
      BY <2>5, UpdateProgressCases
    <3>2. frothy' = frothy
      BY <2>5 DEF UpdateProgress
    <3>3. QED BY <3>1, <3>2, SameRows, StillCache
  <2>6. CASE CompleteBlock
    <3>1. /\ handler.step = "next" /\ progress' = [progress EXCEPT ![Block] = "complete"]
          /\ UNCHANGED <<latestCanonical, table, frothy, frothyBlocks, latestPruned, pruner, tx>>
      BY <2>6 DEF CompleteBlock, cacheVars
    <3>2. Block \in Rows /\ tx = NoWrites
      BY <3>1, HandlerBusy
    <3>3. Rows' = Rows
      BY <3>1, <3>2 DEF TypeInv, StoreTyped, Rows
    <3>4. QED BY <3>1, <3>2, <3>3, StillCache
  <2>7. QED BY <1>6, <2>1, <2>2, <2>3, <2>4, <2>5, <2>6, HandleCases
<1>7. CASE Restart
  BY <1>7, RestartCache
<1>8. CASE UNCHANGED vars
  <2>1. UNCHANGED <<progress, latestCanonical, table, frothy, frothyBlocks, latestPruned, pruner, tx,
                    handler>>
    BY <1>8 DEF vars, storeVars, handlerVars
  <2>2. QED BY <2>1, SameRows, StillCache DEF Block
<1>9. QED BY <1>1, <1>2, <1>3, <1>4, <1>5, <1>6, <1>7, <1>8 DEF Next

-----------------------------------------------------------------------------
(* Versions. *)

\* A trunk block has no pruned block on its chain.
LEMMA TrunkNotOff ==
  ASSUME PruneInv, NEW b \in Blocks, Trunk(b)
  PROVE  ~Off(b)
<1>1. \A c \in Chain[b] : Trunk(c)
  BY TrunkChain
<1>2. QED BY <1>1 DEF PruneInv, Off

LEMMA OffBelow ==
  ASSUME NEW b \in Blocks, NEW c \in Chain[b], Off(c)
  PROVE  Off(b)
  BY ChainOfAncestor DEF Off

\* A version read at a block is marked as pruned only if the block is off the chain.
LEMMA FromTableOff ==
  ASSUME StoreTyped, MarkedInv, NEW id, NEW b \in Blocks,
         FromTable(b, id) \in Positions, FromTable(b, id).isPruned
  PROVE  Off(b)
<1> DEFINE Bad == {c \in Blocks : FromTable(c, id) \in Positions /\ FromTable(c, id).isPruned /\ ~Off(c)}
<1>1. ASSUME Bad # {} PROVE FALSE
  <2>1. PICK m \in Bad : \A c \in Bad : Number[m] <= Number[c]
    BY <1>1, LowestBlock
  <2>2. CASE Key(id, m) \in DOMAIN table
    <3>1. FromTable(m, id) = table[Key(id, m)]
      BY <2>1, <2>2, FromTableDef
    <3>2. table[Key(id, m)].isPruned
      BY <2>1, <3>1
    <3>3. Off(Key(id, m).block)
      BY <2>2, <3>2 DEF MarkedInv
    <3>4. QED BY <2>1, <3>3 DEF Key
  <2>3. CASE Key(id, m) \notin DOMAIN table /\ Number[m] > CanonicalNumber
    <3>1. FromTable(Parent[m], id) = FromTable(m, id)
      BY <2>1, <2>3, FromTableDef
    <3>2. m # StartBlock
      BY <2>3, BlockAssumption DEF StoreTyped, CanonicalNumber, Rows
    <3>3. Parent[m] \in Blocks /\ Number[m] = Number[Parent[m]] + 1 /\ Number[Parent[m]] \in Nat
      BY <3>2, ParentBelow
    <3>4. Parent[m] \in Chain[m]
      BY <3>2, <3>3, ChainDef
    <3>5. ~Off(Parent[m])
      BY <2>1, <3>4, OffBelow
    <3>6. Parent[m] \in Bad
      BY <2>1, <3>1, <3>3, <3>5
    <3>7. QED BY <2>1, <3>3, <3>6
  <2>4. CASE Key(id, m) \notin DOMAIN table /\ ~(Number[m] > CanonicalNumber)
    <3>1. FromTable(m, id) = LatestUnpruned(id, Number[m])
      BY <2>1, <2>4, FromTableDef
    <3>2. FromTable(m, id) \in Positions /\ FromTable(m, id).isPruned
      BY <2>1
    <3>3. LatestUnpruned(id, Number[m]) # NoEntity
      BY <3>1, <3>2, NoEntityAssumption
    <3>4. ~LatestUnpruned(id, Number[m]).isPruned
      BY <3>3, LatestUnprunedType
    <3>5. QED BY <3>1, <3>2, <3>4
  <2>5. QED BY <2>2, <2>3, <2>4
<1>2. QED BY <1>1

LEMMA FromCacheOff ==
  ASSUME StoreTyped, MarkedInv, NEW id, NEW b \in Blocks,
         FromCache(b, id) \in Positions, FromCache(b, id).isPruned
  PROVE  Off(b)
<1> DEFINE Bad == {c \in Blocks : FromCache(c, id) \in Positions /\ FromCache(c, id).isPruned /\ ~Off(c)}
<1>1. ASSUME Bad # {} PROVE FALSE
  <2>1. PICK m \in Bad : \A c \in Bad : Number[m] <= Number[c]
    BY <1>1, LowestBlock
  <2>2. CASE m \in DOMAIN frothyBlocks \ {StartBlock}
    <3>1. CASE id \in DOMAIN frothyBlocks[m]
      <4>1. FromCache(m, id) = frothyBlocks[m][id]
        BY <2>1, <2>2, <3>1, FromCacheDef
      <4>2. QED BY <2>1, <2>2, <3>1, <4>1 DEF MarkedInv
    <3>2. CASE id \notin DOMAIN frothyBlocks[m]
      <4>1. FromCache(m, id) = FromCache(Parent[m], id)
        BY <2>1, <2>2, <3>2, FromCacheDef
      <4>2. Parent[m] \in Blocks /\ Number[m] = Number[Parent[m]] + 1 /\ Number[Parent[m]] \in Nat
        BY <2>2, ParentBelow
      <4>3. Parent[m] \in Chain[m]
        BY <2>2, <4>2, ChainDef
      <4>4. ~Off(Parent[m])
        BY <2>1, <4>3, OffBelow
      <4>5. Parent[m] \in Bad
        BY <2>1, <4>1, <4>2, <4>4
      <4>6. QED BY <2>1, <4>2, <4>5
    <3>3. QED BY <3>1, <3>2
  <2>3. CASE m \notin DOMAIN frothyBlocks \ {StartBlock}
    <3>1. FromCache(m, id) = IF id \in DOMAIN latestPruned THEN latestPruned[id]
                             ELSE LatestUnpruned(id, Number[m])
      BY <2>1, <2>3, FromCacheDef
    <3>2. FromCache(m, id) \in Positions /\ FromCache(m, id).isPruned
      BY <2>1
    <3>3. CASE id \in DOMAIN latestPruned
      BY <3>1, <3>2, <3>3 DEF MarkedInv
    <3>4. CASE id \notin DOMAIN latestPruned
      <4>1. FromCache(m, id) = LatestUnpruned(id, Number[m])
        BY <3>1, <3>4
      <4>2. LatestUnpruned(id, Number[m]) # NoEntity
        BY <3>2, <4>1, NoEntityAssumption
      <4>3. ~LatestUnpruned(id, Number[m]).isPruned
        BY <4>2, LatestUnprunedType
      <4>4. QED BY <3>2, <4>1, <4>3
    <3>5. QED BY <3>3, <3>4
  <2>4. QED BY <2>2, <2>3
<1>2. QED BY <1>1

LEMMA GetEntityOff ==
  ASSUME StoreTyped, MarkedInv, NEW id, NEW b \in Blocks,
         GetEntity(b, id) \in Positions, GetEntity(b, id).isPruned
  PROVE  Off(b)
<1>1. GetEntity(b, id) = FromCache(b, id) \/ GetEntity(b, id) = FromTable(b, id)
  BY DEF GetEntity
<1>2. CASE GetEntity(b, id) = FromCache(b, id)
  BY <1>2, FromCacheOff
<1>3. CASE GetEntity(b, id) = FromTable(b, id)
  BY <1>3, FromTableOff
<1>4. QED BY <1>1, <1>2, <1>3

\* What is not dead is neither pruned nor beside the canonical chain.
LEMMA NotDead ==
  ASSUME NEW b \in Blocks, ~Dead(b)
  PROVE  /\ b \notin prunedBlocks /\ ~Off(b)
         /\ \A c \in Chain[b] : Number[c] <= CanonicalNumber => c \in Chain[latestCanonical]
<1>1. b \in Chain[b]
  BY ChainDef
<1>2. QED BY <1>1 DEF Dead, Off

\* A block that waits for its events and is not dead is above the canonical block, on its branch.
LEMMA IncompleteAbove ==
  ASSUME TypeInv, PruneInv, NEW b \in Rows, progress[b] # "complete", ~Dead(b)
  PROVE  /\ b \in Blocks /\ Number[b] > CanonicalNumber /\ latestCanonical \in Chain[b]
         /\ b \notin prunedBlocks /\ ~Off(b)
<1>1. b \in Blocks /\ Number[b] \in Nat
  BY BlockAssumption DEF Rows
<1>2. /\ b \notin prunedBlocks /\ ~Off(b) /\ b \in Chain[b]
      /\ \A c \in Chain[b] : Number[c] <= CanonicalNumber => c \in Chain[latestCanonical]
  BY <1>1, NotDead, ChainDef
<1>3. latestCanonical \in Rows /\ latestCanonical \in Blocks /\ CanonicalNumber \in Nat
  BY RowsFacts DEF TypeInv, StoreTyped
<1>4. Number[b] > CanonicalNumber
  <2>1. SUFFICES ASSUME Number[b] <= CanonicalNumber PROVE FALSE
    BY <1>1, <1>3
  <2>2. b \in Chain[latestCanonical]
    BY <1>2, <2>1
  <2>3. b # latestCanonical
    BY DEF PruneInv
  <2>4. QED BY <1>3, <2>2, <2>3, AncestorsComplete
<1>5. latestCanonical \in Chain[b]
  <2>1. PICK c \in Chain[b] : Number[c] = CanonicalNumber
    BY <1>1, <1>3, <1>4, ChainHasHeight
  <2>2. c \in Chain[latestCanonical]
    BY <1>2, <1>3, <2>1
  <2>3. c = latestCanonical
    BY <1>3, <2>1, <2>2, ChainBelow DEF CanonicalNumber
  <2>4. QED BY <2>3
<1>6. QED BY <1>1, <1>2, <1>4, <1>5

\* The events job that writes in time finds its row as it was when the job began.
LEMMA WriteRowInTime ==
  ASSUME TypeInv, PruneInv, Block \in Blocks, WriteRow(Block, handler.wasPruned), ~late'
  PROVE  ~late /\ ~Dead(Block) /\ prunedBlocks' = prunedBlocks
<1>1. handler.wasPruned \in BOOLEAN
  BY DEF TypeInv, HandlerTyped
<1>2. /\ prunedBlocks' # prunedBlocks => Block \in prunedBlocks
      /\ late' = (late \/ Dead(Block))
  BY <1>1, WriteRowPruned
<1>3. ~late /\ ~Dead(Block)
  BY <1>2
<1>4. Block \notin prunedBlocks
  BY <1>3, NotDead
<1>5. QED BY <1>2, <1>3, <1>4

-----------------------------------------------------------------------------
(* Versions marked as pruned. *)

LEMMA MarkedKept ==
  ASSUME MarkedInv, prunedBlocks' = prunedBlocks, table' = table,
         handler'.position \in Positions /\ handler'.position.isPruned => Off(handler'.block),
         \A id \in DOMAIN tx' : tx'[id].isPruned => Off(handler'.block),
         \A b \in DOMAIN frothyBlocks' : \A id \in DOMAIN frothyBlocks'[b] :
           frothyBlocks'[b][id].isPruned => Off(b),
         \A id \in DOMAIN latestPruned' : ~latestPruned'[id].isPruned
  PROVE  MarkedInv'
<1>1. \A b : Off(b)' <=> Off(b)
  BY DEF Off
<1>2. \A k \in DOMAIN table' : /\ table'[k].isPruned => Off(k.block)'
                               /\ k.block \in prunedBlocks' => table'[k].isPruned
  BY <1>1 DEF MarkedInv
<1>3. /\ handler'.position \in Positions /\ handler'.position.isPruned => Off(Block)'
      /\ \A id \in DOMAIN tx' : tx'[id].isPruned => Off(Block)'
  BY DEF Off, Block
<1>4. \A b \in DOMAIN frothyBlocks' : \A id \in DOMAIN frothyBlocks'[b] :
        frothyBlocks'[b][id].isPruned => Off(b)'
  BY <1>1
<1>5. QED BY <1>2, <1>3, <1>4 DEF MarkedInv

\* A step that leaves the versions and the handler alone, and may begin the cache of a block.
LEMMA StillMarked ==
  ASSUME MarkedInv, UNCHANGED <<prunedBlocks, table>>,
         \/ UNCHANGED <<handler, tx>>
         \/ handler'.position = NoEntity /\ tx' = NoWrites,
         \A b \in DOMAIN frothyBlocks' :
           \/ DOMAIN frothyBlocks'[b] = {}
           \/ b \in DOMAIN frothyBlocks /\ frothyBlocks'[b] = frothyBlocks[b],
         latestPruned' \in {latestPruned, NoEntities}
  PROVE  MarkedInv'
<1>1. DOMAIN NoEntities = {} /\ DOMAIN NoWrites = {}
  BY DEF NoEntities, NoWrites
<1>2. handler'.position \in Positions /\ handler'.position.isPruned => Off(handler'.block)
  BY NoEntityAssumption DEF MarkedInv, Block
<1>3. \A id \in DOMAIN tx' : tx'[id].isPruned => Off(handler'.block)
  BY <1>1 DEF MarkedInv, Block
<1>4. \A b \in DOMAIN frothyBlocks' : \A id \in DOMAIN frothyBlocks'[b] :
        frothyBlocks'[b][id].isPruned => Off(b)
  BY DEF MarkedInv
<1>5. \A id \in DOMAIN latestPruned' : ~latestPruned'[id].isPruned
  BY <1>1 DEF MarkedInv
<1>6. QED BY <1>2, <1>3, <1>4, <1>5, MarkedKept

LEMMA IndexMarked ==
  ASSUME TypeInv, MarkedInv, NEW b, AddFrothyBlock(b), UNCHANGED <<prunedBlocks, table, handler, tx>>
  PROVE  MarkedInv'
<1>1. /\ DOMAIN frothyBlocks' = DOMAIN frothyBlocks \cup {b}
      /\ \A c \in DOMAIN frothyBlocks : frothyBlocks'[c] = frothyBlocks[c]
      /\ b \notin DOMAIN frothyBlocks => frothyBlocks'[b] = NoEntities
      /\ latestPruned' \in {latestPruned, NoEntities}
  BY AddFrothyBlockTyped DEF TypeInv
<1>2. DOMAIN NoEntities = {}
  BY DEF NoEntities
<1>3. QED BY <1>1, <1>2, StillMarked

LEMMA SaveMarked ==
  ASSUME TypeInv, MarkedInv, Saves
  PROVE  MarkedInv'
<1>1. PICK writes : \E step \in {"created", "saved"} : \E position \in Positions :
        /\ Save(writes, step, position) /\ IsEntities(writes)
        /\ handler.step \in {"call", "got"}
        /\ \A id \in DOMAIN writes : writes[id].isPruned => position.isPruned
        /\ position.isPruned => position = handler.position
  BY DEF Saves
<1>2. PICK step \in {"created", "saved"} : \E position \in Positions :
        /\ Save(writes, step, position)
        /\ \A id \in DOMAIN writes : writes[id].isPruned => position.isPruned
        /\ position.isPruned => position = handler.position
  BY <1>1
<1>3. PICK position \in Positions :
        /\ Save(writes, step, position)
        /\ \A id \in DOMAIN writes : writes[id].isPruned => position.isPruned
        /\ position.isPruned => position = handler.position
  BY <1>2
<1>4. UNCHANGED <<prunedBlocks, table, latestPruned>> /\ tx' = writes /\ GoOn(step, position)
      /\ frothyBlocks' = [c \in DOMAIN frothyBlocks |->
                            IF c = Block THEN Over(writes, frothyBlocks[c]) ELSE frothyBlocks[c]]
  BY <1>3 DEF Save, CacheUpdatedEntities
<1>5. handler'.position = position /\ handler'.block = Block
  BY <1>4, GoOnTyped DEF TypeInv, Block, Steps
<1>6. position.isPruned => Off(Block)
  BY <1>3 DEF MarkedInv
<1>7. \A id \in DOMAIN writes : writes[id].isPruned => Off(Block)
  BY <1>3, <1>6
<1>8. ASSUME NEW b \in DOMAIN frothyBlocks', NEW id \in DOMAIN frothyBlocks'[b],
             frothyBlocks'[b][id].isPruned
      PROVE  Off(b)
  <2>1. b \in DOMAIN frothyBlocks
    BY <1>4
  <2>2. \A x \in DOMAIN frothyBlocks[b] : frothyBlocks[b][x].isPruned => Off(b)
    BY <2>1 DEF MarkedInv
  <2>3. CASE b = Block
    <3>1. PICK e : e = frothyBlocks[b]
      OBVIOUS
    <3>2. frothyBlocks'[b] = Over(writes, e)
      BY <1>4, <2>1, <2>3, <3>1
    <3>3. id \in DOMAIN Over(writes, e) /\ Over(writes, e)[id].isPruned
      BY <1>8, <3>2
    <3>4. CASE id \in DOMAIN writes
      <4>1. Over(writes, e)[id] = writes[id]
        BY <3>4 DEF Over
      <4>2. QED BY <1>7, <2>3, <3>3, <3>4, <4>1
    <3>5. CASE id \notin DOMAIN writes
      <4>1. id \in DOMAIN e /\ Over(writes, e)[id] = e[id]
        BY <3>3, <3>5 DEF Over
      <4>2. QED BY <2>2, <3>1, <3>3, <4>1
    <3>6. QED BY <3>4, <3>5
  <2>4. CASE b # Block
    BY <1>4, <1>8, <2>1, <2>2, <2>4
  <2>5. QED BY <2>3, <2>4
<1>9. \A id \in DOMAIN latestPruned' : ~latestPruned'[id].isPruned
  BY <1>4 DEF MarkedInv
<1>10. handler'.position \in Positions /\ handler'.position.isPruned => Off(handler'.block)
  BY <1>5, <1>6
<1>11. \A id \in DOMAIN tx' : tx'[id].isPruned => Off(handler'.block)
  BY <1>4, <1>5, <1>7
<1>12. QED BY <1>4, <1>8, <1>9, <1>10, <1>11, MarkedKept

LEMMA ReadMarked ==
  ASSUME TypeInv, MarkedInv, Reads
  PROVE  MarkedInv'
<1>1. PICK step \in {"call", "got", "update"} : \E position \in Positions \cup {NoEntity} :
        /\ GoOn(step, position) /\ UNCHANGED <<storeVars, tx>>
        /\ handler.step \in {"next", "call", "got"}
        /\ position # NoEntity => position = GetEntity(Block, Event.token)
  BY DEF Reads
<1>2. PICK position \in Positions \cup {NoEntity} :
        /\ GoOn(step, position) /\ UNCHANGED <<storeVars, tx>>
        /\ handler.step \in {"next", "call", "got"}
        /\ position # NoEntity => position = GetEntity(Block, Event.token)
  BY <1>1
<1>3. UNCHANGED <<prunedBlocks, table, frothyBlocks, latestPruned, tx>>
  BY <1>2 DEF storeVars
<1>4. handler'.position = position /\ handler'.block = Block
  BY <1>2, GoOnTyped DEF TypeInv, Block, Steps
<1>5. Block \in Blocks
  BY <1>2, HandlerBusy
<1>6. handler'.position \in Positions /\ handler'.position.isPruned => Off(handler'.block)
  BY <1>2, <1>4, <1>5, NoEntityAssumption, GetEntityOff DEF TypeInv
<1>7. \A id \in DOMAIN tx' : tx'[id].isPruned => Off(handler'.block)
  BY <1>3, <1>4 DEF MarkedInv
<1>8. QED BY <1>3, <1>6, <1>7, MarkedKept DEF MarkedInv

\* What a commit adds belongs to its block.
LEMMA CommitKeys ==
  ASSUME TypeInv, Commits
  PROVE  /\ Block \in Rows /\ Block \in Blocks /\ progress[Block] # "complete"
         /\ UNCHANGED <<progress, prunedBlocks, latestCanonical, frothyBlocks, latestPruned, pruner>>
         /\ late' = (late \/ Dead(Block))
         /\ handler'.block = Block /\ handler'.position = handler.position
         /\ tx' = NoWrites
         /\ \A k \in DOMAIN table' : \/ k.block = Block /\ k.id \in DOMAIN tx /\ table'[k] = tx[k.id]
                                     \/ k \in DOMAIN table /\ table'[k] = table[k]
         /\ \A k \in DOMAIN table : /\ k \in DOMAIN table'
                                    /\ k.block # Block => table'[k] = table[k]
<1>1. PICK step \in {"got", "update"} : Commit(step)
  BY DEF Commits
<1>2. handler.step \in {"created", "saved"}
  BY DEF Commits
<1>3. /\ UNCHANGED <<progress, prunedBlocks, latestCanonical, frothyBlocks, latestPruned, pruner>>
      /\ tx' = NoWrites /\ GoOn(step, handler.position) /\ CommitEntities(Block, tx)
  BY <1>1 DEF Commit, cacheVars
<1>4. /\ Block \in Rows /\ Block \in Blocks /\ lastProcessed[Block] < Len(Events[Block])
      /\ handler.position \in Positions
  BY <1>2, HandlerBusy
<1>5. progress[Block] # "complete"
  <2>1. lastProcessed[Block] \in Nat
    BY <1>4 DEF TypeInv, HandlerTyped
  <2>2. QED BY <1>4, <2>1 DEF TypeInv, ParentsReady
<1>6. handler'.block = Block /\ handler'.position = handler.position
  BY <1>3, <1>4, GoOnTyped DEF TypeInv, Block, Steps
<1>7. late' = (late \/ Dead(Block))
  BY <1>3 DEF CommitEntities
<1>8. /\ \A k : k \in DOMAIN table' <=> k \in DOMAIN table \/ (k.id \in DOMAIN tx /\ k = Key(k.id, Block))
      /\ \A id \in DOMAIN tx : table'[Key(id, Block)] = tx[id]
      /\ \A k \in DOMAIN table : ~(k.id \in DOMAIN tx /\ k = Key(k.id, Block)) => table'[k] = table[k]
  BY <1>3, <1>4, CommitTable
<1>9. ASSUME NEW k \in DOMAIN table'
      PROVE  \/ k.block = Block /\ k.id \in DOMAIN tx /\ table'[k] = tx[k.id]
             \/ k \in DOMAIN table /\ table'[k] = table[k]
  <2>1. CASE k.id \in DOMAIN tx /\ k = Key(k.id, Block)
    <3>1. k.block = Block
      BY <2>1 DEF Key
    <3>2. QED BY <1>8, <2>1, <3>1
  <2>2. CASE ~(k.id \in DOMAIN tx /\ k = Key(k.id, Block))
    BY <1>8, <2>2
  <2>3. QED BY <2>1, <2>2
<1>10. ASSUME NEW k \in DOMAIN table
       PROVE  k \in DOMAIN table' /\ (k.block # Block => table'[k] = table[k])
  <2>1. k = Key(k.id, Block) => k.block = Block
    BY DEF Key
  <2>2. QED BY <1>8, <2>1
<1>11. QED BY ONLY <1>3, <1>4, <1>5, <1>6, <1>7, <1>9, <1>10

LEMMA CommitMarked ==
  ASSUME TypeInv, MarkedInv, Commits, ~late'
  PROVE  MarkedInv'
<1>1. /\ Block \in Blocks
      /\ UNCHANGED <<prunedBlocks, frothyBlocks, latestPruned>>
      /\ late' = (late \/ Dead(Block))
      /\ handler'.block = Block /\ handler'.position = handler.position
      /\ tx' = NoWrites
      /\ \A k \in DOMAIN table' : \/ k.block = Block /\ k.id \in DOMAIN tx /\ table'[k] = tx[k.id]
                                  \/ k \in DOMAIN table /\ table'[k] = table[k]
  BY CommitKeys
<1>2. Block \notin prunedBlocks
  BY <1>1, NotDead
<1>3. \A b : Off(b)' <=> Off(b)
  BY <1>1 DEF Off
<1>4. ASSUME NEW k \in DOMAIN table'
      PROVE  (table'[k].isPruned => Off(k.block)') /\ (k.block \in prunedBlocks' => table'[k].isPruned)
  <2>1. CASE k.block = Block /\ k.id \in DOMAIN tx /\ table'[k] = tx[k.id]
    <3>1. tx[k.id].isPruned => Off(Block)
      BY <2>1 DEF MarkedInv
    <3>2. table'[k].isPruned => Off(k.block)
      BY <2>1, <3>1, Zenon
    <3>3. QED BY <1>1, <1>2, <1>3, <2>1, <3>2
  <2>2. CASE k \in DOMAIN table /\ table'[k] = table[k]
    BY <1>1, <1>3, <2>2 DEF MarkedInv
  <2>3. QED BY <1>1, <2>1, <2>2
<1>5. DOMAIN tx' = {}
  BY <1>1 DEF NoWrites
<1>6. handler'.position \in Positions /\ handler'.position.isPruned => Off(Block)'
  BY <1>1, <1>3 DEF MarkedInv, Block, Off
<1>7. \A b \in DOMAIN frothyBlocks' : \A id \in DOMAIN frothyBlocks'[b] :
        frothyBlocks'[b][id].isPruned => Off(b)'
  BY <1>1, <1>3 DEF MarkedInv
<1>8. \A id \in DOMAIN latestPruned' : ~latestPruned'[id].isPruned
  BY <1>1 DEF MarkedInv
<1>9. QED BY ONLY <1>4, <1>5, <1>6, <1>7, <1>8 DEF MarkedInv

LEMMA MarkMarked ==
  ASSUME TypeInv, MarkedInv, FrothyInv, NEW a \in Blocks, MarkBlocksAsPruned(a), UNCHANGED handlerVars
  PROVE  MarkedInv'
<1>1. PICK S : S = UnprunedAt(CanonicalNumber + 1) \ {a}
  OBVIOUS
<1>2. /\ prunedBlocks' = prunedBlocks \cup S /\ table' = PruneEntities(S)
      /\ UNCHANGED <<frothyBlocks, latestPruned, handler, tx>>
  BY <1>1 DEF MarkBlocksAsPruned, cacheVars, handlerVars
<1>3. \A b \in S : b \in Blocks /\ Number[b] = CanonicalNumber + 1
  BY <1>1 DEF UnprunedAt, Rows
<1>4. CanonicalNumber \in Nat
  BY RowsFacts DEF TypeInv
<1>5. /\ DOMAIN table' = DOMAIN table
      /\ \A k \in DOMAIN table :
           table'[k].isPruned <=> table[k].isPruned \/ (k.block \in S /\ k \in frothy)
  BY <1>2, PruneEntitiesTyped DEF TypeInv
<1>6. \A b : Off(b) => Off(b)'
  BY <1>2 DEF Off
<1>7. ASSUME NEW k \in DOMAIN table'
      PROVE  (table'[k].isPruned => Off(k.block)') /\ (k.block \in prunedBlocks' => table'[k].isPruned)
  <2>1. k.block \in Blocks
    BY <1>5 DEF TypeInv, StoreTyped, Rows
  <2>2. k.block \in S => k \in frothy
    BY <1>3, <1>4, <1>5 DEF FrothyInv
  <2>3. k.block \in S => Off(k.block)'
    BY <1>2, <2>1, ChainDef DEF Off
  <2>4. /\ table[k].isPruned => Off(k.block)
        /\ k.block \in prunedBlocks => table[k].isPruned
    BY <1>5 DEF MarkedInv
  <2>5. table'[k].isPruned <=> table[k].isPruned \/ (k.block \in S /\ k \in frothy)
    BY <1>5
  <2>6. k.block \in prunedBlocks' <=> k.block \in prunedBlocks \/ k.block \in S
    BY <1>2
  <2>7. Off(k.block) => Off(k.block)'
    BY <1>6
  <2>8. QED BY ONLY <2>2, <2>3, <2>4, <2>5, <2>6, <2>7, Zenon
<1>8. handler'.position \in Positions /\ handler'.position.isPruned => Off(Block)'
  BY <1>2 DEF MarkedInv, Block, Off
<1>9. \A id \in DOMAIN tx' : tx'[id].isPruned => Off(Block)'
  BY <1>2 DEF MarkedInv, Block, Off
<1>10. \A b \in DOMAIN frothyBlocks' : \A id \in DOMAIN frothyBlocks'[b] :
         frothyBlocks'[b][id].isPruned => Off(b)'
  BY <1>2, <1>6 DEF MarkedInv
<1>11. \A id \in DOMAIN latestPruned' : ~latestPruned'[id].isPruned
  BY <1>2 DEF MarkedInv
<1>12. QED BY ONLY <1>7, <1>8, <1>9, <1>10, <1>11 DEF MarkedInv

LEMMA PruneCachedMarked ==
  ASSUME TypeInv, PruneInv, MarkedInv, PruneCachedEntities, UNCHANGED handlerVars
  PROVE  MarkedInv'
<1>1. PICK q : q = latestCanonical
  OBVIOUS
<1>2. /\ q \in Blocks /\ Trunk(q)
      /\ UNCHANGED <<prunedBlocks, table, handler, tx>>
      /\ latestPruned' = LatestPrunedWith(q)
      /\ DOMAIN frothyBlocks' \subseteq DOMAIN frothyBlocks
      /\ \A c \in DOMAIN frothyBlocks' : frothyBlocks'[c] = frothyBlocks[c]
  BY <1>1, PruneCachedCases
<1>3. ~Off(q)
  BY <1>2, TrunkNotOff
<1>4. ASSUME NEW id \in DOMAIN latestPruned' PROVE ~latestPruned'[id].isPruned
  <2>1. \/ /\ q \in DOMAIN frothyBlocks /\ id \in DOMAIN frothyBlocks[q]
           /\ latestPruned'[id] = frothyBlocks[q][id]
        \/ id \in DOMAIN latestPruned /\ latestPruned'[id] = latestPruned[id]
    BY <1>2, LatestPrunedWithDef
  <2>2. q \in DOMAIN frothyBlocks /\ id \in DOMAIN frothyBlocks[q] => ~frothyBlocks[q][id].isPruned
    BY <1>3 DEF MarkedInv
  <2>3. id \in DOMAIN latestPruned => ~latestPruned[id].isPruned
    BY DEF MarkedInv
  <2>4. QED BY <2>1, <2>2, <2>3
<1>5. \A b \in DOMAIN frothyBlocks' : \A id \in DOMAIN frothyBlocks'[b] :
        frothyBlocks'[b][id].isPruned => Off(b)
  BY <1>2 DEF MarkedInv
<1>6. handler'.position \in Positions /\ handler'.position.isPruned => Off(handler'.block)
  BY <1>2 DEF MarkedInv, Block
<1>7. \A id \in DOMAIN tx' : tx'[id].isPruned => Off(handler'.block)
  BY <1>2 DEF MarkedInv, Block
<1>8. QED BY <1>2, <1>4, <1>5, <1>6, <1>7, MarkedKept

LEMMA RestartMarked ==
  ASSUME TypeInv, MarkedInv, Restart
  PROVE  MarkedInv'
<1>1. PICK n \in Nat :
        /\ prunedBlocks' = {b \in prunedBlocks : Number[b] <= n}
        /\ table' = [k \in {l \in DOMAIN table : Number[l.block] <= n} |-> table[k]]
        /\ frothyBlocks' = <<>> /\ latestPruned' = NoEntities
        /\ handler' = IdleHandler /\ tx' = NoWrites
  BY RestartCases
<1>2. ASSUME NEW k \in DOMAIN table'
      PROVE  (table'[k].isPruned => Off(k.block)') /\ (k.block \in prunedBlocks' => table'[k].isPruned)
  <2>1. k \in DOMAIN table /\ Number[k.block] <= n /\ table'[k] = table[k] /\ k.block \in Blocks
    BY <1>1 DEF TypeInv, StoreTyped, Rows
  <2>2. \A c \in Chain[k.block] : Number[c] <= n
    <3>1. \A c \in Chain[k.block] :
            Number[c] \in Nat /\ Number[k.block] \in Nat /\ Number[c] <= Number[k.block]
      BY <2>1, ChainBelow
    <3>2. QED BY <1>1, <2>1, <3>1
  <2>3. Off(k.block) => Off(k.block)'
    BY <1>1, <2>2 DEF Off
  <2>4. /\ table[k].isPruned => Off(k.block)
        /\ k.block \in prunedBlocks => table[k].isPruned
    BY <2>1 DEF MarkedInv
  <2>5. QED BY <1>1, <2>1, <2>3, <2>4
<1>3. handler'.position = NoEntity /\ DOMAIN tx' = {} /\ DOMAIN frothyBlocks' = {}
      /\ DOMAIN latestPruned' = {}
  BY <1>1 DEF IdleHandler, NoWrites, NoEntities
<1>4. QED BY ONLY <1>2, <1>3, NoEntityAssumption DEF MarkedInv

\* The steps of the job runner, by what they do to versions.
LEMMA StepCases ==
  ASSUME TypeInv, PruneInv, [Next]_vars
  PROVE  \/ \E b \in Blocks : IndexBlock(b) \/ IndexBlockAgain(b)
         \/ \E b \in Blocks : TakeEventsJob(b)
         \/ \E a \in Blocks : MarkBlocksAsPruned(a) /\ UNCHANGED handlerVars
         \/ UpdateCanonicalBlock /\ UNCHANGED handlerVars
         \/ PruneCachedEntities /\ UNCHANGED handlerVars
         \/ PruneFrothyEntities /\ UNCHANGED handlerVars
         \/ Saves \/ Commits \/ Reads \/ Throw \/ UpdateProgress \/ CompleteBlock
         \/ Restart
         \/ UNCHANGED <<progress, prunedBlocks, latestCanonical, table, frothy, frothyBlocks,
                        latestPruned, pruner, late, handler, tx>>
<1>1. ASSUME NEW b \in Blocks, OnIndexComplete(b), UNCHANGED handlerVars
      PROVE  UNCHANGED <<progress, prunedBlocks, latestCanonical, table, frothy, frothyBlocks,
                         latestPruned, pruner, late, handler, tx>>
  BY <1>1 DEF OnIndexComplete, cacheVars, handlerVars
<1>2. ASSUME UNCHANGED vars
      PROVE  UNCHANGED <<progress, prunedBlocks, latestCanonical, table, frothy, frothyBlocks,
                         latestPruned, pruner, late, handler, tx>>
  BY <1>2 DEF vars, storeVars, handlerVars
<1>3. Handle => Saves \/ Commits \/ Reads \/ Throw \/ UpdateProgress \/ CompleteBlock
  BY HandleCases
<1>4. CASE \E b \in Blocks : OnIndexComplete(b) /\ UNCHANGED handlerVars
  BY <1>1, <1>4
<1>5. CASE Handle
  BY <1>3, <1>5
<1>6. CASE Prune
  BY <1>6 DEF Prune
<1>7. CASE UNCHANGED vars
  BY <1>2, <1>7
<1>8. QED BY <1>4, <1>5, <1>6, <1>7 DEF Next

\* The row is written, or not, and no version is touched.
LEMMA WriteCases ==
  ASSUME TypeInv, PruneInv, UpdateProgress \/ CompleteBlock, ~late'
  PROVE  /\ ~late /\ tx = NoWrites /\ tx' = NoWrites /\ handler'.position = NoEntity
         /\ UNCHANGED <<prunedBlocks, latestCanonical, table, frothyBlocks, latestPruned, pruner>>
         /\ Rows' = Rows
<1>1. CASE UpdateProgress
  <2>1. /\ Block \in Blocks /\ tx = NoWrites
        /\ UNCHANGED <<progress, latestCanonical, table, frothyBlocks, latestPruned, pruner, tx>>
        /\ \/ /\ WriteRow(Block, handler.wasPruned)
              /\ handler' = [handler EXCEPT !.step = "next", !.position = NoEntity]
           \/ handler' = IdleHandler /\ UNCHANGED <<prunedBlocks, late>>
    BY <1>1, UpdateProgressCases
  <2>2. handler \in Handlers
    BY DEF TypeInv, HandlerTyped, Handlers, Steps
  <2>3. handler'.position = NoEntity
    <3>1. CASE handler' = [handler EXCEPT !.step = "next", !.position = NoEntity]
      BY <2>2, <3>1 DEF Handlers
    <3>2. CASE handler' = IdleHandler
      BY <3>2 DEF IdleHandler
    <3>3. QED BY <2>1, <3>1, <3>2
  <2>4. ~late /\ prunedBlocks' = prunedBlocks
    BY <2>1, WriteRowInTime
  <2>5. QED BY <2>1, <2>3, <2>4, SameRows
<1>2. CASE CompleteBlock
  <2>1. /\ handler.step = "next" /\ progress' = [progress EXCEPT ![Block] = "complete"]
        /\ WriteRow(Block, handler.wasPruned) /\ handler' = IdleHandler
        /\ UNCHANGED <<latestCanonical, table, frothyBlocks, latestPruned, pruner, tx>>
    BY <1>2 DEF CompleteBlock, cacheVars
  <2>2. Block \in Rows /\ Block \in Blocks /\ tx = NoWrites
    BY <2>1, HandlerBusy
  <2>3. ~late /\ prunedBlocks' = prunedBlocks
    BY <2>1, <2>2, WriteRowInTime
  <2>4. Rows' = Rows
    BY <2>1, <2>2 DEF TypeInv, StoreTyped, Rows
  <2>5. handler'.position = NoEntity
    BY <2>1 DEF IdleHandler
  <2>6. QED BY <2>1, <2>2, <2>3, <2>4, <2>5
<1>3. QED BY <1>1, <1>2

\* Whether a step is late is never forgotten.
LEMMA StaysLate ==
  ASSUME TypeInv, PruneInv, [Next]_vars, ~late'
  PROVE  ~late
<1>1. ASSUME NEW b \in Blocks, IndexBlock(b) \/ IndexBlockAgain(b) PROVE ~late
  BY <1>1 DEF IndexBlock, SaveBlock, IndexBlockAgain, IndexAgain
<1>2. ASSUME NEW b \in Blocks, TakeEventsJob(b) PROVE ~late
  BY <1>2 DEF TakeEventsJob, storeVars
<1>3. ASSUME NEW a \in Blocks, MarkBlocksAsPruned(a) PROVE ~late
  BY <1>3 DEF MarkBlocksAsPruned
<1>4. UpdateCanonicalBlock \/ PruneCachedEntities \/ PruneFrothyEntities => ~late
  BY DEF UpdateCanonicalBlock, PruneCachedEntities, PruneFrothyEntities
<1>5. Saves => ~late
  BY DEF Saves, Save
<1>6. Commits => ~late
  BY CommitKeys
<1>7. Reads => ~late
  BY DEF Reads, storeVars
<1>8. Throw => ~late
  BY DEF Throw
<1>9. UpdateProgress \/ CompleteBlock => ~late
  BY WriteCases
<1>10. Restart => ~late
  BY DEF Restart, ResetStore
<1>11. QED BY ONLY <1>1, <1>2, <1>3, <1>4, <1>5, <1>6, <1>7, <1>8, <1>9, <1>10, ~late', StepCases,
       TypeInv, PruneInv, [Next]_vars

LEMMA StepKeepsMarked ==
  ASSUME TypeInv, PruneInv, CacheInv, MarkedInv, [Next]_vars, ~late'
  PROVE  MarkedInv'
<1>1. ASSUME NEW b \in Blocks, IndexBlock(b) PROVE MarkedInv'
  <2>1. AddFrothyBlock(b) /\ UNCHANGED <<prunedBlocks, table, handler, tx>>
    BY <1>1 DEF IndexBlock, SaveBlock, PushEventsJob
  <2>2. QED BY <2>1, IndexMarked
<1>2. ASSUME NEW b \in Blocks, IndexBlockAgain(b) PROVE MarkedInv'
  <2>1. AddFrothyBlock(RowFound(b)) /\ UNCHANGED <<prunedBlocks, table, handler, tx>>
    BY <1>2 DEF IndexBlockAgain, IndexAgain, PushEventsJob
  <2>2. QED BY <2>1, IndexMarked
<1>3. ASSUME NEW b \in Blocks, TakeEventsJob(b) PROVE MarkedInv'
  <2>1. tx = NoWrites /\ handler'.position = NoEntity
    BY <1>3, TakeEventsJobTyped
  <2>2. UNCHANGED <<prunedBlocks, table, frothyBlocks, latestPruned, tx>>
    BY <1>3 DEF TakeEventsJob, storeVars
  <2>3. QED BY <2>1, <2>2, StillMarked
<1>4. ASSUME NEW a \in Blocks, MarkBlocksAsPruned(a), UNCHANGED handlerVars PROVE MarkedInv'
  BY <1>4, MarkMarked DEF CacheInv
<1>5. UpdateCanonicalBlock /\ UNCHANGED handlerVars => MarkedInv'
  <2>1. SUFFICES ASSUME UpdateCanonicalBlock, UNCHANGED handlerVars PROVE MarkedInv'
    OBVIOUS
  <2>2. UNCHANGED <<prunedBlocks, table, frothyBlocks, latestPruned, handler, tx>>
    BY <2>1 DEF UpdateCanonicalBlock, cacheVars, handlerVars
  <2>3. QED BY <2>2, StillMarked
<1>6. PruneCachedEntities /\ UNCHANGED handlerVars => MarkedInv'
  BY PruneCachedMarked
<1>7. PruneFrothyEntities /\ UNCHANGED handlerVars => MarkedInv'
  <2>1. SUFFICES ASSUME PruneFrothyEntities, UNCHANGED handlerVars PROVE MarkedInv'
    OBVIOUS
  <2>2. UNCHANGED <<prunedBlocks, table, frothyBlocks, latestPruned, handler, tx>>
    BY <2>1 DEF PruneFrothyEntities, cacheVars, handlerVars
  <2>3. QED BY <2>2, StillMarked
<1>8. Saves => MarkedInv'
  BY SaveMarked
<1>9. Commits => MarkedInv'
  BY CommitMarked
<1>10. Reads => MarkedInv'
  BY ReadMarked
<1>11. Throw => MarkedInv'
  <2>1. SUFFICES ASSUME Throw PROVE MarkedInv'
    OBVIOUS
  <2>2. /\ UNCHANGED <<prunedBlocks, table>> /\ handler' = IdleHandler /\ tx' = NoWrites
        /\ frothyBlocks' = <<>> /\ latestPruned' = NoEntities
    BY <2>1 DEF Throw, Retry, ClearCachedEntities
  <2>3. handler'.position = NoEntity /\ DOMAIN frothyBlocks' = {}
    BY <2>2 DEF IdleHandler
  <2>4. QED BY <2>2, <2>3, StillMarked
<1>12. UpdateProgress \/ CompleteBlock => MarkedInv'
  BY WriteCases, StillMarked
<1>13. Restart => MarkedInv'
  BY RestartMarked
<1>14. UNCHANGED <<prunedBlocks, table, frothyBlocks, latestPruned, handler, tx>> => MarkedInv'
  BY StillMarked
<1>15. QED BY ONLY <1>1, <1>2, <1>3, <1>4, <1>5, <1>6, <1>7, <1>8, <1>9, <1>10, <1>11, <1>12, <1>13,
       <1>14, StepCases, TypeInv, PruneInv, [Next]_vars

-----------------------------------------------------------------------------
(* One version not pruned at the canonical height. *)

LEMMA StillOneVersion ==
  ASSUME OneVersionInv, table' = table, latestCanonical' = latestCanonical,
         latestPruned' \in {latestPruned, NoEntities}, pruner' = pruner,
         prunedBlocks' = prunedBlocks, pruner.step # "status" \/ Rows' = Rows
  PROVE  OneVersionInv'
<1>1. \A n, b : OnlyOf(n, b) => OnlyOf(n, b)'
  BY DEF OnlyOf
<1>2. PICK n, c, p : n = CanonicalNumber /\ c = latestCanonical /\ p = pruner.block
  OBVIOUS
<1>3. n = CanonicalNumber' /\ c = latestCanonical' /\ p = pruner'.block
  BY <1>2 DEF CanonicalNumber
<1>4. pruner.step = "status" =>
        /\ \A b \in Rows \ {p} : Number[b] = n + 1 => b \in prunedBlocks
        /\ OnlyOf(n + 1, p)
  BY <1>2 DEF OneVersionInv
<1>5. pruner.step = "cache" \/ latestPruned # NoEntities => OnlyOf(n, c)
  BY <1>2 DEF OneVersionInv
<1>6. pruner'.step = "status" =>
        /\ \A b \in Rows' \ {p} : Number[b] = n + 1 => b \in prunedBlocks'
        /\ OnlyOf(n + 1, p)'
  BY <1>1, <1>4
<1>7. pruner'.step = "cache" \/ latestPruned' # NoEntities => OnlyOf(n, c)'
  BY <1>1, <1>5
<1>8. QED BY ONLY <1>3, <1>6, <1>7 DEF OneVersionInv, OnlyOf

\* What is committed in time is above the canonical block, and not at the height being pruned.
LEMMA CommitOneVersion ==
  ASSUME TypeInv, PruneInv, OneVersionInv, Commits, ~late'
  PROVE  OneVersionInv'
<1>1. /\ Block \in Rows /\ Block \in Blocks /\ progress[Block] # "complete"
      /\ UNCHANGED <<progress, prunedBlocks, latestCanonical, latestPruned, pruner>>
      /\ late' = (late \/ Dead(Block))
      /\ \A k \in DOMAIN table' : \/ k.block = Block
                                  \/ k \in DOMAIN table /\ table'[k] = table[k]
  BY CommitKeys
<1>2. ~Dead(Block)
  BY <1>1
<1>3. Number[Block] > CanonicalNumber /\ Block \notin prunedBlocks
  BY <1>1, <1>2, IncompleteAbove
<1>4. PICK n, c, p, b : n = CanonicalNumber /\ c = latestCanonical /\ p = pruner.block /\ b = Block
  OBVIOUS
<1>5. n = CanonicalNumber' /\ c = latestCanonical' /\ p = pruner'.block /\ Rows' = Rows
  BY <1>1, <1>4, SameRows DEF CanonicalNumber
<1>6. n \in Nat /\ Number[b] \in Nat /\ Number[b] > n
  BY <1>1, <1>3, <1>4, RowsFacts, BlockAssumption DEF TypeInv
<1>7. pruner.step = "status" =>
        /\ \A d \in Rows \ {p} : Number[d] = n + 1 => d \in prunedBlocks
        /\ OnlyOf(n + 1, p)
  BY <1>4 DEF OneVersionInv
<1>8. pruner.step = "cache" \/ latestPruned # NoEntities => OnlyOf(n, c)
  BY <1>4 DEF OneVersionInv
<1>9. pruner.step = "status" => Number[b] # n + 1
  <2>1. SUFFICES ASSUME pruner.step = "status", Number[b] = n + 1 PROVE FALSE
    OBVIOUS
  <2>2. progress[p] = "complete"
    BY <1>4, <2>1 DEF PruneInv
  <2>3. b \in Rows /\ b # p /\ b \notin prunedBlocks
    BY <1>1, <1>3, <1>4, <2>2
  <2>4. QED BY <1>7, <2>1, <2>3
<1>10. \A m, d : OnlyOf(m, d) /\ Number[b] # m => OnlyOf(m, d)'
  BY <1>1, <1>4 DEF OnlyOf
<1>11. pruner'.step = "status" =>
         /\ \A d \in Rows' \ {p} : Number[d] = n + 1 => d \in prunedBlocks'
         /\ OnlyOf(n + 1, p)'
  BY <1>1, <1>5, <1>7, <1>9, <1>10
<1>12. pruner'.step = "cache" \/ latestPruned' # NoEntities => OnlyOf(n, c)'
  <2>1. Number[b] # n
    BY <1>6
  <2>2. QED BY <1>1, <1>8, <1>10, <2>1
<1>13. QED BY ONLY <1>5, <1>11, <1>12 DEF OneVersionInv, OnlyOf

LEMMA MarkOneVersion ==
  ASSUME TypeInv, PruneInv, OneVersionInv, MarkedInv', NEW a \in Blocks, MarkBlocksAsPruned(a)
  PROVE  OneVersionInv'
<1>1. /\ Number[a] = CanonicalNumber + 1
      /\ \A b \in Rows : Number[b] = Number[a] => b = a \/ b \in prunedBlocks'
  BY MarkedOnTrunk
<1>2. /\ pruner.step = "idle" /\ pruner'.step = "status" /\ pruner'.block = a
      /\ UNCHANGED <<progress, latestCanonical, latestPruned>>
  BY DEF MarkBlocksAsPruned, cacheVars
<1>3. PICK S : table' = PruneEntities(S)
  BY DEF MarkBlocksAsPruned
<1>4. /\ DOMAIN table' = DOMAIN table
      /\ \A k \in DOMAIN table : table[k].isPruned => table'[k].isPruned
  BY <1>3, PruneEntitiesTyped DEF TypeInv
<1>5. PICK n, c : n = CanonicalNumber /\ c = latestCanonical
  OBVIOUS
<1>6. n = CanonicalNumber' /\ c = latestCanonical' /\ Rows' = Rows
  BY <1>2, <1>5, SameRows DEF CanonicalNumber
<1>7. \A b \in Rows' \ {a} : Number[b] = n + 1 => b \in prunedBlocks'
  BY <1>1, <1>5, <1>6
<1>8. OnlyOf(n + 1, a)'
  <2>1. SUFFICES ASSUME NEW k \in DOMAIN table', Number[k.block] = n + 1, ~table'[k].isPruned
                 PROVE  k.block = a
    BY DEF OnlyOf
  <2>2. k.block \in Rows
    BY <1>4 DEF TypeInv, StoreTyped
  <2>3. k.block \notin prunedBlocks'
    BY <2>1 DEF MarkedInv
  <2>4. QED BY <1>6, <1>7, <2>1, <2>2, <2>3
<1>9. latestPruned # NoEntities => OnlyOf(n, c)
  BY <1>5 DEF OneVersionInv
<1>10. OnlyOf(n, c) => OnlyOf(n, c)'
  BY <1>4 DEF OnlyOf
<1>11. pruner'.step = "cache" \/ latestPruned' # NoEntities => OnlyOf(n, c)'
  BY <1>2, <1>9, <1>10
<1>12. QED BY ONLY <1>2, <1>6, <1>7, <1>8, <1>11 DEF OneVersionInv, OnlyOf

LEMMA UpdateCanonicalOneVersion ==
  ASSUME TypeInv, PruneInv, OneVersionInv, UpdateCanonicalBlock
  PROVE  OneVersionInv'
<1>1. /\ pruner.step = "status" /\ latestCanonical' = pruner.block
      /\ pruner' = [pruner EXCEPT !.step = "cache"] /\ table' = table
  BY DEF UpdateCanonicalBlock
<1>2. pruner'.step = "cache"
  BY <1>1 DEF TypeInv, StoreTyped
<1>3. PICK n, p : n = CanonicalNumber + 1 /\ p = pruner.block
  OBVIOUS
<1>4. OnlyOf(n, p)
  BY <1>1, <1>3 DEF OneVersionInv
<1>5. OnlyOf(n, p)'
  BY <1>1, <1>4 DEF OnlyOf
<1>6. n = CanonicalNumber' /\ p = latestCanonical'
  BY <1>1, <1>3 DEF PruneInv, CanonicalNumber
<1>7. QED BY ONLY <1>2, <1>5, <1>6 DEF OneVersionInv, OnlyOf

LEMMA PruneCachedOneVersion ==
  ASSUME TypeInv, PruneInv, OneVersionInv, PruneCachedEntities, UNCHANGED handlerVars
  PROVE  OneVersionInv'
<1>1. /\ pruner.step = "cache" /\ pruner'.step = "frothy"
      /\ UNCHANGED <<latestCanonical, table>>
  BY PruneCachedCases
<1>2. PICK n, c : n = CanonicalNumber /\ c = latestCanonical
  OBVIOUS
<1>3. OnlyOf(n, c)
  BY <1>1, <1>2 DEF OneVersionInv
<1>4. OnlyOf(n, c)'
  BY <1>1, <1>3 DEF OnlyOf
<1>5. n = CanonicalNumber' /\ c = latestCanonical'
  BY <1>1, <1>2 DEF CanonicalNumber
<1>6. QED BY ONLY <1>1, <1>4, <1>5 DEF OneVersionInv, OnlyOf

LEMMA PruneFrothyOneVersion ==
  ASSUME OneVersionInv, PruneFrothyEntities
  PROVE  OneVersionInv'
<1>1. /\ pruner'.step = "idle"
      /\ UNCHANGED <<latestCanonical, table, latestPruned>>
  BY DEF PruneFrothyEntities, IdlePruner, cacheVars
<1>2. PICK n, c : n = CanonicalNumber /\ c = latestCanonical
  OBVIOUS
<1>3. latestPruned # NoEntities => OnlyOf(n, c)
  BY <1>2 DEF OneVersionInv
<1>4. OnlyOf(n, c) => OnlyOf(n, c)'
  BY <1>1 DEF OnlyOf
<1>5. n = CanonicalNumber' /\ c = latestCanonical'
  BY <1>1, <1>2 DEF CanonicalNumber
<1>6. latestPruned' # NoEntities => OnlyOf(n, c)'
  BY <1>1, <1>3, <1>4
<1>7. QED BY ONLY <1>1, <1>5, <1>6 DEF OneVersionInv, OnlyOf

LEMMA StepKeepsOneVersion ==
  ASSUME TypeInv, PruneInv, OneVersionInv, MarkedInv', [Next]_vars, ~late'
  PROVE  OneVersionInv'
<1>1. ASSUME NEW b \in Blocks, IndexBlock(b) \/ IndexBlockAgain(b) PROVE OneVersionInv'
  <2>1. PICK r : AddFrothyBlock(r)
    BY <1>1 DEF IndexBlock, SaveBlock, IndexBlockAgain, IndexAgain
  <2>2. /\ UNCHANGED <<prunedBlocks, table, latestCanonical, pruner>>
        /\ pruner.step # "status"
    BY <1>1 DEF IndexBlock, SaveBlock, IndexBlockAgain, IndexAgain, TakeIndexJob
  <2>3. latestPruned' \in {latestPruned, NoEntities}
    BY <2>1 DEF AddFrothyBlock
  <2>4. QED BY <2>2, <2>3, StillOneVersion
<1>2. ASSUME NEW b \in Blocks, TakeEventsJob(b) PROVE OneVersionInv'
  <2>1. UNCHANGED <<progress, prunedBlocks, table, latestCanonical, latestPruned, pruner>>
    BY <1>2 DEF TakeEventsJob, storeVars
  <2>2. QED BY <2>1, SameRows, StillOneVersion
<1>3. ASSUME NEW a \in Blocks, MarkBlocksAsPruned(a) PROVE OneVersionInv'
  BY <1>3, MarkOneVersion
<1>4. UpdateCanonicalBlock => OneVersionInv'
  BY UpdateCanonicalOneVersion
<1>5. PruneCachedEntities /\ UNCHANGED handlerVars => OneVersionInv'
  BY PruneCachedOneVersion
<1>6. PruneFrothyEntities => OneVersionInv'
  BY PruneFrothyOneVersion
<1>7. Saves => OneVersionInv'
  <2>1. SUFFICES ASSUME Saves PROVE OneVersionInv'
    OBVIOUS
  <2>2. UNCHANGED <<progress, prunedBlocks, table, latestCanonical, latestPruned, pruner>>
    BY <2>1 DEF Saves, Save, CacheUpdatedEntities
  <2>3. QED BY <2>2, SameRows, StillOneVersion
<1>8. Commits => OneVersionInv'
  BY CommitOneVersion
<1>9. Reads => OneVersionInv'
  <2>1. SUFFICES ASSUME Reads PROVE OneVersionInv'
    OBVIOUS
  <2>2. UNCHANGED <<progress, prunedBlocks, table, latestCanonical, latestPruned, pruner>>
    BY <2>1 DEF Reads, storeVars
  <2>3. QED BY <2>2, SameRows, StillOneVersion
<1>10. Throw => OneVersionInv'
  <2>1. SUFFICES ASSUME Throw PROVE OneVersionInv'
    OBVIOUS
  <2>2. /\ UNCHANGED <<progress, prunedBlocks, table, latestCanonical, pruner>>
        /\ latestPruned' = NoEntities
    BY <2>1 DEF Throw, ClearCachedEntities
  <2>3. QED BY <2>2, SameRows, StillOneVersion
<1>11. UpdateProgress \/ CompleteBlock => OneVersionInv'
  BY WriteCases, StillOneVersion
<1>12. Restart => OneVersionInv'
  <2>1. SUFFICES ASSUME Restart PROVE OneVersionInv'
    OBVIOUS
  <2>2. pruner' = IdlePruner /\ latestPruned' = NoEntities
    BY <2>1, RestartCases
  <2>3. pruner'.step = "idle"
    BY <2>2 DEF IdlePruner
  <2>4. QED BY ONLY <2>2, <2>3 DEF OneVersionInv
<1>13. UNCHANGED <<progress, prunedBlocks, table, latestCanonical, latestPruned, pruner>>
         => OneVersionInv'
  BY SameRows, StillOneVersion
<1>14. QED BY ONLY <1>1, <1>2, <1>3, <1>4, <1>5, <1>6, <1>7, <1>8, <1>9, <1>10, <1>11, <1>12, <1>13,
       StepCases, TypeInv, PruneInv, [Next]_vars

-----------------------------------------------------------------------------
(* The latest versions at the lower end of the cache. *)

\* What happens to the versions above a height does not show below.
LEMMA SameLatest ==
  ASSUME StoreTyped, NEW id, NEW n,
         \A k : k \in DOMAIN table' /\ Number[k.block] <= n => k \in DOMAIN table,
         \A k \in DOMAIN table : Number[k.block] <= n => k \in DOMAIN table' /\ table'[k] = table[k]
  PROVE  LatestUnpruned(id, n)' = LatestUnpruned(id, n)
<1> DEFINE V == Versions(id, n)
<1>1. \A k : k \in V => k \in DOMAIN table /\ Number[k.block] <= n /\ table'[k] = table[k]
  BY DEF Versions
<1>2. Versions(id, n)' = V
  BY DEF Versions
<1> DEFINE k == CHOOSE k \in V : \A l \in V : Number[l.block] <= Number[k.block]
<1>3. LatestUnpruned(id, n) = IF V = {} THEN NoEntity ELSE table[k]
  BY DEF LatestUnpruned, Versions
<1>4. LatestUnpruned(id, n)' = IF V = {} THEN NoEntity ELSE table'[k]
  <2>1. LatestUnpruned(id, n)' =
          IF Versions(id, n)' = {} THEN NoEntity
          ELSE table'[CHOOSE l \in Versions(id, n)' :
                        \A m \in Versions(id, n)' : Number[m.block] <= Number[l.block]]
    BY DEF LatestUnpruned, Versions
  <2>2. QED BY <1>2, <2>1, Zenon
<1>5. V # {} => k \in V
  <2>1. V # {} => \E l \in V : \A m \in V : Number[m.block] <= Number[l.block]
    <3>1. V \subseteq DOMAIN table
      BY <1>1
    <3>2. QED BY <3>1, HighestVersion
  <2>2. QED BY <2>1
<1> HIDE DEF V, k
<1>6. QED BY <1>1, <1>3, <1>4, <1>5

\* Where there is no version at the height, the latest is that of the height below.
LEMMA LatestBelow ==
  ASSUME StoreTyped, NEW id, NEW n \in Nat,
         \A k \in DOMAIN table : k.id = id /\ Number[k.block] = n + 1 => table[k].isPruned
  PROVE  LatestUnpruned(id, n + 1) = LatestUnpruned(id, n)
<1>1. \A k \in DOMAIN table : Number[k.block] \in Nat
  BY BlockAssumption DEF StoreTyped, Rows
<1>2. Versions(id, n + 1) = Versions(id, n)
  BY <1>1 DEF Versions
<1>3. \A m : LatestUnpruned(id, m) =
          IF Versions(id, m) = {} THEN NoEntity
          ELSE table[CHOOSE k \in Versions(id, m) :
                       \A l \in Versions(id, m) : Number[l.block] <= Number[k.block]]
  BY DEF LatestUnpruned, Versions
<1>4. QED BY <1>2, <1>3, Zenon

\* The version of the only block with versions at a height is the latest at it.
LEMMA LatestAt ==
  ASSUME StoreTyped, NEW id, NEW b \in Blocks, OnlyOf(Number[b], b),
         Key(id, b) \in DOMAIN table, ~table[Key(id, b)].isPruned
  PROVE  LatestUnpruned(id, Number[b]) = table[Key(id, b)]
<1>1. Key(id, b).id = id /\ Key(id, b).block = b /\ Number[b] \in Nat
  BY BlockAssumption DEF Key
<1>2. Key(id, b) \in Versions(id, Number[b])
  BY <1>1 DEF Versions
<1>3. PICK k \in Versions(id, Number[b]) :
        /\ LatestUnpruned(id, Number[b]) = table[k]
        /\ \A l \in Versions(id, Number[b]) : Number[l.block] <= Number[k.block]
  BY <1>2, LatestUnprunedDef
<1>4. /\ k \in DOMAIN table /\ k.id = id /\ Number[k.block] <= Number[b] /\ ~table[k].isPruned
      /\ k \in [id : Ids, block : Rows] /\ k.block \in Blocks /\ Number[k.block] \in Nat
  BY BlockAssumption DEF Versions, StoreTyped, Rows
<1>5. Number[b] <= Number[k.block]
  BY <1>1, <1>2, <1>3
<1>6. Number[k.block] = Number[b]
  BY <1>1, <1>4, <1>5
<1>7. k.block = b
  BY <1>4, <1>6 DEF OnlyOf
<1>8. k = Key(id, b)
  BY <1>4, <1>7 DEF Key
<1>9. QED BY <1>3, <1>8

\* The lower end of the cache is not above the canonical block.
LEMMA BaseBelow ==
  ASSUME TypeInv, PruneInv
  PROVE  Base \in Blocks /\ Number[Base] \in Nat /\ Number[Base] <= CanonicalNumber
<1>1. latestCanonical \in Blocks /\ CanonicalNumber \in Nat
  BY RowsFacts DEF TypeInv
<1>2. CASE pruner.step = "cache"
  <2>1. latestCanonical # StartBlock
    BY <1>2 DEF PruneInv
  <2>2. Parent[latestCanonical] \in Blocks /\ Number[latestCanonical] = Number[Parent[latestCanonical]] + 1
        /\ Number[Parent[latestCanonical]] \in Nat
    BY <1>1, <2>1, ParentBelow
  <2>3. Base = Parent[latestCanonical]
    BY <1>2 DEF Base
  <2>4. QED BY <2>2, <2>3 DEF CanonicalNumber
<1>3. CASE pruner.step # "cache"
  BY <1>1, <1>3 DEF Base, CanonicalNumber
<1>4. QED BY <1>2, <1>3

\* A step that keeps the lower end, and the versions at its height and below.
LEMMA StillLatest ==
  ASSUME TypeInv, PruneInv, LatestInv, latestPruned' \in {latestPruned, NoEntities},
         latestPruned # NoEntities => Base' = Base,
         \A k \in DOMAIN table' :
           Number[k.block] <= CanonicalNumber => k \in DOMAIN table,
         \A k \in DOMAIN table :
           Number[k.block] <= CanonicalNumber => k \in DOMAIN table' /\ table'[k] = table[k],
         DOMAIN table' \subseteq [id : Ids, block : Rows']
  PROVE  LatestInv'
<1>1. PICK n : n = Number[Base]
  OBVIOUS
<1>2. n \in Nat /\ n <= CanonicalNumber /\ CanonicalNumber \in Nat
  BY <1>1, BaseBelow, RowsFacts DEF TypeInv
<1>3. SUFFICES ASSUME NEW id \in DOMAIN latestPruned'
               PROVE  (Unmarked(latestPruned[id]) = Unmarked(LatestUnpruned(id, Number[Base])))'
  BY DEF LatestInv
<1>4. DOMAIN NoEntities = {}
  BY DEF NoEntities
<1>5. latestPruned' = latestPruned /\ latestPruned # NoEntities /\ id \in DOMAIN latestPruned
  BY <1>4
<1>6. n = Number[Base']
  BY <1>1, <1>5
<1>7. Unmarked(latestPruned[id]) = Unmarked(LatestUnpruned(id, n))
  BY <1>1, <1>5 DEF LatestInv
<1>8. \A k : k \in DOMAIN table \/ k \in DOMAIN table' => Number[k.block] \in Nat
  BY BlockAssumption DEF TypeInv, StoreTyped, Rows
<1>9. \A k : k \in DOMAIN table' /\ Number[k.block] <= n => k \in DOMAIN table
  BY <1>2, <1>8
<1>10. \A k \in DOMAIN table : Number[k.block] <= n => k \in DOMAIN table' /\ table'[k] = table[k]
  BY <1>2, <1>8
<1>11. LatestUnpruned(id, n)' = LatestUnpruned(id, n)
  BY <1>9, <1>10, SameLatest DEF TypeInv
<1>12. (Unmarked(latestPruned[id]) = Unmarked(LatestUnpruned(id, n)))'
  BY <1>5, <1>7, <1>11 DEF Unmarked
<1>13. QED BY ONLY <1>6, <1>12, Zenon

\* The canonical block's cached versions are the latest at its height; a block the cache is
\* full of has no others.
LEMMA PruneCachedLatest ==
  ASSUME TypeInv, PruneInv, CacheInv, MarkedInv, OneVersionInv, LatestInv, PruneCachedEntities,
         UNCHANGED handlerVars
  PROVE  LatestInv'
<1>1. PICK q : q = latestCanonical
  OBVIOUS
<1>2. /\ pruner.step = "cache" /\ Base' = q /\ Base = Parent[q]
      /\ q \in Blocks /\ q # StartBlock /\ Trunk(q) /\ progress[q] = "complete"
      /\ table' = table /\ latestPruned' = LatestPrunedWith(q)
  BY <1>1, PruneCachedCases
<1>3. /\ Parent[q] \in Blocks /\ Number[q] = Number[Parent[q]] + 1 /\ Number[Parent[q]] \in Nat
      /\ Parent[q] \in Chain[q] /\ q \in Rows
  BY <1>2, ParentBelow, ChainDef DEF Rows
<1>4. PICK n : n = Number[Parent[q]]
  OBVIOUS
<1>5. n \in Nat /\ Number[q] = n + 1
  BY <1>3, <1>4
<1>6. OnlyOf(Number[q], q)
  <2>1. OnlyOf(CanonicalNumber, latestCanonical)
    BY <1>2 DEF OneVersionInv
  <2>2. QED BY <1>1, <2>1 DEF CanonicalNumber
<1>7. \A k \in DOMAIN table : k.block = q => ~table[k].isPruned
  <2>1. ~Off(q)
    BY <1>2, TrunkNotOff
  <2>2. QED BY <2>1 DEF MarkedInv
<1>8. \A id : ~(q = Block /\ id \in DOMAIN tx)
  <2>1. SUFFICES ASSUME NEW id, q = Block, id \in DOMAIN tx PROVE FALSE
    OBVIOUS
  <2>2. tx # NoWrites
    BY <2>1 DEF NoWrites
  <2>3. lastProcessed[q] < Len(Events[q])
    BY <2>1, <2>2 DEF TypeInv, HandlerTyped
  <2>4. lastProcessed[q] = Len(Events[q]) /\ lastProcessed[q] \in Nat
    BY <1>2 DEF TypeInv, ParentsReady, HandlerTyped
  <2>5. QED BY <2>3, <2>4
<1>9. ASSUME NEW id \in DOMAIN latestPruned'
      PROVE  Unmarked(latestPruned'[id]) = Unmarked(LatestUnpruned(id, Number[q]))
  <2>1. CASE /\ q \in DOMAIN frothyBlocks /\ id \in DOMAIN frothyBlocks[q]
             /\ latestPruned'[id] = frothyBlocks[q][id]
    <3>1. /\ Key(id, q) \in DOMAIN table
          /\ Unmarked(frothyBlocks[q][id]) = Unmarked(table[Key(id, q)])
      BY <1>8, <2>1 DEF CacheInv, CacheHolds
    <3>2. ~table[Key(id, q)].isPruned
      BY <1>7, <3>1 DEF Key
    <3>3. LatestUnpruned(id, Number[q]) = table[Key(id, q)]
      BY <1>2, <1>6, <3>1, <3>2, LatestAt DEF TypeInv
    <3>4. QED BY <2>1, <3>1, <3>3
  <2>2. CASE /\ ~(q \in DOMAIN frothyBlocks /\ id \in DOMAIN frothyBlocks[q])
             /\ id \in DOMAIN latestPruned /\ latestPruned'[id] = latestPruned[id]
    <3>1. latestPruned # NoEntities
      BY <2>2 DEF NoEntities
    <3>2. id \in Ids
      BY <2>2 DEF TypeInv, StoreTyped, IsEntities
    <3>3. Full(q)
      <4>1. FullAbove(Parent[q])
        BY <1>2, <3>1 DEF CacheInv, CacheReaches
      <4>2. q # Parent[q]
        BY <1>3
      <4>3. QED BY <1>3, <4>1, <4>2 DEF FullAbove
    <3>4. Key(id, q) \notin DOMAIN table
      BY <2>2, <3>2, <3>3 DEF Full, HasVersion
    <3>5. ASSUME NEW k \in DOMAIN table, k.id = id, Number[k.block] = n + 1, ~table[k].isPruned
          PROVE  FALSE
      <4>1. k.block = q
        BY <1>5, <1>6, <3>5 DEF OnlyOf
      <4>2. k \in [id : Ids, block : Rows]
        BY DEF TypeInv, StoreTyped
      <4>3. k = Key(id, q)
        BY <3>5, <4>1, <4>2 DEF Key
      <4>4. QED BY <3>4, <4>3
    <3>6. LatestUnpruned(id, n + 1) = LatestUnpruned(id, n)
      BY <1>5, <3>5, LatestBelow DEF TypeInv
    <3>7. Unmarked(latestPruned[id]) = Unmarked(LatestUnpruned(id, n))
      <4>1. n = Number[Base]
        BY <1>2, <1>4
      <4>2. Unmarked(latestPruned[id]) = Unmarked(LatestUnpruned(id, Number[Base]))
        BY <2>2 DEF LatestInv
      <4>3. QED BY ONLY <4>1, <4>2
    <3>8. QED BY <1>5, <2>2, <3>6, <3>7
  <2>3. QED BY <1>2, <1>9, <2>1, <2>2, LatestPrunedWithDef
<1>10. PICK m : m = Number[q]
  OBVIOUS
<1>11. \A id : LatestUnpruned(id, m)' = LatestUnpruned(id, m)
  BY <1>2 DEF LatestUnpruned
<1>12. \A id \in DOMAIN latestPruned' : (Unmarked(latestPruned[id]) = Unmarked(LatestUnpruned(id, m)))'
  BY <1>9, <1>10, <1>11 DEF Unmarked
<1>13. m = Number[Base']
  BY <1>2, <1>10
<1>14. QED BY ONLY <1>12, <1>13 DEF LatestInv

LEMMA CommitLatest ==
  ASSUME TypeInv, TypeInv', PruneInv, LatestInv, Commits, ~late'
  PROVE  LatestInv'
<1>1. /\ Block \in Rows /\ Block \in Blocks /\ progress[Block] # "complete"
      /\ UNCHANGED <<latestCanonical, latestPruned, pruner>>
      /\ late' = (late \/ Dead(Block))
      /\ \A k \in DOMAIN table' : \/ k.block = Block
                                  \/ k \in DOMAIN table /\ table'[k] = table[k]
      /\ \A k \in DOMAIN table : /\ k \in DOMAIN table'
                                 /\ k.block # Block => table'[k] = table[k]
  BY CommitKeys
<1>2. Number[Block] > CanonicalNumber
  BY <1>1, IncompleteAbove
<1>3. CanonicalNumber \in Nat /\ Number[Block] \in Nat
  BY <1>1, RowsFacts, BlockAssumption DEF TypeInv
<1>4. \A k : Number[k.block] <= CanonicalNumber => k.block # Block
  BY <1>2, <1>3
<1>5. Base' = Base
  BY <1>1 DEF Base
<1>6. DOMAIN table' \subseteq [id : Ids, block : Rows']
  BY DEF TypeInv, StoreTyped
<1>7. QED BY <1>1, <1>4, <1>5, <1>6, StillLatest

LEMMA MarkLatest ==
  ASSUME TypeInv, TypeInv', PruneInv, LatestInv, NEW a \in Blocks, MarkBlocksAsPruned(a)
  PROVE  LatestInv'
<1>1. /\ pruner.step = "idle" /\ pruner'.step = "status"
      /\ UNCHANGED <<latestCanonical, latestPruned>>
  BY DEF MarkBlocksAsPruned, cacheVars
<1>2. PICK S : S = UnprunedAt(CanonicalNumber + 1) \ {a}
  OBVIOUS
<1>3. table' = PruneEntities(S)
  BY <1>2 DEF MarkBlocksAsPruned
<1>4. \A b \in S : Number[b] = CanonicalNumber + 1
  BY <1>2 DEF UnprunedAt
<1>5. CanonicalNumber \in Nat
  BY RowsFacts DEF TypeInv
<1>6. \A k : Number[k.block] <= CanonicalNumber => k.block \notin S
  BY <1>4, <1>5
<1>7. DOMAIN table' = DOMAIN table /\ \A k \in DOMAIN table : k.block \notin S => table'[k] = table[k]
  BY <1>3 DEF PruneEntities
<1>8. Base' = Base
  BY <1>1 DEF Base
<1>9. DOMAIN table' \subseteq [id : Ids, block : Rows']
  BY DEF TypeInv, StoreTyped
<1>10. QED BY <1>1, <1>6, <1>7, <1>8, <1>9, StillLatest

LEMMA StepKeepsLatest ==
  ASSUME TypeInv, TypeInv', PruneInv, CacheInv, MarkedInv, OneVersionInv, LatestInv,
         [Next]_vars, ~late'
  PROVE  LatestInv'
<1> DEFINE Same == UNCHANGED <<table, latestCanonical, pruner>> /\ latestPruned' \in {latestPruned, NoEntities}
<1>1. ASSUME Same PROVE LatestInv'
  <2>1. Base' = Base
    BY <1>1 DEF Base
  <2>2. DOMAIN table' \subseteq [id : Ids, block : Rows']
    BY DEF TypeInv, StoreTyped
  <2>3. QED BY <1>1, <2>1, <2>2, StillLatest
<1>2. ASSUME latestPruned' = NoEntities PROVE LatestInv'
  <2>1. DOMAIN latestPruned' = {}
    BY <1>2 DEF NoEntities
  <2>2. QED BY <2>1 DEF LatestInv
<1>3. ASSUME NEW b \in Blocks, IndexBlock(b) \/ IndexBlockAgain(b) PROVE LatestInv'
  <2>1. PICK r : AddFrothyBlock(r)
    BY <1>3 DEF IndexBlock, SaveBlock, IndexBlockAgain, IndexAgain
  <2>2. UNCHANGED <<table, latestCanonical, pruner>>
    BY <1>3 DEF IndexBlock, SaveBlock, IndexBlockAgain, IndexAgain
  <2>3. latestPruned' \in {latestPruned, NoEntities}
    BY <2>1 DEF AddFrothyBlock
  <2>4. QED BY <1>1, <2>2, <2>3
<1>4. ASSUME NEW b \in Blocks, TakeEventsJob(b) PROVE LatestInv'
  BY <1>1, <1>4 DEF TakeEventsJob, storeVars
<1>5. ASSUME NEW a \in Blocks, MarkBlocksAsPruned(a) PROVE LatestInv'
  BY <1>5, MarkLatest
<1>6. ASSUME UpdateCanonicalBlock, UNCHANGED handlerVars PROVE LatestInv'
  <2>1. latestPruned # NoEntities => Base' = Base
    BY <1>6, UpdateCanonicalCache
  <2>2. table' = table /\ latestPruned' = latestPruned
    BY <1>6 DEF UpdateCanonicalBlock, cacheVars
  <2>3. DOMAIN table' \subseteq [id : Ids, block : Rows']
    BY DEF TypeInv, StoreTyped
  <2>4. QED BY <2>1, <2>2, <2>3, StillLatest
<1>7. PruneCachedEntities /\ UNCHANGED handlerVars => LatestInv'
  BY PruneCachedLatest
<1>8. ASSUME PruneFrothyEntities PROVE LatestInv'
  <2>1. /\ pruner.step = "frothy" /\ pruner'.step = "idle"
        /\ UNCHANGED <<latestCanonical, table, latestPruned>>
    BY <1>8 DEF PruneFrothyEntities, IdlePruner, cacheVars
  <2>2. Base' = Base
    BY <2>1 DEF Base
  <2>3. DOMAIN table' \subseteq [id : Ids, block : Rows']
    BY DEF TypeInv, StoreTyped
  <2>4. QED BY <2>1, <2>2, <2>3, StillLatest
<1>9. ASSUME Saves PROVE LatestInv'
  <2>1. Same
    BY <1>9 DEF Saves, Save, CacheUpdatedEntities
  <2>2. QED BY <1>1, <2>1
<1>10. Commits => LatestInv'
  BY CommitLatest
<1>11. ASSUME Reads PROVE LatestInv'
  BY <1>1, <1>11 DEF Reads, storeVars
<1>12. ASSUME Throw PROVE LatestInv'
  BY <1>2, <1>12 DEF Throw, ClearCachedEntities
<1>13. UpdateProgress \/ CompleteBlock => LatestInv'
  BY <1>1, WriteCases
<1>14. Restart => LatestInv'
  BY <1>2, RestartCases
<1>15. UNCHANGED <<table, latestCanonical, latestPruned, pruner>> => LatestInv'
  BY <1>1
<1>16. QED BY ONLY <1>3, <1>4, <1>5, <1>6, <1>7, <1>8, <1>9, <1>10, <1>11, <1>12, <1>13, <1>14, <1>15,
       StepCases, TypeInv, PruneInv, [Next]_vars

-----------------------------------------------------------------------------
LEMMA StepKeepsVersions ==
  ASSUME PositionsInv, TypeInv', [Next]_vars
  PROVE  VersionsInv'
<1>1. SUFFICES ASSUME ~late' PROVE MarkedInv' /\ OneVersionInv' /\ LatestInv'
  BY DEF VersionsInv
<1>2. TypeInv /\ PruneInv /\ CacheInv
  BY DEF PositionsInv
<1>3. ~late
  BY <1>1, <1>2, StaysLate
<1>4. MarkedInv /\ OneVersionInv /\ LatestInv
  BY <1>3 DEF PositionsInv, VersionsInv
<1>5. MarkedInv'
  BY <1>1, <1>2, <1>4, StepKeepsMarked
<1>6. OneVersionInv'
  BY <1>1, <1>2, <1>4, <1>5, StepKeepsOneVersion
<1>7. LatestInv'
  BY <1>1, <1>2, <1>4, StepKeepsLatest
<1>8. QED BY <1>5, <1>6, <1>7

-----------------------------------------------------------------------------
(* The cache agrees with the tables. *)

Agrees(c, id) == Unmarked(FromCache(c, id)) = Unmarked(FromTable(c, id))

\* What is read below the cache.
LEMMA ReadBelowCache ==
  ASSUME StoreTyped, LatestInv, NEW id, NEW b \in Blocks, b = Base, b \notin DOMAIN frothyBlocks
  PROVE  Unmarked(FromCache(b, id)) = Unmarked(LatestUnpruned(id, Number[b]))
<1>1. FromCache(b, id) = IF id \in DOMAIN latestPruned THEN latestPruned[id]
                         ELSE LatestUnpruned(id, Number[b])
  BY FromCacheDef
<1>2. CASE id \in DOMAIN latestPruned
  <2>1. Unmarked(latestPruned[id]) = Unmarked(LatestUnpruned(id, Number[Base]))
    BY <1>2 DEF LatestInv
  <2>2. QED BY <1>1, <1>2, <2>1
<1>3. CASE id \notin DOMAIN latestPruned
  BY <1>1, <1>3
<1>4. QED BY <1>2, <1>3

\* A block the cache is full of, apart from its parent.
LEMMA ReadFull ==
  ASSUME TypeInv, CacheInv, tx = NoWrites, NEW id \in Ids, NEW c \in Blocks, c # StartBlock, Full(c)
  PROVE  \/ Key(id, c) \in DOMAIN table /\ Agrees(c, id)
         \/ Key(id, c) \notin DOMAIN table /\ FromCache(c, id) = FromCache(Parent[c], id)
<1>1. c \in DOMAIN frothyBlocks \ {StartBlock}
  BY DEF Full
<1>2. DOMAIN tx = {}
  BY DEF NoWrites
<1>3. StoreTyped
  BY DEF TypeInv
<1>4. CASE id \in DOMAIN frothyBlocks[c]
  <2>1. /\ Key(id, c) \in DOMAIN table
        /\ Unmarked(frothyBlocks[c][id]) = Unmarked(table[Key(id, c)])
    BY <1>1, <1>2, <1>4 DEF CacheInv, CacheHolds
  <2>2. FromCache(c, id) = frothyBlocks[c][id]
    BY <1>1, <1>3, <1>4, FromCacheDef
  <2>3. FromTable(c, id) = table[Key(id, c)]
    BY <1>3, <2>1, FromTableDef
  <2>4. QED BY <2>1, <2>2, <2>3 DEF Agrees
<1>5. CASE id \notin DOMAIN frothyBlocks[c]
  <2>1. Key(id, c) \notin DOMAIN table
    BY <1>5 DEF Full, HasVersion
  <2>2. FromCache(c, id) = FromCache(Parent[c], id)
    BY <1>1, <1>3, <1>5, FromCacheDef
  <2>3. QED BY <2>1, <2>2
<1>6. QED BY <1>4, <1>5

\* The version of the canonical block is the latest at its height, if it has one.
LEMMA ReadCanonical ==
  ASSUME TypeInv, PruneInv, CacheInv, MarkedInv, OneVersionInv, latestPruned # NoEntities,
         NEW id \in Ids, NEW q, q = latestCanonical
  PROVE  FromTable(q, id) = LatestUnpruned(id, Number[q])
<1>1. q \in Blocks /\ Number[q] \in Nat /\ Number[q] = CanonicalNumber
  BY RowsFacts DEF TypeInv, CanonicalNumber
<1>2. Trunk(q)
  BY DEF CacheInv, CacheReaches
<1>3. ~Off(q)
  BY <1>1, <1>2, TrunkNotOff
<1>4. OnlyOf(Number[q], q)
  BY <1>1 DEF OneVersionInv
<1>5. CASE Key(id, q) \in DOMAIN table
  <2>1. ~table[Key(id, q)].isPruned
    <3>1. Key(id, q).block = q
      BY DEF Key
    <3>2. QED BY <1>3, <1>5, <3>1 DEF MarkedInv
  <2>2. LatestUnpruned(id, Number[q]) = table[Key(id, q)]
    BY <1>1, <1>4, <1>5, <2>1, LatestAt DEF TypeInv
  <2>3. QED BY <1>1, <1>5, <2>2, FromTableDef DEF TypeInv
<1>6. CASE Key(id, q) \notin DOMAIN table
  <2>1. ~(Number[q] > CanonicalNumber)
    BY <1>1
  <2>2. QED BY <1>1, <1>6, <2>1, FromTableDef DEF TypeInv
<1>7. QED BY <1>5, <1>6

\* Before the cache follows the canonical block, and after.
LEMMA CanonicalAgrees ==
  ASSUME TypeInv, PruneInv, CacheInv, MarkedInv, OneVersionInv, LatestInv,
         latestPruned # NoEntities, tx = NoWrites, NEW id \in Ids, NEW q, q = latestCanonical
  PROVE  Agrees(q, id)
<1>1. StoreTyped /\ q \in Rows /\ q \in Blocks
  BY RowsFacts DEF TypeInv, StoreTyped
<1>2. FromTable(q, id) = LatestUnpruned(id, Number[q])
  BY ReadCanonical
<1>3. PICK d : d = Base
  OBVIOUS
<1>4. d \in Blocks /\ d \notin DOMAIN frothyBlocks /\ FullAbove(d)
  BY <1>3, BaseBelow DEF CacheInv, CacheReaches
<1>5. Unmarked(FromCache(d, id)) = Unmarked(LatestUnpruned(id, Number[d]))
  BY <1>1, <1>3, <1>4, ReadBelowCache
<1>6. CASE pruner.step # "cache"
  <2>1. d = q
    BY <1>3, <1>6 DEF Base
  <2>2. QED BY <1>2, <1>5, <2>1 DEF Agrees
<1>7. CASE pruner.step = "cache"
  <2>1. d = Parent[q]
    BY <1>3, <1>7 DEF Base
  <2>2. q # StartBlock
    BY <1>7 DEF PruneInv
  <2>3. Number[q] = Number[d] + 1 /\ Number[d] \in Nat /\ d \in Chain[q]
    BY <1>1, <2>1, <2>2, ParentBelow, ChainDef
  <2>4. d # q
    BY <2>3
  <2>5. Full(q)
    BY <1>1, <1>4, <2>3, <2>4 DEF FullAbove
  <2>6. \/ Key(id, q) \in DOMAIN table /\ Agrees(q, id)
        \/ Key(id, q) \notin DOMAIN table /\ FromCache(q, id) = FromCache(d, id)
    BY <1>1, <2>1, <2>2, <2>5, ReadFull
  <2>7. CASE Key(id, q) \notin DOMAIN table /\ FromCache(q, id) = FromCache(d, id)
    <3>1. OnlyOf(Number[q], q)
      BY <1>7 DEF OneVersionInv, CanonicalNumber
    <3>2. ASSUME NEW k \in DOMAIN table, k.id = id, Number[k.block] = Number[d] + 1, ~table[k].isPruned
          PROVE  FALSE
      <4>1. k.block = q
        BY <2>3, <3>1, <3>2 DEF OnlyOf
      <4>2. k \in [id : Ids, block : Rows]
        BY DEF TypeInv, StoreTyped
      <4>3. k = Key(id, q)
        BY <3>2, <4>1, <4>2 DEF Key
      <4>4. QED BY <2>7, <4>3
    <3>3. LatestUnpruned(id, Number[d] + 1) = LatestUnpruned(id, Number[d])
      BY <1>1, <2>3, <3>2, LatestBelow
    <3>4. LatestUnpruned(id, Number[q]) = LatestUnpruned(id, Number[d])
      BY <2>3, <3>3
    <3>5. QED BY <1>2, <1>5, <2>7, <3>4 DEF Agrees
  <2>8. QED BY <2>6, <2>7
<1>8. QED BY <1>6, <1>7

\* Along the chain of a row above the canonical block.
LEMMA ChainAgrees ==
  ASSUME TypeInv, PruneInv, CacheInv, MarkedInv, OneVersionInv, LatestInv,
         latestPruned # NoEntities, tx = NoWrites, NEW id \in Ids,
         NEW b \in Rows, latestCanonical \in Chain[b]
  PROVE  Agrees(b, id)
<1>1. PICK q : q = latestCanonical
  OBVIOUS
<1>2. /\ StoreTyped /\ q \in Rows /\ q \in Blocks /\ b \in Blocks
      /\ Number[q] \in Nat /\ Number[q] = CanonicalNumber
  BY <1>1, RowsFacts DEF TypeInv, StoreTyped, CanonicalNumber
<1>3. Agrees(q, id)
  BY <1>1, CanonicalAgrees
<1>4. PICK d : d = Base
  OBVIOUS
<1>5. d \in Chain[q] /\ d \in Blocks /\ FullAbove(d)
  <2>1. d \in Blocks /\ FullAbove(d)
    BY <1>4, BaseBelow DEF CacheInv, CacheReaches
  <2>2. CASE pruner.step = "cache"
    <3>1. q # StartBlock
      BY <1>1, <2>2 DEF PruneInv
    <3>2. d = Parent[q]
      BY <1>1, <1>4, <2>2 DEF Base
    <3>3. QED BY <1>2, <2>1, <3>1, <3>2, ChainDef
  <2>3. CASE pruner.step # "cache"
    <3>1. d = q
      BY <1>1, <1>4, <2>3 DEF Base
    <3>2. QED BY <1>2, <2>1, <3>1, ChainDef
  <2>4. QED BY <2>1, <2>2, <2>3
<1> DEFINE Bad == {c \in Rows : q \in Chain[c] /\ ~Agrees(c, id)}
<1>6. ASSUME Bad # {} PROVE FALSE
  <2>1. Bad \subseteq Blocks
    BY DEF Rows
  <2>2. PICK m \in Bad : \A c \in Bad : Number[m] <= Number[c]
    BY <1>6, <2>1, LowestBlock
  <2>3. m \in Rows /\ m \in Blocks /\ q \in Chain[m] /\ ~Agrees(m, id)
    BY <2>1, <2>2
  <2>4. m # q
    BY <1>3, <2>3
  <2>5. /\ m # StartBlock /\ q \in Chain[Parent[m]]
        /\ Number[q] <= Number[m] /\ Number[m] # Number[q] /\ Number[m] \in Nat
    BY <2>3, <2>4, ChainBelow
  <2>6. Parent[m] \in Blocks /\ Number[m] = Number[Parent[m]] + 1 /\ Number[Parent[m]] \in Nat
    BY <2>3, <2>5, ParentBelow
  <2>7. Parent[m] \in Rows
    BY <2>3, <2>5, <2>6 DEF TypeInv, ParentsReady, Rows
  <2>8. Agrees(Parent[m], id)
    BY <2>2, <2>5, <2>6, <2>7
  <2>9. Number[m] > CanonicalNumber
    BY <1>2, <2>5
  <2>10. Full(m)
    <3>1. d \in Chain[m]
      BY <1>5, <2>3, ChainOfAncestor
    <3>2. d # m
      <4>1. Number[d] <= Number[q]
        BY <1>2, <1>5, ChainBelow
      <4>2. ~(Number[m] <= Number[q])
        BY <1>2, <2>5, <2>9
      <4>3. QED BY ONLY <4>1, <4>2
    <3>3. QED BY <1>5, <2>3, <3>1, <3>2 DEF FullAbove
  <2>11. Key(id, m) \notin DOMAIN table /\ FromCache(m, id) = FromCache(Parent[m], id)
    BY <2>3, <2>5, <2>10, ReadFull
  <2>12. FromTable(m, id) = FromTable(Parent[m], id)
    BY <1>2, <2>3, <2>9, <2>11, FromTableDef
  <2>13. QED BY <2>3, <2>8, <2>11, <2>12 DEF Agrees
<1>7. QED BY <1>1, <1>6

LEMMA InvCoherent == PositionsInv => CacheCoherent
<1> SUFFICES ASSUME PositionsInv, tx = NoWrites, NEW b \in LiveRows, progress[b] = "incomplete",
                    NEW id \in Ids
             PROVE  Unmarked(GetEntity(b, id)) = Unmarked(FromTable(b, id))
  BY DEF CacheCoherent
<1>1. ~late /\ b \in Rows /\ ~Dead(b) /\ progress[b] # "complete"
  BY DEF LiveRows
<1>2. TypeInv /\ PruneInv /\ CacheInv /\ MarkedInv /\ OneVersionInv /\ LatestInv
  BY <1>1 DEF PositionsInv, VersionsInv
<1>3. latestCanonical \in Chain[b]
  BY <1>1, <1>2, IncompleteAbove
<1>4. CASE b \in DOMAIN frothyBlocks /\ latestPruned # NoEntities
  <2>1. GetEntity(b, id) = FromCache(b, id)
    BY <1>4 DEF GetEntity
  <2>2. Agrees(b, id)
    BY <1>1, <1>2, <1>3, <1>4, ChainAgrees
  <2>3. QED BY <2>1, <2>2 DEF Agrees
<1>5. CASE ~(b \in DOMAIN frothyBlocks /\ latestPruned # NoEntities)
  <2>1. GetEntity(b, id) = FromTable(b, id)
    BY <1>5 DEF GetEntity
  <2>2. QED BY <2>1
<1>6. QED BY <1>4, <1>5

LEMMA StepKeepsInv == PositionsInv /\ [Next]_vars => PositionsInv'
<1> SUFFICES ASSUME PositionsInv, [Next]_vars PROVE PositionsInv'
  OBVIOUS
<1>1. TypeInv /\ PruneInv /\ CacheInv
  BY DEF PositionsInv
<1>2. TypeInv'
  BY <1>1, StepTyped
<1>3. PruneInv'
  BY <1>1, StepKeepsPrune
<1>4. CacheInv'
  BY <1>1, StepKeepsCache
<1>5. VersionsInv'
  BY <1>2, StepKeepsVersions
<1>6. QED BY <1>2, <1>3, <1>4, <1>5 DEF PositionsInv

\* What the job runner reads between handlers at a live block with events to process is what
\* the tables hold: the cache survives forks, prune jobs between any two steps, failed
\* handlers, incomplete caches and restarts, for every tree of blocks, reorg depth and interval
\* (updateEntityCacheFrothyBlocks, clearCachedEntities, pruneEntityCacheFrothyBlocks).
THEOREM CacheAlwaysCoherent == Spec => []CacheCoherent
<1>1. Init => PositionsInv
  BY InitTyped, InitPrune, InitCache DEF PositionsInv
<1>2. PositionsInv /\ [Next]_vars => PositionsInv'
  BY StepKeepsInv
<1>3. PositionsInv => CacheCoherent
  BY InvCoherent
<1>4. QED BY <1>1, <1>2, <1>3, PTL DEF Spec
-----------------------------------------------------------------------------
(* Reading below the canonical block. *)

\* The canonical block stays, and so do the blocks below it: as long as nothing is written beside
\* them, the versions not pruned at their heights are theirs.
CanonicalInv ==
  /\ Trunk(latestCanonical)
  /\ \A c \in Chain[latestCanonical] : OnlyOf(Number[c], c)

HistoryInv == PositionsInv /\ (~late => CanonicalInv)

LEMMA StillCanonical ==
  ASSUME TypeInv, CanonicalInv, latestCanonical' = latestCanonical,
         \A k \in DOMAIN table' : \/ Number[k.block] > CanonicalNumber \/ table'[k].isPruned
                                  \/ k \in DOMAIN table /\ ~table[k].isPruned
  PROVE  CanonicalInv'
<1>1. latestCanonical \in Blocks /\ CanonicalNumber \in Nat /\ CanonicalNumber = Number[latestCanonical]
  BY RowsFacts DEF TypeInv, CanonicalNumber
<1>2. ASSUME NEW c \in Chain[latestCanonical] PROVE OnlyOf(Number[c], c)'
  <2>1. Number[c] \in Nat /\ Number[c] <= CanonicalNumber
    BY <1>1, ChainBelow
  <2>2. SUFFICES ASSUME NEW k \in DOMAIN table', Number[k.block] = Number[c], ~table'[k].isPruned
                 PROVE  k.block = c
    BY DEF OnlyOf
  <2>3. k \in DOMAIN table /\ ~table[k].isPruned
    BY <1>1, <2>1, <2>2
  <2>4. OnlyOf(Number[c], c)
    BY DEF CanonicalInv
  <2>5. QED BY <2>2, <2>3, <2>4 DEF OnlyOf
<1>3. Trunk(latestCanonical')
  BY DEF CanonicalInv
<1>4. \A c \in Chain[latestCanonical'] : OnlyOf(Number[c], c)'
  BY <1>2
<1>5. QED BY ONLY <1>3, <1>4 DEF CanonicalInv, Trunk, OnlyOf

LEMMA CommitCanonical ==
  ASSUME TypeInv, PruneInv, CanonicalInv, Commits, ~late'
  PROVE  CanonicalInv'
<1>1. /\ Block \in Rows /\ progress[Block] # "complete" /\ latestCanonical' = latestCanonical
      /\ late' = (late \/ Dead(Block))
      /\ \A k \in DOMAIN table' : k.block = Block \/ (k \in DOMAIN table /\ table'[k] = table[k])
  BY CommitKeys
<1>2. Number[Block] > CanonicalNumber
  BY <1>1, IncompleteAbove
<1>3. \A k \in DOMAIN table' : \/ Number[k.block] > CanonicalNumber \/ table'[k].isPruned
                               \/ k \in DOMAIN table /\ ~table[k].isPruned
  BY <1>1, <1>2
<1>4. QED BY <1>1, <1>3, StillCanonical

LEMMA MarkCanonical ==
  ASSUME TypeInv, CanonicalInv, NEW a \in Blocks, MarkBlocksAsPruned(a)
  PROVE  CanonicalInv'
<1>1. PICK S : table' = PruneEntities(S)
  BY DEF MarkBlocksAsPruned
<1>2. /\ DOMAIN table' = DOMAIN table
      /\ \A k \in DOMAIN table : table[k].isPruned => table'[k].isPruned
  BY <1>1, PruneEntitiesTyped DEF TypeInv
<1>3. latestCanonical' = latestCanonical
  BY DEF MarkBlocksAsPruned
<1>4. QED BY <1>2, <1>3, StillCanonical

\* The next canonical block is a child of the canonical one.
LEMMA NextCanonical ==
  ASSUME TypeInv, PruneInv, CanonicalInv, UpdateCanonicalBlock
  PROVE  /\ latestCanonical' \in Blocks /\ Trunk(latestCanonical')
         /\ latestCanonical' = pruner.block /\ Number[pruner.block] = CanonicalNumber + 1
         /\ Chain[latestCanonical'] = {latestCanonical'} \cup Chain[latestCanonical]
<1>1. PICK p, q : p = pruner.block /\ q = latestCanonical
  OBVIOUS
<1>2. /\ pruner.step = "status" /\ latestCanonical' = p
      /\ p \in Blocks /\ p # StartBlock /\ Trunk(p) /\ Number[p] = Number[q] + 1
      /\ q \in Blocks /\ Number[q] \in Nat /\ Trunk(q)
  BY <1>1, RowsFacts DEF UpdateCanonicalBlock, TypeInv, StoreTyped, PruneInv, CanonicalInv, CanonicalNumber
<1>3. /\ Parent[p] \in Blocks /\ Number[p] = Number[Parent[p]] + 1 /\ Number[Parent[p]] \in Nat
      /\ Trunk(Parent[p])
  BY <1>2, ParentBelow, TrunkParent
<1>4. Parent[p] = q
  BY <1>2, <1>3, TrunkUnique
<1>5. Chain[p] = {p} \cup Chain[q]
  BY <1>2, <1>4, ChainDef
<1>6. QED BY <1>1, <1>2, <1>5 DEF CanonicalNumber

LEMMA UpdateCanonicalCanonical ==
  ASSUME TypeInv, PruneInv, OneVersionInv, CanonicalInv, UpdateCanonicalBlock
  PROVE  CanonicalInv'
<1>1. /\ latestCanonical' \in Blocks /\ Trunk(latestCanonical')
      /\ latestCanonical' = pruner.block /\ Number[pruner.block] = CanonicalNumber + 1
      /\ Chain[latestCanonical'] = {latestCanonical'} \cup Chain[latestCanonical]
  BY NextCanonical
<1>2. pruner.step = "status" /\ table' = table
  BY DEF UpdateCanonicalBlock
<1>3. OnlyOf(CanonicalNumber + 1, pruner.block)
  BY <1>2 DEF OneVersionInv
<1>4. ASSUME NEW c \in Chain[latestCanonical'] PROVE OnlyOf(Number[c], c)
  <2>1. CASE c = latestCanonical'
    BY <1>1, <1>3, <2>1
  <2>2. CASE c \in Chain[latestCanonical]
    BY <2>2 DEF CanonicalInv
  <2>3. QED BY <1>1, <2>1, <2>2
<1>5. \A c \in Chain[latestCanonical'] : OnlyOf(Number[c], c)'
  BY <1>2, <1>4 DEF OnlyOf
<1>6. QED BY ONLY <1>1, <1>5 DEF CanonicalInv, Trunk, OnlyOf

\* A restart in time goes back along the chain of the canonical block.
LEMMA RestartBelow ==
  ASSUME TypeInv, PruneInv, Restart, ~late'
  PROVE  \E n \in Nat :
           /\ ~late
           /\ \A b : b \in Rows' <=> b \in Rows /\ Number[b] <= n
           /\ progress' = [b \in Blocks |-> IF Number[b] <= n THEN progress[b] ELSE "absent"]
           /\ prunedBlocks' = {b \in prunedBlocks : Number[b] <= n}
           /\ table' = [k \in {l \in DOMAIN table : Number[l.block] <= n} |-> table[k]]
           /\ latestCanonical' \in Chain[latestCanonical]
           /\ latestCanonical' = latestCanonical \/ Number[latestCanonical'] = n
<1>1. PICK n \in Nat :
        /\ \A b : b \in Rows' <=> b \in Rows /\ Number[b] <= n
        /\ progress' = [b \in Blocks |-> IF Number[b] <= n THEN progress[b] ELSE "absent"]
        /\ prunedBlocks' = {b \in prunedBlocks : Number[b] <= n}
        /\ table' = [k \in {l \in DOMAIN table : Number[l.block] <= n} |-> table[k]]
        /\ \E b \in UnprunedAt(n) :
             /\ latestCanonical' = IF CanonicalNumber > n THEN b ELSE latestCanonical
             /\ late' = (late \/ (CanonicalNumber > n /\ Dead(b)))
  BY RestartCases
<1>2. PICK b \in UnprunedAt(n) :
        /\ latestCanonical' = IF CanonicalNumber > n THEN b ELSE latestCanonical
        /\ late' = (late \/ (CanonicalNumber > n /\ Dead(b)))
  BY <1>1
<1>3. ~late
  BY <1>2
<1>4. latestCanonical \in Blocks /\ CanonicalNumber \in Nat /\ b \in Blocks /\ Number[b] = n
  BY RowsFacts DEF TypeInv, UnprunedAt
<1>5. CASE CanonicalNumber > n
  <2>1. ~Dead(b) /\ latestCanonical' = b
    BY <1>2, <1>5
  <2>2. b \in Chain[b] /\ Number[b] <= CanonicalNumber
    BY <1>4, <1>5, ChainDef
  <2>3. b \in Chain[latestCanonical]
    BY <1>4, <2>1, <2>2, NotDead
  <2>4. QED BY <1>1, <1>3, <1>4, <2>1, <2>3
<1>6. CASE ~(CanonicalNumber > n)
  <2>1. latestCanonical' = latestCanonical /\ latestCanonical \in Chain[latestCanonical]
    BY <1>2, <1>4, <1>6, ChainDef
  <2>2. QED BY <1>1, <1>3, <2>1
<1>7. QED BY <1>5, <1>6

LEMMA RestartCanonical ==
  ASSUME TypeInv, PruneInv, CanonicalInv, Restart, ~late'
  PROVE  CanonicalInv'
<1>1. PICK n \in Nat :
        /\ table' = [k \in {l \in DOMAIN table : Number[l.block] <= n} |-> table[k]]
        /\ latestCanonical' \in Chain[latestCanonical]
  BY RestartBelow
<1>2. latestCanonical \in Blocks
  BY RowsFacts DEF TypeInv
<1>3. Trunk(latestCanonical')
  BY <1>1, <1>2, TrunkChain DEF CanonicalInv
<1>4. \A c \in Chain[latestCanonical'] : c \in Chain[latestCanonical]
  BY <1>1, <1>2, ChainOfAncestor
<1>5. \A n0, c : OnlyOf(n0, c) => OnlyOf(n0, c)'
  BY <1>1 DEF OnlyOf
<1>6. \A c \in Chain[latestCanonical'] : OnlyOf(Number[c], c)'
  BY <1>4, <1>5 DEF CanonicalInv
<1>7. QED BY ONLY <1>3, <1>6 DEF CanonicalInv, Trunk, OnlyOf

LEMMA StepKeepsCanonical ==
  ASSUME TypeInv, PruneInv, OneVersionInv, CanonicalInv, [Next]_vars, ~late'
  PROVE  CanonicalInv'
<1>1. UNCHANGED <<latestCanonical, table>> => CanonicalInv'
  BY StillCanonical
<1>2. ASSUME NEW b \in Blocks, IndexBlock(b) \/ IndexBlockAgain(b) PROVE CanonicalInv'
  <2>1. UNCHANGED <<latestCanonical, table>>
    BY <1>2 DEF IndexBlock, SaveBlock, IndexBlockAgain, IndexAgain
  <2>2. QED BY <1>1, <2>1
<1>3. ASSUME NEW b \in Blocks, TakeEventsJob(b) PROVE CanonicalInv'
  <2>1. UNCHANGED <<latestCanonical, table>>
    BY <1>3 DEF TakeEventsJob, storeVars
  <2>2. QED BY <1>1, <2>1
<1>4. ASSUME NEW a \in Blocks, MarkBlocksAsPruned(a) PROVE CanonicalInv'
  BY <1>4, MarkCanonical
<1>5. UpdateCanonicalBlock => CanonicalInv'
  BY UpdateCanonicalCanonical
<1>6. PruneCachedEntities \/ PruneFrothyEntities => CanonicalInv'
  BY <1>1 DEF PruneCachedEntities, PruneFrothyEntities
<1>7. Saves => CanonicalInv'
  BY <1>1 DEF Saves, Save
<1>8. Commits => CanonicalInv'
  BY CommitCanonical
<1>9. Reads => CanonicalInv'
  BY <1>1 DEF Reads, storeVars
<1>10. Throw => CanonicalInv'
  BY <1>1 DEF Throw
<1>11. UpdateProgress \/ CompleteBlock => CanonicalInv'
  BY <1>1, WriteCases
<1>12. Restart => CanonicalInv'
  BY RestartCanonical
<1>13. QED BY ONLY <1>1, <1>2, <1>3, <1>4, <1>5, <1>6, <1>7, <1>8, <1>9, <1>10, <1>11, <1>12,
       StepCases, TypeInv, PruneInv, [Next]_vars

-----------------------------------------------------------------------------
(* What is read at a block. *)

\* At a block that is not dead the version is its own or what is read at its parent, on both
\* sides of the canonical block.
ReadsAlongChain ==
  \A id \in Ids : \A b \in Blocks : ~Dead(b) =>
    FromTable(b, id) = IF Key(id, b) \in DOMAIN table THEN table[Key(id, b)]
                       ELSE IF b = StartBlock THEN NoEntity ELSE FromTable(Parent[b], id)

\* At and below the canonical block.
LEMMA ReadBelow ==
  ASSUME TypeInv, PruneInv, MarkedInv, CanonicalInv, NEW id \in Ids,
         NEW b \in Chain[latestCanonical]
  PROVE  FromTable(b, id) = LatestUnpruned(id, Number[b])
<1>1. PICK q : q = latestCanonical
  OBVIOUS
<1>2. q \in Blocks /\ Number[q] = CanonicalNumber /\ Trunk(q)
  BY <1>1, RowsFacts DEF TypeInv, CanonicalNumber, CanonicalInv
<1>3. b \in Blocks /\ Number[b] \in Nat /\ Number[b] <= CanonicalNumber /\ CanonicalNumber \in Nat
  BY <1>1, <1>2, ChainBelow
<1>4. ~Off(b)
  BY <1>1, <1>2, TrunkChain, TrunkNotOff
<1>5. OnlyOf(Number[b], b)
  BY DEF CanonicalInv
<1>6. CASE Key(id, b) \in DOMAIN table
  <2>1. ~table[Key(id, b)].isPruned
    BY <1>4, <1>6 DEF MarkedInv, Key
  <2>2. LatestUnpruned(id, Number[b]) = table[Key(id, b)]
    BY <1>3, <1>5, <1>6, <2>1, LatestAt DEF TypeInv
  <2>3. QED BY <1>3, <1>6, <2>2, FromTableDef DEF TypeInv
<1>7. CASE Key(id, b) \notin DOMAIN table
  <2>1. ~(Number[b] > CanonicalNumber)
    BY <1>3
  <2>2. QED BY <1>3, <1>7, <2>1, FromTableDef DEF TypeInv
<1>8. QED BY <1>6, <1>7

LEMMA NoVersionBelow ==
  ASSUME TypeInv, PruneInv, MarkedInv, CanonicalInv, NEW id \in Ids,
         NEW b \in Chain[latestCanonical], Key(id, b) \notin DOMAIN table
  PROVE  FromTable(b, id) = IF b = StartBlock THEN NoEntity ELSE FromTable(Parent[b], id)
<1>1. latestCanonical \in Blocks
  BY RowsFacts DEF TypeInv
<1>2. b \in Blocks /\ Number[b] \in Nat
  BY <1>1, ChainBelow
<1>3. FromTable(b, id) = LatestUnpruned(id, Number[b])
  BY ReadBelow
<1>4. ASSUME NEW k \in DOMAIN table, k.id = id, Number[k.block] = Number[b], ~table[k].isPruned
      PROVE  FALSE
  <2>1. k.block = b
    BY <1>4 DEF CanonicalInv, OnlyOf
  <2>2. k \in [id : Ids, block : Rows]
    BY DEF TypeInv, StoreTyped
  <2>3. k = Key(id, b)
    BY <1>4, <2>1, <2>2 DEF Key
  <2>4. QED BY <2>3
<1>5. CASE b = StartBlock
  <2>1. Number[b] = 0
    BY <1>5, BlockAssumption
  <2>2. \A k \in DOMAIN table : Number[k.block] \in Nat
    BY BlockAssumption DEF TypeInv, StoreTyped, Rows
  <2>3. Versions(id, Number[b]) = {}
    BY <1>4, <2>1, <2>2 DEF Versions
  <2>4. LatestUnpruned(id, Number[b]) = NoEntity
    BY <2>3, LatestUnprunedDef DEF TypeInv
  <2>5. QED BY <1>3, <1>5, <2>4
<1>6. CASE b # StartBlock
  <2>1. PICK d : d = Parent[b]
    OBVIOUS
  <2>2. d \in Blocks /\ Number[b] = Number[d] + 1 /\ Number[d] \in Nat /\ d \in Chain[b]
    BY <1>2, <1>6, <2>1, ParentBelow, ChainDef
  <2>3. d \in Chain[latestCanonical]
    BY <1>1, <2>2, ChainOfAncestor
  <2>4. FromTable(d, id) = LatestUnpruned(id, Number[d])
    BY <2>3, ReadBelow
  <2>5. LatestUnpruned(id, Number[d] + 1) = LatestUnpruned(id, Number[d])
    BY <1>4, <2>2, LatestBelow DEF TypeInv
  <2>6. QED BY <1>3, <1>6, <2>1, <2>2, <2>4, <2>5
<1>7. QED BY <1>5, <1>6

LEMMA ReadsAlways ==
  TypeInv /\ PruneInv /\ MarkedInv /\ CanonicalInv => ReadsAlongChain
<1> SUFFICES ASSUME TypeInv, PruneInv, MarkedInv, CanonicalInv, NEW id \in Ids, NEW b \in Blocks, ~Dead(b)
             PROVE  FromTable(b, id) = IF Key(id, b) \in DOMAIN table THEN table[Key(id, b)]
                                       ELSE IF b = StartBlock THEN NoEntity ELSE FromTable(Parent[b], id)
  BY DEF ReadsAlongChain
<1>1. CASE Key(id, b) \in DOMAIN table
  BY <1>1, FromTableDef DEF TypeInv
<1>2. CASE Key(id, b) \notin DOMAIN table /\ Number[b] > CanonicalNumber
  <2>1. b # StartBlock
    BY <1>2, RowsFacts, BlockAssumption DEF TypeInv
  <2>2. FromTable(b, id) = FromTable(Parent[b], id)
    BY <1>2, FromTableDef DEF TypeInv
  <2>3. QED BY <1>2, <2>1, <2>2
<1>3. CASE Key(id, b) \notin DOMAIN table /\ ~(Number[b] > CanonicalNumber)
  <2>1. Number[b] <= CanonicalNumber /\ b \in Chain[b]
    BY <1>3, RowsFacts, ChainDef, BlockAssumption DEF TypeInv
  <2>2. b \in Chain[latestCanonical]
    BY <2>1, NotDead
  <2>3. QED BY <1>3, <2>2, NoVersionBelow
<1>4. QED BY <1>1, <1>2, <1>3

\* What is dead stays on no chain of a living block.
LEMMA DeadBelow ==
  ASSUME NEW b \in Blocks, NEW c \in Chain[b], Dead(c)
  PROVE  Dead(b)
  BY ChainOfAncestor DEF Dead

\* The versions of a block are what they were, marked or not.
SameVersions(c) ==
  \A id \in Ids :
    /\ Key(id, c) \in DOMAIN table' <=> Key(id, c) \in DOMAIN table
    /\ Key(id, c) \in DOMAIN table => Unmarked(table'[Key(id, c)]) = Unmarked(table[Key(id, c)])

\* What is read at a block depends on the versions of its chain only.
LEMMA SameRead ==
  ASSUME ReadsAlongChain, ReadsAlongChain', NEW b \in Blocks, ~Dead(b), ~Dead(b)',
         \A c \in Chain[b] : SameVersions(c)
  PROVE  EntitiesAt(b)' = EntitiesAt(b)
<1>1. ASSUME NEW c \in Chain[b] PROVE c \in Blocks /\ ~Dead(c) /\ ~Dead(c)'
  <2>1. c \in Blocks
    BY ChainBelow
  <2>2. Dead(c)' => Dead(b)'
    BY ChainOfAncestor DEF Dead
  <2>3. QED BY <2>1, <2>2, DeadBelow
<1>2. SUFFICES ASSUME NEW id \in Ids
               PROVE  Unmarked(FromTable(b, id)') = Unmarked(FromTable(b, id))
  BY DEF EntitiesAt, Unmarked
<1>3. PICK f : f = [c \in Blocks |-> FromTable(c, id)]
  OBVIOUS
<1>4. PICK g : g = [c \in Blocks |-> FromTable(c, id)']
  OBVIOUS
<1>5. ASSUME NEW c \in Chain[b]
      PROVE  f[c] = IF Key(id, c) \in DOMAIN table THEN table[Key(id, c)]
                    ELSE IF c = StartBlock THEN NoEntity ELSE f[Parent[c]]
  <2>1. c \in Blocks /\ ~Dead(c) /\ (c # StartBlock => Parent[c] \in Blocks)
    BY <1>1, ParentBelow
  <2>2. FromTable(c, id) = IF Key(id, c) \in DOMAIN table THEN table[Key(id, c)]
                           ELSE IF c = StartBlock THEN NoEntity ELSE FromTable(Parent[c], id)
    BY <2>1 DEF ReadsAlongChain
  <2>3. QED BY <1>3, <2>1, <2>2
<1>6. ASSUME NEW c \in Chain[b]
      PROVE  g[c] = IF Key(id, c) \in DOMAIN table' THEN table'[Key(id, c)]
                    ELSE IF c = StartBlock THEN NoEntity ELSE g[Parent[c]]
  <2>1. c \in Blocks /\ ~Dead(c)' /\ (c # StartBlock => Parent[c] \in Blocks)
    BY <1>1, ParentBelow
  <2>2. (FromTable(c, id) = IF Key(id, c) \in DOMAIN table THEN table[Key(id, c)]
                            ELSE IF c = StartBlock THEN NoEntity ELSE FromTable(Parent[c], id))'
    BY <2>1 DEF ReadsAlongChain
  <2>3. QED BY <1>4, <2>1, <2>2 DEF Key
<1> DEFINE Bad == {c \in Chain[b] : Unmarked(g[c]) # Unmarked(f[c])}
<1>7. ASSUME Bad # {} PROVE FALSE
  <2>1. Bad \subseteq Blocks
    BY <1>1
  <2>2. PICK m \in Bad : \A c \in Bad : Number[m] <= Number[c]
    BY <1>7, <2>1, LowestBlock
  <2>3. m \in Chain[b] /\ m \in Blocks /\ Unmarked(g[m]) # Unmarked(f[m])
    BY <2>1, <2>2
  <2>4. SameVersions(m)
    BY <2>3
  <2>5. Key(id, m) \notin DOMAIN table /\ Key(id, m) \notin DOMAIN table'
    BY <1>5, <1>6, <2>3, <2>4 DEF SameVersions
  <2>6. m # StartBlock
    BY <1>5, <1>6, <2>3, <2>5
  <2>7. g[m] = g[Parent[m]] /\ f[m] = f[Parent[m]]
    BY <1>5, <1>6, <2>3, <2>5, <2>6
  <2>8. /\ Parent[m] \in Blocks /\ Number[m] = Number[Parent[m]] + 1 /\ Number[Parent[m]] \in Nat
        /\ Parent[m] \in Chain[m]
    BY <2>3, <2>6, ParentBelow, ChainDef
  <2>9. Parent[m] \in Chain[b]
    BY <2>3, <2>8, ChainOfAncestor
  <2>10. Parent[m] \in Bad
    BY <2>3, <2>7, <2>9
  <2>11. QED BY <2>2, <2>8, <2>10
<1>8. b \in Chain[b]
  BY ChainDef
<1>9. Unmarked(g[b]) = Unmarked(f[b])
  BY <1>7, <1>8
<1>10. QED BY <1>3, <1>4, <1>9

-----------------------------------------------------------------------------
(* The refinement of EntityHistory. *)

LEMMA LiveFacts ==
  ASSUME NEW b \in LiveRows
  PROVE  ~late /\ b \in Rows /\ b \in Blocks /\ ~Dead(b)
  BY DEF LiveRows, Rows

LEMMA InvReads == HistoryInv => (~late => ReadsAlongChain)
  BY ReadsAlways DEF HistoryInv, PositionsInv, VersionsInv

LEMMA SameEntities ==
  ASSUME HistoryInv, HistoryInv', NEW b \in LiveRows, b \in LiveRows',
         \A c \in Chain[b] : SameVersions(c)
  PROVE  EntitiesAt(b)' = EntitiesAt(b)
<1>1. ~late /\ b \in Blocks /\ ~Dead(b)
  BY LiveFacts
<1>2. ~late' /\ ~Dead(b)'
  BY DEF LiveRows
<1>3. HistoryInv' => (~late' => ReadsAlongChain')
  BY InvReads, PTL
<1>4. ReadsAlongChain /\ ReadsAlongChain'
  BY <1>1, <1>2, <1>3, InvReads
<1>5. QED BY ONLY <1>1, <1>2, <1>4, \A c \in Chain[b] : SameVersions(c), SameRead

\* Blocks are forgotten, or nothing changes.
LEMMA Forgets ==
  ASSUME HistoryInv, HistoryInv', LiveRows' \subseteq LiveRows,
         \A b \in LiveRows' : progress'[b] = progress[b] /\ \A c \in Chain[b] : SameVersions(c)
  PROVE  History!Next
<1>1. \A b \in LiveRows' : EntitiesAt(b)' = EntitiesAt(b)
  BY SameEntities
<1> DEFINE V == [b \in LiveRows |-> EntitiesAt(b)]
           O == {b \in LiveRows : progress[b] = "incomplete"}
<1>2. DOMAIN V = LiveRows /\ DOMAIN V' = LiveRows'
  OBVIOUS
<1>3. \A b \in LiveRows' : V'[b] = V[b]
  BY <1>1
<1>4. O' = O \cap LiveRows'
  OBVIOUS
<1>5. QED BY <1>2, <1>3, <1>4 DEF History!Next, History!Forget

LEMMA ForgetsAll ==
  ASSUME HistoryInv, HistoryInv', late'
  PROVE  History!Next
<1>1. LiveRows' = {}
  BY DEF LiveRows
<1>2. QED BY <1>1, Forgets

LEMMA SameLife ==
  ASSUME UNCHANGED <<prunedBlocks, latestCanonical>>
  PROVE  \A b : Dead(b)' <=> Dead(b)
  BY DEF Dead, CanonicalNumber

LEMMA SameTable ==
  ASSUME table' = table
  PROVE  \A c : SameVersions(c)
  BY DEF SameVersions

LEMMA SameHistory ==
  ASSUME HistoryInv, HistoryInv',
         UNCHANGED <<progress, prunedBlocks, latestCanonical, table, late>>
  PROVE  History!Next
<1>1. \A b : Dead(b)' <=> Dead(b)
  BY SameLife
<1>2. LiveRows' = LiveRows
  BY <1>1 DEF LiveRows, Rows
<1>3. QED BY <1>2, SameTable, Forgets

\* A block that is saved starts with what is read at its parent.
LEMMA IndexHistory ==
  ASSUME HistoryInv, HistoryInv', NEW b \in Blocks, IndexBlock(b), ~late'
  PROVE  History!Next
<1>1. PICK v \in {"incomplete", "complete"} : progress' = [progress EXCEPT ![b] = v]
  BY DEF IndexBlock, SaveBlock
<1>2. /\ progress[b] = "absent" /\ b # StartBlock /\ progress[Parent[b]] = "complete"
      /\ UNCHANGED <<prunedBlocks, latestCanonical, table, late>>
  BY DEF IndexBlock, SaveBlock
<1>3. TypeInv
  BY DEF HistoryInv, PositionsInv
<1>4. \A c \in Blocks : progress'[c] = IF c = b THEN v ELSE progress[c]
  BY <1>1, <1>3 DEF TypeInv, StoreTyped
<1>5. b \notin Rows /\ Rows' = Rows \cup {b}
  BY <1>2, <1>4 DEF Rows
<1>6. ~late /\ (\A c : Dead(c)' <=> Dead(c)) /\ \A c : SameVersions(c)
  BY <1>2, SameLife, SameTable
<1>7. LiveRows = {c \in Rows : ~Dead(c)} /\ LiveRows' = {c \in Rows' : ~Dead(c)'}
  BY <1>6 DEF LiveRows
<1>8. CASE Dead(b)
  <2>1. LiveRows' = LiveRows
    BY <1>5, <1>6, <1>7, <1>8
  <2>2. \A c \in LiveRows' : progress'[c] = progress[c]
    BY <1>4, <1>5, <1>7, <2>1, LiveFacts
  <2>3. QED BY <1>6, <2>1, <2>2, Forgets
<1>9. CASE ~Dead(b)
  <2>1. PICK a : a = Parent[b]
    OBVIOUS
  <2>2. a \in Blocks /\ a \in Chain[b] /\ a # b
    BY <1>2, <2>1, ParentBelow, ChainDef
  <2>3. a \in LiveRows /\ progress[a] = "complete"
    BY <1>2, <1>7, <1>9, <2>1, <2>2, DeadBelow DEF Rows
  <2>4. LiveRows' = LiveRows \cup {b} /\ b \notin LiveRows
    BY <1>5, <1>6, <1>7, <1>9
  <2>5. \A c \in LiveRows : EntitiesAt(c)' = EntitiesAt(c)
    BY <1>6, <2>4, SameEntities
  <2>6. EntitiesAt(b)' = EntitiesAt(a)'
    <3>1. HistoryInv' => (~late' => ReadsAlongChain')
      BY InvReads, PTL
    <3>2. ~Dead(b)'
      BY <1>6, <1>9
    <3>3. ASSUME NEW id \in Ids PROVE FromTable(b, id)' = FromTable(a, id)'
      <4>1. Key(id, b) \notin DOMAIN table'
        BY <1>2, <1>3, <1>5 DEF TypeInv, StoreTyped, Key
      <4>2. (FromTable(b, id) = IF Key(id, b) \in DOMAIN table THEN table[Key(id, b)]
                                ELSE IF b = StartBlock THEN NoEntity ELSE FromTable(Parent[b], id))'
        BY <3>1, <3>2 DEF ReadsAlongChain
      <4>3. QED BY <1>2, <2>1, <4>1, <4>2 DEF Key
    <3>4. QED BY <3>3 DEF EntitiesAt, Unmarked
  <2> DEFINE V == [c \in LiveRows |-> EntitiesAt(c)]
             O == {c \in LiveRows : progress[c] = "incomplete"}
  <2>7. DOMAIN V = LiveRows
    OBVIOUS
  <2>8. V' = [c \in LiveRows \cup {b} |-> IF c = b THEN V[Parent[b]] ELSE V[c]]
    BY <2>1, <2>3, <2>4, <2>5, <2>6
  <2>9. O' \in {O, O \cup {b}}
    <3>1. \A c \in LiveRows : progress'[c] = progress[c]
      BY <1>4, <2>4, LiveFacts
    <3>2. QED BY <2>4, <3>1
  <2>10. a \notin O
    BY <2>3
  <2>11. History!AddBlock(b)
    BY <2>1, <2>3, <2>4, <2>7, <2>8, <2>9, <2>10 DEF History!AddBlock
  <2>12. QED BY <2>11 DEF History!Next
<1>10. QED BY <1>8, <1>9

\* What an events job commits in time shows at its block alone.
LEMMA CommitHistory ==
  ASSUME HistoryInv, HistoryInv', Commits, ~late'
  PROVE  History!Next
<1>1. TypeInv /\ PruneInv
  BY DEF HistoryInv, PositionsInv
<1>2. PICK b : b = Block
  OBVIOUS
<1>3. /\ b \in Rows /\ b \in Blocks /\ progress[b] # "complete"
      /\ UNCHANGED <<progress, prunedBlocks, latestCanonical>>
      /\ late' = (late \/ Dead(b))
      /\ \A k \in DOMAIN table' : k.block = b \/ (k \in DOMAIN table /\ table'[k] = table[k])
      /\ \A k \in DOMAIN table : k \in DOMAIN table' /\ (k.block # b => table'[k] = table[k])
  BY <1>1, <1>2, CommitKeys
<1>4. ~late /\ ~Dead(b) /\ \A c : Dead(c)' <=> Dead(c)
  BY <1>3, SameLife
<1>5. LiveRows' = LiveRows /\ b \in LiveRows
  BY <1>3, <1>4 DEF LiveRows, Rows
<1>6. progress[b] = "incomplete"
  BY <1>1, <1>3 DEF TypeInv, StoreTyped, Rows
<1>7. ASSUME NEW c \in LiveRows \ {b} PROVE EntitiesAt(c)' = EntitiesAt(c)
  <2>1. c \in Rows /\ c \in Blocks
    BY LiveFacts
  <2>2. b \notin Chain[c]
    BY <1>1, <1>3, <2>1, AncestorsComplete
  <2>3. ASSUME NEW d \in Chain[c] PROVE SameVersions(d)
    BY <1>3, <2>2 DEF SameVersions, Key
  <2>4. QED BY <1>5, <2>3, SameEntities
<1> DEFINE V == [c \in LiveRows |-> EntitiesAt(c)]
           O == {c \in LiveRows : progress[c] = "incomplete"}
<1>8. DOMAIN V = LiveRows /\ DOMAIN V' = LiveRows
  BY <1>5
<1>9. \A c \in LiveRows \ {b} : V'[c] = V[c]
  BY <1>5, <1>7
<1>10. O' = O /\ b \in O
  BY <1>3, <1>5, <1>6
<1>11. History!Change(b)
  BY <1>8, <1>9, <1>10 DEF History!Change
<1>12. QED BY <1>3, <1>11 DEF History!Next

LEMMA CompleteHistory ==
  ASSUME HistoryInv, HistoryInv', CompleteBlock, ~late'
  PROVE  History!Next
<1>1. TypeInv /\ PruneInv
  BY DEF HistoryInv, PositionsInv
<1>2. PICK b : b = Block
  OBVIOUS
<1>3. /\ ~late /\ UNCHANGED <<prunedBlocks, latestCanonical, table>> /\ Rows' = Rows
  BY <1>1, WriteCases
<1>4. /\ handler.step = "next" /\ progress' = [progress EXCEPT ![b] = "complete"]
      /\ WriteRow(Block, handler.wasPruned)
  BY <1>2 DEF CompleteBlock
<1>5. b \in Rows /\ b \in Blocks
  BY <1>1, <1>2, <1>4, HandlerBusy
<1>6. ~Dead(b)
  BY <1>1, <1>2, <1>4, <1>5, WriteRowInTime
<1>7. (\A c : Dead(c)' <=> Dead(c)) /\ \A c : SameVersions(c)
  BY <1>3, SameLife, SameTable
<1>8. LiveRows' = LiveRows /\ b \in LiveRows
  BY <1>3, <1>5, <1>6, <1>7 DEF LiveRows
<1>9. \A c \in Blocks : progress'[c] = IF c = b THEN "complete" ELSE progress[c]
  BY <1>1, <1>4 DEF TypeInv, StoreTyped
<1>10. CASE progress[b] = "complete"
  <2>1. \A c \in LiveRows' : progress'[c] = progress[c]
    BY <1>8, <1>9, <1>10, LiveFacts
  <2>2. QED BY <1>7, <1>8, <2>1, Forgets
<1>11. CASE progress[b] # "complete"
  <2>1. progress[b] = "incomplete"
    BY <1>1, <1>5, <1>11 DEF TypeInv, StoreTyped, Rows
  <2>2. \A c \in LiveRows : EntitiesAt(c)' = EntitiesAt(c)
    BY <1>7, <1>8, SameEntities
  <2> DEFINE V == [c \in LiveRows |-> EntitiesAt(c)]
             O == {c \in LiveRows : progress[c] = "incomplete"}
  <2>3. V' = V
    BY <1>8, <2>2
  <2>4. b \in O /\ O' = O \ {b}
    <3>1. \A c \in LiveRows : progress'[c] = IF c = b THEN "complete" ELSE progress[c]
      BY <1>9, LiveFacts
    <3>2. QED BY <1>8, <2>1, <3>1
  <2>5. History!Complete(b)
    BY <2>3, <2>4 DEF History!Complete
  <2>6. QED BY <1>5, <2>5 DEF History!Next
<1>12. QED BY <1>10, <1>11

LEMMA MarkHistory ==
  ASSUME HistoryInv, HistoryInv', NEW a \in Blocks, MarkBlocksAsPruned(a)
  PROVE  History!Next
<1>1. PICK S : table' = PruneEntities(S) /\ prunedBlocks' = prunedBlocks \cup S
  BY DEF MarkBlocksAsPruned
<1>2. UNCHANGED <<progress, latestCanonical, late>>
  BY DEF MarkBlocksAsPruned
<1>3. \A b : Dead(b) => Dead(b)'
  BY <1>1, <1>2 DEF Dead, CanonicalNumber
<1>4. LiveRows' \subseteq LiveRows
  BY <1>2, <1>3 DEF LiveRows, Rows
<1>5. /\ DOMAIN table' = DOMAIN table
      /\ \A k \in DOMAIN table : Unmarked(table'[k]) = Unmarked(table[k])
  BY <1>1, PruneEntitiesTyped DEF HistoryInv, PositionsInv, TypeInv
<1>6. \A c : SameVersions(c)
  BY <1>5 DEF SameVersions
<1>7. QED BY <1>2, <1>4, <1>6, Forgets

LEMMA UpdateCanonicalHistory ==
  ASSUME HistoryInv, HistoryInv', UpdateCanonicalBlock, ~late'
  PROVE  History!Next
<1>1. UNCHANGED <<progress, prunedBlocks, table, late>>
  BY DEF UpdateCanonicalBlock
<1>2. PICK p, q : p = pruner.block /\ q = latestCanonical
  OBVIOUS
<1>3. /\ p = latestCanonical' /\ p \in Blocks /\ Number[p] = CanonicalNumber + 1
      /\ Chain[p] = {p} \cup Chain[q]
  BY <1>1, <1>2, NextCanonical DEF HistoryInv, PositionsInv
<1>4. CanonicalNumber = Number[q] /\ CanonicalNumber' = Number[q] + 1 /\ Number[q] \in Nat
  BY <1>2, <1>3, RowsFacts DEF HistoryInv, PositionsInv, TypeInv, CanonicalNumber
<1>5. ASSUME NEW b \in Blocks, Dead(b) PROVE Dead(b)'
  <2>1. PICK c \in Chain[b] : c \in prunedBlocks \/ (Number[c] <= Number[q] /\ c \notin Chain[q])
    BY <1>2, <1>4, <1>5 DEF Dead
  <2>2. Number[c] \in Nat
    BY ChainBelow
  <2>3. Number[c] <= Number[q] => c # p /\ Number[c] <= Number[q] + 1
    BY <1>3, <1>4, <2>2
  <2>4. c \in prunedBlocks' \/ (Number[c] <= CanonicalNumber' /\ c \notin Chain[latestCanonical'])
    BY <1>1, <1>3, <1>4, <2>1, <2>3
  <2>5. QED BY <2>4 DEF Dead
<1>6. LiveRows' \subseteq LiveRows
  BY <1>1, <1>5 DEF LiveRows, Rows
<1>7. QED BY <1>1, <1>6, SameTable, Forgets

LEMMA RestartHistory ==
  ASSUME HistoryInv, HistoryInv', Restart, ~late'
  PROVE  History!Next
<1>1. TypeInv /\ PruneInv
  BY DEF HistoryInv, PositionsInv
<1>2. PICK q, p : q = latestCanonical /\ p = latestCanonical'
  OBVIOUS
<1>3. PICK n \in Nat :
           /\ ~late
           /\ \A b : b \in Rows' <=> b \in Rows /\ Number[b] <= n
           /\ progress' = [b \in Blocks |-> IF Number[b] <= n THEN progress[b] ELSE "absent"]
           /\ prunedBlocks' = {b \in prunedBlocks : Number[b] <= n}
           /\ table' = [k \in {l \in DOMAIN table : Number[l.block] <= n} |-> table[k]]
           /\ p \in Chain[q]
           /\ p = q \/ Number[p] = n
  BY <1>1, <1>2, RestartBelow
<1>4. q \in Blocks /\ CanonicalNumber = Number[q] /\ CanonicalNumber' = Number[p]
  BY <1>1, <1>2, RowsFacts DEF TypeInv, CanonicalNumber
<1>5. p \in Blocks /\ Number[p] \in Nat /\ Number[q] \in Nat /\ Number[p] <= Number[q]
  BY <1>3, <1>4, ChainBelow
<1>6. ASSUME NEW b \in Rows' PROVE b \in Rows /\ b \in Blocks /\ \A c \in Chain[b] : Number[c] \in Nat /\ Number[c] <= n
  <2>1. b \in Rows /\ b \in Blocks /\ Number[b] <= n
    BY <1>3 DEF Rows
  <2>2. \A c \in Chain[b] : Number[c] \in Nat /\ Number[b] \in Nat /\ Number[c] <= Number[b]
    BY <2>1, ChainBelow
  <2>3. QED BY <2>1, <2>2
<1>7. ASSUME NEW b \in Rows', Dead(b) PROVE Dead(b)'
  <2>1. PICK c \in Chain[b] : c \in prunedBlocks \/ (Number[c] <= Number[q] /\ c \notin Chain[q])
    BY <1>2, <1>4, <1>7 DEF Dead
  <2>2. Number[c] \in Nat /\ Number[c] <= n
    BY <1>6
  <2>3. c \in prunedBlocks => c \in prunedBlocks'
    BY <1>3, <2>2
  <2>4. Number[c] <= Number[q] /\ c \notin Chain[q] => Number[c] <= Number[p] /\ c \notin Chain[p]
    BY <1>3, <1>4, <2>2, ChainOfAncestor
  <2>5. c \in prunedBlocks' \/ (Number[c] <= CanonicalNumber' /\ c \notin Chain[latestCanonical'])
    BY <1>2, <1>4, <2>1, <2>3, <2>4
  <2>6. QED BY <2>5 DEF Dead
<1>8. LiveRows' \subseteq LiveRows
  BY <1>3, <1>6, <1>7 DEF LiveRows
<1>9. ASSUME NEW b \in LiveRows' PROVE progress'[b] = progress[b] /\ \A c \in Chain[b] : SameVersions(c)
  <2>1. b \in Rows'
    BY DEF LiveRows
  <2>2. b \in Blocks /\ b \in Chain[b] /\ \A c \in Chain[b] : Number[c] <= n
    BY <1>6, <2>1, ChainDef
  <2>3. progress'[b] = progress[b]
    BY <1>3, <2>2
  <2>4. ASSUME NEW c \in Chain[b] PROVE SameVersions(c)
    BY <1>3, <2>2 DEF SameVersions, Key
  <2>5. QED BY <2>3, <2>4
<1>10. QED BY <1>8, <1>9, Forgets

LEMMA StepKeepsHistory ==
  ASSUME HistoryInv, HistoryInv', [Next]_vars
  PROVE  History!Next
<1>1. TypeInv /\ PruneInv
  BY DEF HistoryInv, PositionsInv
<1>2. SUFFICES ASSUME ~late' PROVE History!Next
  <2>1. late' \in BOOLEAN
    BY DEF HistoryInv, PositionsInv, TypeInv, StoreTyped
  <2>2. QED BY <2>1, ForgetsAll
<1>3. UNCHANGED <<progress, prunedBlocks, latestCanonical, table, late>> => History!Next
  BY SameHistory
<1>4. ASSUME NEW b \in Blocks, IndexBlock(b) PROVE History!Next
  BY <1>2, <1>4, IndexHistory
<1>5. ASSUME NEW b \in Blocks, IndexBlockAgain(b) PROVE History!Next
  BY <1>3, <1>5 DEF IndexBlockAgain, IndexAgain
<1>6. ASSUME NEW b \in Blocks, TakeEventsJob(b) PROVE History!Next
  <2>1. UNCHANGED <<progress, prunedBlocks, latestCanonical, table, late>>
    BY <1>6 DEF TakeEventsJob, storeVars
  <2>2. QED BY <1>3, <2>1
<1>7. ASSUME NEW a \in Blocks, MarkBlocksAsPruned(a) PROVE History!Next
  BY <1>7, MarkHistory
<1>8. UpdateCanonicalBlock => History!Next
  BY <1>2, UpdateCanonicalHistory
<1>9. PruneCachedEntities \/ PruneFrothyEntities => History!Next
  BY <1>3 DEF PruneCachedEntities, PruneFrothyEntities
<1>10. Saves => History!Next
  BY <1>3 DEF Saves, Save
<1>11. Commits => History!Next
  BY <1>2, CommitHistory
<1>12. Reads => History!Next
  BY <1>3 DEF Reads, storeVars
<1>13. Throw => History!Next
  BY <1>3 DEF Throw
<1>14. UpdateProgress => History!Next
  <2>1. SUFFICES ASSUME UpdateProgress PROVE History!Next
    OBVIOUS
  <2>2. progress' = progress
    BY <1>1, <2>1, UpdateProgressCases
  <2>3. ~late /\ UNCHANGED <<prunedBlocks, latestCanonical, table>>
    BY <1>1, <1>2, <2>1, WriteCases
  <2>4. late' = late
    BY <1>2, <2>3 DEF HistoryInv, PositionsInv, TypeInv, StoreTyped
  <2>5. QED BY <1>3, <2>2, <2>3, <2>4
<1>15. CompleteBlock => History!Next
  BY <1>2, CompleteHistory
<1>16. Restart => History!Next
  BY <1>2, RestartHistory
<1>17. QED BY ONLY <1>1, <1>3, <1>4, <1>5, <1>6, <1>7, <1>8, <1>9, <1>10, <1>11, <1>12, <1>13, <1>14,
       <1>15, <1>16, StepCases, [Next]_vars

LEMMA InitHistory == Init => HistoryInv /\ History!Init
<1> SUFFICES ASSUME Init PROVE HistoryInv /\ History!Init
  OBVIOUS
<1>1. PositionsInv
  BY InitTyped, InitPrune, InitCache DEF PositionsInv
<1>2. /\ progress = [b \in Blocks |-> IF b = StartBlock THEN "complete" ELSE "absent"]
      /\ prunedBlocks = {} /\ latestCanonical = StartBlock /\ table = <<>> /\ late = FALSE
  BY DEF Init, InitStore
<1>3. CanonicalInv
  BY <1>2 DEF CanonicalInv, Trunk, OnlyOf
<1>4. HistoryInv
  BY <1>1, <1>3 DEF HistoryInv
<1>5. StartBlock \in Blocks /\ Chain[StartBlock] = {StartBlock}
  BY BlockAssumption, ChainDef
<1>6. Rows = {StartBlock}
  BY <1>2, <1>5 DEF Rows
<1>7. ~Dead(StartBlock)
  BY <1>2, <1>5 DEF Dead
<1>8. LiveRows = {StartBlock}
  BY <1>2, <1>6, <1>7 DEF LiveRows
<1>9. ASSUME NEW id \in Ids PROVE Unmarked(FromTable(StartBlock, id)) = NoEntity
  <2>1. Key(id, StartBlock) \notin DOMAIN table
    BY <1>2
  <2>2. FromTable(StartBlock, id) = NoEntity
    BY <1>2, <1>4, <1>5, <1>7, <2>1, InvReads DEF ReadsAlongChain
  <2>3. QED BY <2>2 DEF Unmarked
<1>10. EntitiesAt(StartBlock) = [id \in Ids |-> NoEntity]
  BY <1>9 DEF EntitiesAt
<1>11. [b \in LiveRows |-> EntitiesAt(b)] = [b \in {StartBlock} |-> [id \in Ids |-> NoEntity]]
  BY <1>8, <1>10
<1>12. {b \in LiveRows : progress[b] = "incomplete"} = {}
  BY <1>2, <1>5, <1>8
<1>13. QED BY <1>4, <1>11, <1>12 DEF History!Init

LEMMA StepKeepsHistoryInv == HistoryInv /\ [Next]_vars => HistoryInv'
<1> SUFFICES ASSUME HistoryInv, [Next]_vars PROVE HistoryInv'
  OBVIOUS
<1>1. PositionsInv /\ TypeInv /\ PruneInv
  BY DEF HistoryInv, PositionsInv
<1>2. PositionsInv'
  BY <1>1, StepKeepsInv
<1>3. ASSUME ~late' PROVE CanonicalInv'
  <2>1. ~late
    BY <1>1, <1>3, StaysLate
  <2>2. OneVersionInv /\ CanonicalInv
    BY <1>1, <2>1 DEF HistoryInv, PositionsInv, VersionsInv
  <2>3. QED BY <1>1, <1>3, <2>2, StepKeepsCanonical
<1>4. QED BY <1>2, <1>3 DEF HistoryInv

\* The versions implement EntityHistory, for every tree of blocks, reorg depth and interval: a
\* new block starts with the entities of its parent, only its own events change what is read
\* there, and prune jobs, failures, restarts and moves of the canonical block only forget
\* blocks (getModelEntity, saveBlock, pruneEntities, updateSyncStatusCanonicalBlock,
\* resetWatcherToBlock).
THEOREM HistoryKept == Spec => KeepsHistory
<1>1. HistoryInv /\ HistoryInv' /\ [Next]_vars => [History!Next]_(History!vars)
  BY StepKeepsHistory
<1>2. QED BY <1>1, InitHistory, StepKeepsHistoryInv, PTL DEF Spec, KeepsHistory, History!Spec

=============================================================================
