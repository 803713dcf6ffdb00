---------------------------- MODULE ApplyProofs ----------------------------
(***************************************************************************)
(* What the position handlers compute, for every block tree, reorg depth,  *)
(* log and number of incidents: each event that is due reaches the         *)
(* position of its own chain, and its snapshot.                            *)
(***************************************************************************)
EXTENDS PositionsProofs

-----------------------------------------------------------------------------
(* What is read is the nearest version. *)

Nearest(id, b, d) ==
  /\ d \in Chain[b] /\ Key(id, d) \in DOMAIN table
  /\ \A c \in Chain[b] : Number[c] > Number[d] => Key(id, c) \notin DOMAIN table

\* Whether a block or one below it has a version.
Has(id, b) == \E c \in Chain[b] : Key(id, c) \in DOMAIN table

\* At a block that is not dead the version read is that of the nearest ancestor which has one.
LEMMA ReadsNearest ==
  ASSUME TypeInv, ReadsAlongChain, NEW b \in Blocks, ~Dead(b), NEW id \in Ids
  PROVE  \/ \E d \in Blocks : Nearest(id, b, d) /\ FromTable(b, id) = table[Key(id, d)]
         \/ FromTable(b, id) = NoEntity /\ ~Has(id, b)
<1>1. PICK f : f = [c \in Blocks |-> FromTable(c, id)]
  OBVIOUS
<1> DEFINE Claim(e) == \/ \E d \in Blocks : Nearest(id, e, d) /\ f[e] = table[Key(id, d)]
                       \/ f[e] = NoEntity /\ ~Has(id, e)
           Bad == {e \in Chain[b] : ~Claim(e)}
<1>2. ASSUME NEW e \in Chain[b]
      PROVE  /\ e \in Blocks
             /\ f[e] = IF Key(id, e) \in DOMAIN table THEN table[Key(id, e)]
                       ELSE IF e = StartBlock THEN NoEntity ELSE f[Parent[e]]
  <2>1. e \in Blocks
    BY ChainBelow
  <2>2. ~Dead(e)
    BY DeadBelow
  <2>3. FromTable(e, id) = IF Key(id, e) \in DOMAIN table THEN table[Key(id, e)]
                           ELSE IF e = StartBlock THEN NoEntity ELSE FromTable(Parent[e], id)
    BY <2>1, <2>2 DEF ReadsAlongChain
  <2>4. e # StartBlock => Parent[e] \in Blocks
    BY <2>1, ParentBelow
  <2>5. QED BY <1>1, <2>1, <2>3, <2>4
<1>3. ASSUME Bad # {} PROVE FALSE
  <2>1. Bad \subseteq Blocks
    BY <1>2
  <2>2. PICK m \in Bad : \A c \in Bad : Number[m] <= Number[c]
    <3> HIDE DEF Bad
    <3>1. QED BY <1>3, <2>1, LowestBlock
  <2>3. m \in Chain[b] /\ m \in Blocks /\ ~Claim(m)
    BY <2>1, <2>2
  <2>4. Number[m] \in Nat /\ \A c \in Chain[m] : Number[c] \in Nat /\ Number[c] <= Number[m]
    BY <2>3, ChainBelow, BlockAssumption
  <2>5. Key(id, m) \notin DOMAIN table
    <3>1. SUFFICES ASSUME Key(id, m) \in DOMAIN table PROVE Claim(m)
      BY <2>3
    <3>2. m \in Chain[m]
      BY <2>3, ChainDef
    <3>3. Nearest(id, m, m)
      BY <2>4, <3>1, <3>2 DEF Nearest
    <3>4. f[m] = table[Key(id, m)]
      BY <1>2, <2>3, <3>1
    <3>5. QED BY <2>3, <3>3, <3>4
  <2>6. m # StartBlock
    <3>1. SUFFICES ASSUME m = StartBlock PROVE Claim(m)
      BY <2>3
    <3>2. f[m] = NoEntity
      BY <1>2, <2>3, <2>5, <3>1
    <3>3. Chain[m] = {m}
      BY <3>1, ChainDef
    <3>4. QED BY <2>5, <3>2, <3>3 DEF Has
  <2>7. PICK a : a = Parent[m]
    OBVIOUS
  <2>8. /\ a \in Blocks /\ Number[m] = Number[a] + 1 /\ Number[a] \in Nat /\ a \in Chain[m]
        /\ Chain[m] = {m} \cup Chain[a]
    <3>1. a \in Blocks /\ Number[m] = Number[a] + 1 /\ Number[a] \in Nat
      BY <2>3, <2>6, <2>7, ParentBelow
    <3>2. Chain[m] = {m} \cup Chain[a] /\ a \in Chain[a]
      BY <2>3, <2>6, <2>7, <3>1, ChainDef
    <3>3. QED BY <3>1, <3>2
  <2>9. a \in Chain[b]
    BY <2>3, <2>8, ChainOfAncestor
  <2>10. Claim(a)
    BY <2>2, <2>4, <2>8, <2>9
  <2>11. f[m] = f[a]
    BY <1>2, <2>3, <2>5, <2>6, <2>7
  <2>12. Has(id, m) => Has(id, a)
    BY <2>5, <2>8 DEF Has
  <2>13. ASSUME NEW d \in Blocks, Nearest(id, a, d) PROVE Nearest(id, m, d)
    BY <2>5, <2>8, <2>13 DEF Nearest
  <2>14. QED BY <2>3, <2>10, <2>11, <2>12, <2>13
<1>4. b \in Chain[b]
  BY ChainDef
<1>5. Claim(b)
  BY <1>3, <1>4
<1>6. QED BY <1>1, <1>5

-----------------------------------------------------------------------------
(* The pool of a token. *)

Mentions(b, token) == \E i \in DOMAIN Events[b] : Events[b][i].token = token

LEMMA PoolOfDef ==
  ASSUME NEW b \in Blocks, NEW t
  PROVE  /\ b = StartBlock => PoolOf(b, t) = NoPool
         /\ b # StartBlock =>
              PoolOf(b, t) = IF PoolOf(Parent[b], t) # NoPool \/ ~Mentions(b, t)
                             THEN PoolOf(Parent[b], t) ELSE PoolAt[b][t]
<1> DEFINE S == {NoPool} \cup {PoolAt[c][t] : c \in Blocks}
           v == [c \in Blocks |-> NoPool]
           f == [c \in Blocks |-> [s \in S |-> IF s # NoPool \/ ~Mentions(c, t) THEN s ELSE PoolAt[c][t]]]
           Eq(g) == g = [c \in Blocks |->
                           LET before == IF c = StartBlock THEN NoPool ELSE g[Parent[c]]
                           IN IF before # NoPool \/ ~Mentions(c, t) THEN before ELSE PoolAt[c][t]]
<1>1. PICK g \in [Blocks -> S] : IsWalk(g, Blocks, {StartBlock}, v, f)
  <2>1. \A c \in {StartBlock} \cap Blocks : v[c] \in S
    OBVIOUS
  <2>2. \A c \in Blocks : \A s \in S : f[c][s] \in S
    OBVIOUS
  <2> HIDE DEF v, f, S
  <2>3. QED BY <2>1, <2>2, WalkExists
<1>2. \A c \in Blocks \ {StartBlock} : Parent[c] \in Blocks
  BY ParentBelow
<1>3. ~Mentions(StartBlock, t)
  BY EventsAssumption DEF Mentions
<1>4. \A c \in Blocks : g[c] = LET before == IF c = StartBlock THEN NoPool ELSE g[Parent[c]]
                               IN IF before # NoPool \/ ~Mentions(c, t) THEN before ELSE PoolAt[c][t]
  <2>1. ASSUME NEW c \in Blocks, c # StartBlock
        PROVE  g[c] = IF g[Parent[c]] # NoPool \/ ~Mentions(c, t) THEN g[Parent[c]] ELSE PoolAt[c][t]
    <3>1. g[Parent[c]] \in S
      BY <1>1, <1>2, <2>1
    <3>2. g[c] = f[c][g[Parent[c]]]
      BY <1>1, <2>1 DEF IsWalk
    <3> HIDE DEF S
    <3>3. QED BY <3>1, <3>2
  <2>2. g[StartBlock] = NoPool
    BY <1>1, BlockAssumption DEF IsWalk
  <2>3. QED BY <1>3, <2>1, <2>2
<1>5. Eq(g)
  <2> HIDE DEF S, f, v
  <2>1. QED BY <1>1, <1>4
<1> DEFINE h == CHOOSE h : Eq(h)
<1>6. ASSUME NEW x PROVE PoolOf(x, t) = h[x]
  BY DEF PoolOf, Mentions
<1>7. Eq(h)
  BY <1>5
<1> HIDE DEF h
<1>8. \A c \in Blocks : h[c] = LET before == IF c = StartBlock THEN NoPool ELSE h[Parent[c]]
                               IN IF before # NoPool \/ ~Mentions(c, t) THEN before ELSE PoolAt[c][t]
  BY <1>7
<1>9. QED BY <1>3, <1>6, <1>8

\* A token keeps its pool.
LEMMA PoolStays ==
  ASSUME NEW b \in Blocks, NEW d \in Chain[b], NEW t, PoolOf(d, t) # NoPool
  PROVE  PoolOf(b, t) = PoolOf(d, t)
<1>1. PICK p : p = [c \in Blocks |-> PoolOf(c, t)]
  OBVIOUS
<1> DEFINE Bad == {e \in Blocks : d \in Chain[e] /\ p[e] # p[d]}
<1>2. ASSUME Bad # {} PROVE FALSE
  <2>1. PICK m \in Bad : \A e \in Bad : Number[m] <= Number[e]
    BY <1>2, LowestBlock
  <2>2. m # StartBlock /\ d \in Chain[Parent[m]]
    BY <2>1, ChainBelow
  <2>3. Parent[m] \in Blocks /\ Number[m] = Number[Parent[m]] + 1 /\ Number[Parent[m]] \in Nat
    BY <2>2, ParentBelow
  <2>4. p[Parent[m]] = p[d]
    BY <2>1, <2>2, <2>3
  <2>5. d \in Blocks
    BY ChainBelow
  <2>6. p[m] = p[Parent[m]]
    BY <1>1, <2>2, <2>3, <2>4, <2>5, PoolOfDef
  <2>7. QED BY <2>1, <2>4, <2>6
<1>3. d \in Blocks
  BY ChainBelow
<1>4. QED BY <1>1, <1>2, <1>3

\* A token with a pool was mentioned where it had one.
LEMMA PoolMentioned ==
  ASSUME NEW b \in Blocks, NEW t, PoolOf(b, t) # NoPool
  PROVE  \E d \in Chain[b] : Mentions(d, t) /\ PoolOf(d, t) # NoPool
<1>1. PICK p : p = [c \in Blocks |-> PoolOf(c, t)]
  OBVIOUS
<1> DEFINE S == {e \in Chain[b] : p[e] # NoPool}
<1>2. S \subseteq Blocks /\ b \in S
  BY <1>1, ChainDef
<1>3. PICK m \in S : \A e \in S : Number[m] <= Number[e]
  <2> HIDE DEF S
  <2>1. QED BY <1>2, LowestBlock
<1>4. m \in Blocks /\ PoolOf(m, t) # NoPool /\ m \in Chain[b]
  BY <1>1, <1>2, <1>3
<1>5. m # StartBlock
  BY <1>4, PoolOfDef
<1>6. Parent[m] \in Blocks /\ Number[m] = Number[Parent[m]] + 1 /\ Number[Parent[m]] \in Nat
  BY <1>4, <1>5, ParentBelow
<1>7. Parent[m] \in Chain[m]
  BY <1>4, <1>5, <1>6, ChainDef
<1>8. Parent[m] \in Chain[b]
  BY <1>4, <1>7, ChainOfAncestor
<1>9. PoolOf(Parent[m], t) = NoPool
  BY <1>1, <1>3, <1>6, <1>8
<1>10. Mentions(m, t)
  BY <1>4, <1>5, <1>9, PoolOfDef
<1>11. QED BY <1>4, <1>10

-----------------------------------------------------------------------------
(* What applied events add up to. *)

AppliedTyped ==
  /\ applied \in [Blocks -> Seq(Nat)]
  /\ \A b \in Blocks : \A k \in DOMAIN applied[b] : applied[b][k] \in DOMAIN Events[b]

Names == {"IncreaseLiquidity", "DecreaseLiquidity", "Collect", "Transfer"}

LEMMA LoggedEvent ==
  ASSUME NEW b \in Blocks, NEW i \in DOMAIN Events[b]
  PROVE  /\ i \in Nat /\ i >= 1 /\ i <= Len(Events[b]) /\ Len(Events[b]) \in Nat
         /\ Events[b][i].name \in Names /\ Events[b][i].token \in Tokens
         /\ Events[b][i].amount \in Nat /\ Events[b][i].to \in Addresses
<1> DEFINE E == [name : Names, token : Tokens, amount : Nat, to : Addresses]
<1>1. Events[b] \in Seq(E)
  BY EventsAssumption DEF Names
<1> HIDE DEF E
<1>2. DOMAIN Events[b] = 1 .. Len(Events[b]) /\ Len(Events[b]) \in Nat
  BY <1>1
<1>3. Events[b][i] \in E
  BY <1>1, <1>2
<1>4. QED BY <1>2, <1>3 DEF E

LEMMA LogLength ==
  ASSUME NEW b \in Blocks
  PROVE  DOMAIN Events[b] = 1 .. Len(Events[b]) /\ Len(Events[b]) \in Nat
<1> DEFINE E == [name : Names, token : Tokens, amount : Nat, to : Addresses]
<1>1. Events[b] \in Seq(E)
  BY EventsAssumption DEF Names
<1> HIDE DEF E
<1>2. QED BY <1>1

\* The events applied to a block.
LEMMA AppliedFacts ==
  ASSUME AppliedTyped, NEW b \in Blocks
  PROVE  /\ applied[b] \in Seq(Nat) /\ Len(applied[b]) \in Nat
         /\ DOMAIN applied[b] = 1 .. Len(applied[b]) /\ IsFiniteSet(DOMAIN applied[b])
         /\ \A k \in DOMAIN applied[b] : /\ applied[b][k] \in DOMAIN Events[b]
                                        /\ AppliedEvent(b, k).amount \in Nat
<1>1. applied[b] \in Seq(Nat)
  BY DEF AppliedTyped
<1>2. Len(applied[b]) \in Nat /\ DOMAIN applied[b] = 1 .. Len(applied[b])
  BY <1>1
<1>3. IsFiniteSet(DOMAIN applied[b])
  BY <1>2, FS_Interval
<1>4. QED BY <1>1, <1>2, <1>3, LoggedEvent DEF AppliedTyped, AppliedEvent

\* What the events applied to a block itself add up to.
Part(b, t, name) == SumFunction([k \in DOMAIN applied[b] |-> Amount(AppliedEvent(b, k), t, name)])

LEMMA PartType ==
  ASSUME AppliedTyped, NEW b \in Blocks, NEW t, NEW name
  PROVE  /\ Part(b, t, name) \in Int
         /\ ~AppliedTo(b, t) => Part(b, t, name) = 0
<1> DEFINE f == [k \in DOMAIN applied[b] |-> Amount(AppliedEvent(b, k), t, name)]
<1>1. f \in [DOMAIN applied[b] -> Int]
  BY AppliedFacts DEF Amount
<1>2. ASSUME ~AppliedTo(b, t) PROVE f = [k \in DOMAIN applied[b] |-> 0]
  BY <1>2 DEF AppliedTo, Amount
<1>3. IsFiniteSet(DOMAIN applied[b])
  BY AppliedFacts
<1>4. Part(b, t, name) = SumFunction(f)
  BY DEF Part
<1> HIDE DEF f
<1>5. QED BY <1>1, <1>2, <1>3, <1>4, SumInt, SumZero

TotalsAddUp ==
  \A b \in Blocks : \A t, name, S :
    /\ Total(b, t, name, S) \in Int
    /\ Total(b, t, name, S) = (IF b = StartBlock THEN 0 ELSE Total(Parent[b], t, name, S))
                              + (IF b \notin S THEN 0 ELSE Part(b, t, name))

LEMMA TotalsUnfold == AppliedTyped => TotalsAddUp
<1> SUFFICES ASSUME AppliedTyped, NEW b \in Blocks, NEW t, NEW name, NEW S
             PROVE  /\ Total(b, t, name, S) \in Int
                    /\ Total(b, t, name, S) = (IF b = StartBlock THEN 0 ELSE Total(Parent[b], t, name, S))
                                              + (IF b \notin S THEN 0 ELSE Part(b, t, name))
  BY DEF TotalsAddUp
<1>1. PICK p : p = [c \in Blocks |-> IF c \notin S THEN 0 ELSE Part(c, t, name)]
  OBVIOUS
<1>2. \A c \in Blocks : p[c] \in Int /\ p[c] = IF c \notin S THEN 0 ELSE Part(c, t, name)
  BY <1>1, PartType
<1> DEFINE f == [c \in Blocks |-> [s \in Int |-> s + p[c]]]
           Eq(g) == g = [c \in Blocks |-> (IF c = StartBlock THEN 0 ELSE g[Parent[c]])
                       + IF c \notin S THEN 0
                         ELSE SumFunction([k \in DOMAIN applied[c] |-> Amount(AppliedEvent(c, k), t, name)])]
<1>3. PICK g \in [Blocks -> Int] : IsWalk(g, Blocks, {StartBlock}, p, f)
  <2>1. \A c \in {StartBlock} \cap Blocks : p[c] \in Int
    BY <1>2
  <2>2. \A c \in Blocks : \A s \in Int : f[c][s] \in Int
    BY <1>2
  <2> HIDE DEF f
  <2>3. QED BY <2>1, <2>2, WalkExists
<1>4. \A c \in Blocks \ {StartBlock} : Parent[c] \in Blocks
  BY ParentBelow
<1>5. ASSUME NEW c \in Blocks PROVE g[c] = (IF c = StartBlock THEN 0 ELSE g[Parent[c]]) + p[c]
  <2>1. CASE c = StartBlock
    <3>1. g[c] = p[c]
      BY <1>3, <2>1 DEF IsWalk
    <3>2. QED BY <1>2, <2>1, <3>1
  <2>2. CASE c # StartBlock
    <3>1. g[Parent[c]] \in Int
      BY <1>3, <1>4, <2>2
    <3>2. g[c] = f[c][g[Parent[c]]]
      BY <1>3, <2>2 DEF IsWalk
    <3>3. QED BY <2>2, <3>1, <3>2
  <2>3. QED BY <2>1, <2>2
<1>6. Eq(g)
  <2>1. \A c \in Blocks : p[c] = IF c \notin S THEN 0
          ELSE SumFunction([k \in DOMAIN applied[c] |-> Amount(AppliedEvent(c, k), t, name)])
    BY <1>2 DEF Part
  <2> HIDE DEF f
  <2>2. QED BY <1>3, <1>5, <2>1
<1> DEFINE h == CHOOSE h : Eq(h)
<1>7. ASSUME NEW x PROVE Total(x, t, name, S) = h[x]
  BY DEF Total
<1>8. Eq(h)
  BY <1>6
<1> HIDE DEF h
<1>9. \A c \in Blocks : h[c] = (IF c = StartBlock THEN 0 ELSE h[Parent[c]]) + p[c]
  BY <1>2, <1>8 DEF Part
<1>10. h[b] \in Int
  <2> DEFINE Bad == {c \in Blocks : h[c] \notin Int}
  <2>1. ASSUME Bad # {} PROVE FALSE
    <3>1. PICK m \in Bad : \A c \in Bad : Number[m] <= Number[c]
      BY <2>1, LowestBlock
    <3>2. m # StartBlock
      BY <1>2, <1>9, <3>1
    <3>3. Parent[m] \in Bad
      BY <1>2, <1>4, <1>9, <3>1, <3>2
    <3>4. QED BY <3>1, <3>2, <3>3, ParentBelow
  <2>2. QED BY <2>1
<1>11. h[b] = (IF b = StartBlock THEN 0 ELSE h[Parent[b]]) + (IF b \notin S THEN 0 ELSE Part(b, t, name))
  BY <1>2, <1>9
<1>12. QED BY <1>7, <1>10, <1>11

\* What passes on from parents to children holds along a chain.
LEMMA AlongChain ==
  ASSUME NEW b \in Blocks, NEW P, \A c \in Chain[b] : (c # StartBlock => Parent[c] \in P) => c \in P
  PROVE  Chain[b] \subseteq P
<1> DEFINE Bad == {c \in Chain[b] : c \notin P}
<1>1. ASSUME Bad # {} PROVE FALSE
  <2>1. Bad \subseteq Blocks
    BY ChainBelow
  <2>2. PICK m \in Bad : \A c \in Bad : Number[m] <= Number[c]
    <3> HIDE DEF Bad
    <3>1. QED BY <1>1, <2>1, LowestBlock
  <2>3. m # StartBlock /\ m \in Blocks
    BY <2>1, <2>2
  <2>4. Parent[m] \in Blocks /\ Number[m] = Number[Parent[m]] + 1 /\ Number[Parent[m]] \in Nat
    BY <2>3, ParentBelow
  <2>5. Parent[m] \in Chain[m]
    BY <2>3, <2>4, ChainDef
  <2>6. Parent[m] \in Chain[b]
    BY <2>2, <2>5, ChainOfAncestor
  <2>7. Parent[m] \in P
    BY <2>2, <2>4, <2>6
  <2>8. QED BY <2>2, <2>7
<1>2. QED BY <1>1

\* The same from a block of the chain up.
LEMMA AlongChainFrom ==
  ASSUME NEW b \in Blocks, NEW d \in Chain[b], NEW P, d \in P,
         \A c \in Chain[b] : Number[c] > Number[d] /\ Parent[c] \in P => c \in P
  PROVE  b \in P
<1> DEFINE Q == P \cup {c \in Chain[b] : ~(Number[c] >= Number[d])}
<1>1. d \in Blocks /\ Number[d] \in Nat /\ Number[b] \in Nat /\ Number[d] <= Number[b] /\ b \in Chain[b]
  BY ChainBelow
<1>2. ASSUME NEW c \in Chain[b], c # StartBlock => Parent[c] \in Q PROVE c \in Q
  <2>1. c \in Blocks /\ Number[c] \in Nat
    BY ChainBelow
  <2>2. CASE Number[c] = Number[d]
    <3>1. c \in Chain[d]
      BY <1>1, <2>1, <2>2, ChainOrder
    <3>2. c = d
      BY <1>1, <2>2, <3>1, ChainBelow
    <3>3. QED BY <3>2
  <2>3. CASE Number[c] > Number[d]
    <3>1. c # StartBlock
      BY <1>1, <2>1, <2>3, BlockAssumption
    <3>2. Number[c] = Number[Parent[c]] + 1 /\ Number[Parent[c]] \in Nat
      BY <2>1, <3>1, ParentBelow
    <3>3. Number[Parent[c]] >= Number[d]
      BY <1>1, <2>1, <2>3, <3>2
    <3>4. Parent[c] \in P
      BY <1>2, <3>1, <3>3
    <3>5. QED BY <2>3, <3>4
  <2>4. CASE ~(Number[c] >= Number[d])
    BY <2>4
  <2>5. QED BY <1>1, <2>1, <2>2, <2>3, <2>4
<1>3. Chain[b] \subseteq Q
  <2> HIDE DEF Q
  <2>1. QED BY <1>2, AlongChain
<1>4. QED BY <1>1, <1>3

\* The transfers of a token applied to a block.
Transfers(b, t) ==
  {k \in DOMAIN applied[b] : AppliedEvent(b, k).token = t /\ AppliedEvent(b, k).name = "Transfer"}

OwnersFollow ==
  \A b \in Blocks : \A t :
    Owner(b, t) = IF Transfers(b, t) # {} THEN AppliedEvent(b, Max(Transfers(b, t))).to
                  ELSE IF b = StartBlock THEN AddressZero ELSE Owner(Parent[b], t)

LEMMA OwnersUnfold == OwnersFollow
<1> SUFFICES ASSUME NEW b \in Blocks, NEW t
             PROVE  Owner(b, t) = IF Transfers(b, t) # {} THEN AppliedEvent(b, Max(Transfers(b, t))).to
                                  ELSE IF b = StartBlock THEN AddressZero ELSE Owner(Parent[b], t)
  BY DEF OwnersFollow
<1> DEFINE Stop == {c \in Blocks : Transfers(c, t) # {} \/ c = StartBlock}
           v == [c \in Blocks |-> IF Transfers(c, t) # {} THEN AppliedEvent(c, Max(Transfers(c, t))).to
                                  ELSE AddressZero]
           Eq(g) == g = [c \in Blocks |->
                           LET transfers == {k \in DOMAIN applied[c] : /\ AppliedEvent(c, k).token = t
                                                                      /\ AppliedEvent(c, k).name = "Transfer"}
                           IN IF transfers # {} THEN AppliedEvent(c, Max(transfers)).to
                              ELSE IF c = StartBlock THEN AddressZero ELSE g[Parent[c]]]
<1>1. PICK g : g = [c \in Blocks |-> IF c \in Stop THEN v[c] ELSE g[Parent[c]]]
  <2>1. StartBlock \in Stop
    BY BlockAssumption
  <2> HIDE DEF v, Stop
  <2>2. QED BY <2>1, PlainWalk
<1>2. g = [c \in Blocks |-> IF Transfers(c, t) # {} THEN AppliedEvent(c, Max(Transfers(c, t))).to
                           ELSE IF c = StartBlock THEN AddressZero ELSE g[Parent[c]]]
  BY <1>1
<1>3. Eq(g)
  BY <1>2 DEF Transfers
<1> DEFINE h == CHOOSE h : Eq(h)
<1>4. ASSUME NEW x PROVE Owner(x, t) = h[x]
  BY DEF Owner
<1>5. Eq(h)
  BY <1>3
<1>6. h = [c \in Blocks |-> IF Transfers(c, t) # {} THEN AppliedEvent(c, Max(Transfers(c, t))).to
                           ELSE IF c = StartBlock THEN AddressZero ELSE h[Parent[c]]]
  <2> HIDE DEF h
  <2>1. QED BY <1>5 DEF Transfers
<1> HIDE DEF h
<1>7. QED BY <1>4, <1>6

\* What events add up to depends on those applied on the chain only.
LEMMA SameTotals ==
  ASSUME AppliedTyped, AppliedTyped', NEW b \in Blocks, NEW t,
         \A c \in Chain[b] : applied'[c] = applied[c]
  PROVE  /\ \A name, S : Total(b, t, name, S)' = Total(b, t, name, S)
         /\ Owner(b, t)' = Owner(b, t)
<1>1. TotalsAddUp /\ OwnersFollow
  BY TotalsUnfold, OwnersUnfold
<1>2. (AppliedTyped => TotalsAddUp)' /\ OwnersFollow'
  BY TotalsUnfold, OwnersUnfold, PTL
<1>3. TotalsAddUp'
  BY <1>2
<1>4. b \in Chain[b] /\ Chain[b] \subseteq Blocks
  BY ChainDef
<1>5. ASSUME NEW c \in Chain[b]
      PROVE  /\ \A name : Part(c, t, name)' = Part(c, t, name)
             /\ Transfers(c, t)' = Transfers(c, t)
             /\ \A k : AppliedEvent(c, k)' = AppliedEvent(c, k)
  BY DEF Part, Transfers, AppliedEvent
<1>6. ASSUME NEW name, NEW S PROVE Total(b, t, name, S)' = Total(b, t, name, S)
  <2>1. PICK f, g : /\ f = [c \in Blocks |-> Total(c, t, name, S)]
                    /\ g = [c \in Blocks |-> Total(c, t, name, S)']
    OBVIOUS
  <2>2. ASSUME NEW c \in Chain[b], c # StartBlock => Parent[c] \in {d \in Blocks : g[d] = f[d]}
        PROVE  c \in {d \in Blocks : g[d] = f[d]}
    <3>1. c \in Blocks
      BY <1>4
    <3>2. f[c] = (IF c = StartBlock THEN 0 ELSE f[Parent[c]]) + (IF c \notin S THEN 0 ELSE Part(c, t, name))
      BY <1>1, <2>1, <2>2, <3>1 DEF TotalsAddUp
    <3>3. g[c] = (IF c = StartBlock THEN 0 ELSE g[Parent[c]]) + (IF c \notin S THEN 0 ELSE Part(c, t, name)')
      BY <1>3, <2>1, <2>2, <3>1 DEF TotalsAddUp
    <3>4. QED BY <1>5, <2>2, <3>1, <3>2, <3>3
  <2>3. b \in {d \in Blocks : g[d] = f[d]}
    BY <1>4, <2>2, AlongChain
  <2>4. QED BY <2>1, <2>3
<1>7. Owner(b, t)' = Owner(b, t)
  <2>1. PICK f, g : /\ f = [c \in Blocks |-> Owner(c, t)]
                    /\ g = [c \in Blocks |-> Owner(c, t)']
    OBVIOUS
  <2>2. ASSUME NEW c \in Chain[b], c # StartBlock => Parent[c] \in {d \in Blocks : g[d] = f[d]}
        PROVE  c \in {d \in Blocks : g[d] = f[d]}
    <3>1. c \in Blocks
      BY <1>4
    <3>2. f[c] = IF Transfers(c, t) # {} THEN AppliedEvent(c, Max(Transfers(c, t))).to
                 ELSE IF c = StartBlock THEN AddressZero ELSE f[Parent[c]]
      BY <1>1, <2>1, <2>2, <3>1 DEF OwnersFollow
    <3>3. PICK T, m : T = Transfers(c, t) /\ m = Max(T)
      OBVIOUS
    <3>4. g[c] = IF T # {} THEN AppliedEvent(c, m)'.to
                 ELSE IF c = StartBlock THEN AddressZero ELSE g[Parent[c]]
      BY <1>2, <1>5, <2>1, <2>2, <3>1, <3>3 DEF OwnersFollow
    <3>5. QED BY <1>5, <2>2, <3>1, <3>2, <3>3, <3>4
  <2>3. b \in {d \in Blocks : g[d] = f[d]}
    BY <1>4, <2>2, AlongChain
  <2>4. QED BY <2>1, <2>3
<1>8. QED BY <1>6, <1>7

LEMMA SameMade ==
  ASSUME AppliedTyped, AppliedTyped', NEW b \in Blocks, NEW t,
         \A c \in Chain[b] : applied'[c] = applied[c]
  PROVE  \A p : MadeOfEvents(p, b, t)' <=> MadeOfEvents(p, b, t)
  BY SameTotals DEF MadeOfEvents

\* A position stays what the events make of it where none is applied.
LEMMA NothingSince ==
  ASSUME AppliedTyped, NEW b \in Blocks, NEW d \in Chain[b], NEW t, PoolOf(d, t) # NoPool,
         \A c \in Chain[b] : Number[c] > Number[d] => ~AppliedTo(c, t)
  PROVE  \A p : MadeOfEvents(p, d, t) => MadeOfEvents(p, b, t)
<1>1. TotalsAddUp /\ OwnersFollow
  BY TotalsUnfold, OwnersUnfold
<1>2. d \in Blocks /\ Number[d] \in Nat /\ Chain[b] \subseteq Blocks
  BY ChainBelow
<1>3. ASSUME NEW c \in Chain[b], Number[c] > Number[d]
      PROVE  /\ c \in Blocks /\ c # StartBlock /\ Transfers(c, t) = {}
             /\ \A name : Part(c, t, name) = 0
  <2>1. c \in Blocks /\ c # StartBlock
    BY <1>2, <1>3, BlockAssumption
  <2>2. ~AppliedTo(c, t)
    BY <1>3
  <2>3. QED BY <2>1, <2>2, PartType DEF AppliedTo, Transfers
<1>4. ASSUME NEW name, NEW S PROVE Total(b, t, name, S) = Total(d, t, name, S)
  <2>1. PICK f : f = [c \in Blocks |-> Total(c, t, name, S)]
    OBVIOUS
  <2> DEFINE P == {c \in Blocks : f[c] = f[d]}
  <2>2. ASSUME NEW c \in Chain[b], Number[c] > Number[d], Parent[c] \in P PROVE c \in P
    <3>1. f[c] = f[Parent[c]] + (IF c \notin S THEN 0 ELSE Part(c, t, name))
      BY <1>1, <1>3, <2>1, <2>2 DEF TotalsAddUp
    <3>2. f[Parent[c]] \in Int
      BY <1>1, <2>1, <2>2 DEF TotalsAddUp
    <3>3. f[c] = f[Parent[c]]
      BY <1>3, <2>2, <3>1, <3>2
    <3>4. QED BY <1>3, <2>2, <3>3
  <2>3. d \in P
    BY <1>2
  <2>4. b \in P
    <3> HIDE DEF P
    <3>1. QED BY <2>2, <2>3, AlongChainFrom
  <2>5. QED BY <1>2, <2>1, <2>4
<1>5. Owner(b, t) = Owner(d, t)
  <2>1. PICK f : f = [c \in Blocks |-> Owner(c, t)]
    OBVIOUS
  <2> DEFINE P == {c \in Blocks : f[c] = f[d]}
  <2>2. ASSUME NEW c \in Chain[b], Number[c] > Number[d], Parent[c] \in P PROVE c \in P
    <3>1. f[c] = f[Parent[c]]
      BY <1>1, <1>3, <2>1, <2>2 DEF OwnersFollow
    <3>2. QED BY <1>3, <2>2, <3>1
  <2>3. d \in P
    BY <1>2
  <2>4. b \in P
    <3> HIDE DEF P
    <3>1. QED BY <2>2, <2>3, AlongChainFrom
  <2>5. QED BY <1>2, <2>1, <2>4
<1>6. PoolOf(b, t) = PoolOf(d, t)
  BY PoolStays
<1>7. Chain[d] \subseteq Chain[b]
  BY ChainOfAncestor
<1>8. QED BY <1>4, <1>5, <1>6, <1>7 DEF MadeOfEvents

\* Where no event of a token is applied a position is as it was created.
LEMMA NothingYet ==
  ASSUME AppliedTyped, NEW b \in Blocks, NEW t, \A c \in Chain[b] : ~AppliedTo(c, t)
  PROVE  MadeOfEvents(NewPosition(PoolOf(b, t), b), b, t)
<1>1. TotalsAddUp /\ OwnersFollow
  BY TotalsUnfold, OwnersUnfold
<1>2. b \in Chain[b] /\ Chain[b] \subseteq Blocks
  BY ChainDef
<1>3. ASSUME NEW c \in Chain[b]
      PROVE  Transfers(c, t) = {} /\ \A name : Part(c, t, name) = 0
  <2>1. ~AppliedTo(c, t) /\ c \in Blocks
    BY <1>2
  <2>2. QED BY <2>1, PartType DEF AppliedTo, Transfers
<1>4. ASSUME NEW name, NEW S PROVE Total(b, t, name, S) = 0
  <2>1. PICK f : f = [c \in Blocks |-> Total(c, t, name, S)]
    OBVIOUS
  <2> DEFINE P == {c \in Blocks : f[c] = 0}
  <2>2. ASSUME NEW c \in Chain[b], c # StartBlock => Parent[c] \in P PROVE c \in P
    <3>1. f[c] = (IF c = StartBlock THEN 0 ELSE f[Parent[c]]) + (IF c \notin S THEN 0 ELSE Part(c, t, name))
      BY <1>1, <1>2, <2>1, <2>2 DEF TotalsAddUp
    <3>2. QED BY <1>2, <1>3, <2>2, <3>1
  <2>3. b \in P
    <3> HIDE DEF P
    <3>1. QED BY <1>2, <2>2, AlongChain
  <2>4. QED BY <2>1, <2>3
<1>5. Owner(b, t) = AddressZero
  <2>1. PICK f : f = [c \in Blocks |-> Owner(c, t)]
    OBVIOUS
  <2> DEFINE P == {c \in Blocks : f[c] = AddressZero}
  <2>2. ASSUME NEW c \in Chain[b], c # StartBlock => Parent[c] \in P PROVE c \in P
    <3>1. f[c] = IF c = StartBlock THEN AddressZero ELSE f[Parent[c]]
      BY <1>1, <1>2, <1>3, <2>1, <2>2 DEF OwnersFollow
    <3>2. QED BY <1>2, <2>2, <3>1
  <2>3. b \in P
    <3> HIDE DEF P
    <3>1. QED BY <1>2, <2>2, AlongChain
  <2>4. QED BY <2>1, <2>3
<1>6. QED BY <1>2, <1>4, <1>5 DEF MadeOfEvents, NewPosition

-----------------------------------------------------------------------------
(* An event is applied. *)

AppendsTo(b, i) == applied' = [applied EXCEPT ![b] = Append(@, i)]

LEMMA Appended ==
  ASSUME AppliedTyped, NEW b \in Blocks, NEW i \in DOMAIN Events[b], AppendsTo(b, i)
  PROVE  /\ AppliedTyped'
         /\ \A c \in Blocks \ {b} : applied'[c] = applied[c]
         /\ applied'[b] = Append(applied[b], i)
         /\ Len(applied[b]) \in Nat /\ Len(applied'[b]) = Len(applied[b]) + 1
         /\ DOMAIN applied[b] = 1 .. Len(applied[b])
         /\ DOMAIN applied'[b] = DOMAIN applied[b] \cup {Len(applied[b]) + 1}
         /\ \A k \in DOMAIN applied[b] : applied'[b][k] = applied[b][k]
         /\ applied'[b][Len(applied[b]) + 1] = i
<1>1. applied \in [Blocks -> Seq(Nat)] /\ i \in Nat
  BY LoggedEvent DEF AppliedTyped
<1>2. applied[b] \in Seq(Nat)
  BY <1>1
<1>3. applied'[b] = Append(applied[b], i) /\ \A c \in Blocks \ {b} : applied'[c] = applied[c]
  BY <1>1 DEF AppendsTo
<1>4. /\ Append(applied[b], i) \in Seq(Nat)
      /\ Len(applied[b]) \in Nat /\ Len(Append(applied[b], i)) = Len(applied[b]) + 1
      /\ DOMAIN applied[b] = 1 .. Len(applied[b])
      /\ DOMAIN Append(applied[b], i) = 1 .. Len(applied[b]) + 1
      /\ \A k \in DOMAIN applied[b] : Append(applied[b], i)[k] = applied[b][k]
      /\ Append(applied[b], i)[Len(applied[b]) + 1] = i
  BY <1>1, <1>2
<1>5. DOMAIN Append(applied[b], i) = DOMAIN applied[b] \cup {Len(applied[b]) + 1}
  BY <1>4
<1>6. applied' \in [Blocks -> Seq(Nat)]
  BY <1>1, <1>3, <1>4 DEF AppendsTo
<1>7. \A c \in Blocks : \A k \in DOMAIN applied'[c] : applied'[c][k] \in DOMAIN Events[c]
  BY <1>3, <1>4, <1>5 DEF AppliedTyped
<1>8. QED BY <1>3, <1>4, <1>5, <1>6, <1>7 DEF AppliedTyped

LEMMA AppendedEvents ==
  ASSUME AppliedTyped, NEW b \in Blocks, NEW i \in DOMAIN Events[b], AppendsTo(b, i), NEW t
  PROVE  /\ \A name : Part(b, t, name)' = Part(b, t, name) + Amount(Events[b][i], t, name)
         /\ AppliedTo(b, t)' <=> (AppliedTo(b, t) \/ Events[b][i].token = t)
         /\ Range(applied'[b]) = Range(applied[b]) \cup {i}
<1>1. PICK n \in Nat : n = Len(applied[b])
  BY Appended
<1>2. PICK S : S = DOMAIN applied[b]
  OBVIOUS
<1>3. /\ AppliedTyped' /\ S = 1 .. n /\ IsFiniteSet(S) /\ n + 1 \notin S
      /\ DOMAIN applied'[b] = S \cup {n + 1}
      /\ \A k \in S : applied'[b][k] = applied[b][k]
      /\ applied'[b][n + 1] = i
  BY <1>1, <1>2, Appended, AppliedFacts
<1>4. ASSUME NEW name
      PROVE  Part(b, t, name)' = Part(b, t, name) + Amount(Events[b][i], t, name)
  <2>1. PICK f : f = [k \in DOMAIN applied[b] |-> Amount(AppliedEvent(b, k), t, name)]
    OBVIOUS
  <2>2. PICK h : h = [k \in DOMAIN applied'[b] |-> Amount(AppliedEvent(b, k)', t, name)]
    OBVIOUS
  <2>3. Part(b, t, name) = SumFunction(f) /\ Part(b, t, name)' = SumFunction(h)
    BY <2>1, <2>2 DEF Part
  <2>4. f \in [S -> Int]
    BY <1>2, <2>1, AppliedFacts DEF Amount
  <2>5. /\ \A k \in S : h[k] = f[k]
        /\ h[n + 1] = Amount(Events[b][i], t, name)
    BY <1>2, <1>3, <2>1, <2>2 DEF AppliedEvent
  <2>6. Amount(Events[b][i], t, name) \in Int
    BY LoggedEvent DEF Amount
  <2>7. h \in [S \cup {n + 1} -> Int]
    BY <1>3, <2>2, <2>4, <2>5, <2>6
  <2>8. SumFunction(h) = SumFunction(f) + h[n + 1]
    <3>1. PICK x : x = n + 1
      OBVIOUS
    <3>2. x \notin S /\ h \in [S \cup {x} -> Int] /\ IsFiniteSet(S) /\ \A y \in S : h[y] = f[y]
      BY <1>3, <2>5, <2>7, <3>1
    <3>3. SumFunction(h) = SumFunction(f) + h[x]
      BY ONLY <2>4, <3>2, SumWithOneMore
    <3>4. QED BY <3>1, <3>3
  <2>9. QED BY <2>3, <2>5, <2>8
<1>5. AppliedTo(b, t)' <=> (AppliedTo(b, t) \/ Events[b][i].token = t)
  BY <1>2, <1>3 DEF AppliedTo, AppliedEvent
<1>6. Range(applied'[b]) = Range(applied[b]) \cup {i}
  BY <1>2, <1>3 DEF Range
<1>7. QED BY <1>4, <1>5, <1>6

LEMMA AppendedOwner ==
  ASSUME AppliedTyped, NEW b \in Blocks, NEW i \in DOMAIN Events[b], AppendsTo(b, i), NEW t,
         b # StartBlock => Owner(Parent[b], t)' = Owner(Parent[b], t)
  PROVE  Owner(b, t)' = IF Events[b][i].token = t /\ Events[b][i].name = "Transfer"
                        THEN Events[b][i].to ELSE Owner(b, t)
<1>1. PICK n \in Nat : n = Len(applied[b])
  BY Appended
<1>2. PICK S : S = DOMAIN applied[b]
  OBVIOUS
<1>3. /\ S = 1 .. n /\ DOMAIN applied'[b] = S \cup {n + 1}
      /\ \A k \in S : applied'[b][k] = applied[b][k]
      /\ applied'[b][n + 1] = i
  BY <1>1, <1>2, Appended
<1>4. OwnersFollow /\ OwnersFollow'
  BY OwnersUnfold, PTL
<1>5. Owner(b, t) = IF Transfers(b, t) # {} THEN AppliedEvent(b, Max(Transfers(b, t))).to
                    ELSE IF b = StartBlock THEN AddressZero ELSE Owner(Parent[b], t)
  BY <1>4 DEF OwnersFollow
<1>6. PICK T : T = Transfers(b, t)'
  OBVIOUS
<1>7. Owner(b, t)' = IF T # {} THEN AppliedEvent(b, Max(T))'.to
                     ELSE IF b = StartBlock THEN AddressZero ELSE Owner(Parent[b], t)'
  BY <1>4, <1>6 DEF OwnersFollow
<1>8. T = Transfers(b, t) \cup (IF Events[b][i].token = t /\ Events[b][i].name = "Transfer"
                                THEN {n + 1} ELSE {})
  BY <1>2, <1>3, <1>6 DEF Transfers, AppliedEvent
<1>9. Transfers(b, t) \subseteq 1 .. n
  BY <1>2, <1>3 DEF Transfers
<1>10. CASE Events[b][i].token = t /\ Events[b][i].name = "Transfer"
  <2>1. n + 1 \in T /\ \A k \in T : k \in Nat /\ k <= n + 1
    BY <1>8, <1>9, <1>10
  <2>2. Max(T) = n + 1
    BY <2>1 DEF Max
  <2>3. AppliedEvent(b, n + 1)' = Events[b][i]
    BY <1>3 DEF AppliedEvent
  <2>4. QED BY <1>7, <1>10, <2>1, <2>2, <2>3
<1>11. CASE ~(Events[b][i].token = t /\ Events[b][i].name = "Transfer")
  <2>1. T = Transfers(b, t)
    BY <1>8, <1>11
  <2>2. CASE T = {}
    BY <1>5, <1>7, <1>11, <2>1, <2>2
  <2>3. CASE T # {}
    <3>1. PICK x \in T : \A y \in T : y <= x
      <4> DEFINE Gaps == {n - k : k \in T}
      <4>1. Gaps \subseteq Nat /\ Gaps # {}
        BY <1>9, <2>1, <2>3
      <4>2. PICK m \in Gaps : \A l \in Gaps : m <= l
        BY <4>1, LeastNumber
      <4>3. PICK x \in T : m = n - x
        OBVIOUS
      <4>4. ASSUME NEW y \in T PROVE y <= x
        <5>1. m <= n - y /\ x \in Nat /\ y \in Nat
          BY <1>9, <2>1, <4>2
        <5>2. QED BY <4>3, <5>1
      <4>5. QED BY <4>4
    <3>2. PICK m : m = Max(T)
      OBVIOUS
    <3>3. m \in T
      <4>1. \A y \in T : x \in Nat /\ y \in Nat
        BY <1>9, <2>1
      <4>2. \E z \in T : \A y \in T : z >= y
        BY <3>1, <4>1
      <4>3. QED BY <3>2, <4>2 DEF Max
    <3>4. m \in S
      BY <1>9, <1>3, <2>1, <3>3
    <3>5. AppliedEvent(b, m)' = AppliedEvent(b, m)
      BY <1>3, <3>4 DEF AppliedEvent
    <3>6. QED BY <1>5, <1>7, <1>11, <2>1, <2>3, <3>2, <3>5
  <2>4. QED BY <2>2, <2>3
<1>12. QED BY <1>10, <1>11

LEMMA AppendedTotals ==
  ASSUME AppliedTyped, NEW b \in Blocks, NEW i \in DOMAIN Events[b], AppendsTo(b, i), NEW t
  PROVE  /\ \A name, S : Total(b, t, name, S)' = Total(b, t, name, S)
                           + (IF b \notin S THEN 0 ELSE Amount(Events[b][i], t, name))
         /\ b # StartBlock => Owner(Parent[b], t)' = Owner(Parent[b], t)
<1>1. AppliedTyped' /\ \A c \in Blocks \ {b} : applied'[c] = applied[c]
  BY Appended
<1>2. TotalsAddUp
  BY TotalsUnfold
<1>3. (AppliedTyped => TotalsAddUp)'
  BY TotalsUnfold, PTL
<1>4. TotalsAddUp'
  BY <1>1, <1>3
<1>5. ASSUME b # StartBlock
      PROVE  /\ Parent[b] \in Blocks
             /\ \A name, S : Total(Parent[b], t, name, S)' = Total(Parent[b], t, name, S)
             /\ Owner(Parent[b], t)' = Owner(Parent[b], t)
  <2>1. PICK a : a = Parent[b]
    OBVIOUS
  <2>2. a \in Blocks /\ Number[b] = Number[a] + 1 /\ Number[a] \in Nat
    BY <1>5, <2>1, ParentBelow
  <2>3. \A c \in Chain[a] : applied'[c] = applied[c]
    BY <1>1, <2>2, ChainBelow
  <2>4. /\ \A name, S : Total(a, t, name, S)' = Total(a, t, name, S)
        /\ Owner(a, t)' = Owner(a, t)
    BY <1>1, <2>2, <2>3, SameTotals
  <2>5. QED BY <2>1, <2>2, <2>4
<1>6. ASSUME NEW name, NEW S
      PROVE  Total(b, t, name, S)' = Total(b, t, name, S)
               + (IF b \notin S THEN 0 ELSE Amount(Events[b][i], t, name))
  <2>1. PICK x, y : x = Part(b, t, name) /\ y = Amount(Events[b][i], t, name)
    OBVIOUS
  <2>2. x \in Int /\ y \in Int /\ Part(b, t, name)' = x + y
    BY <2>1, PartType, AppendedEvents, LoggedEvent DEF Amount
  <2>3. PICK u : u = IF b = StartBlock THEN 0 ELSE Total(Parent[b], t, name, S)
    OBVIOUS
  <2>4. u \in Int
    BY <1>2, <1>5, <2>3 DEF TotalsAddUp
  <2>5. Total(b, t, name, S) = u + (IF b \notin S THEN 0 ELSE x)
    BY <1>2, <2>1, <2>3 DEF TotalsAddUp
  <2>6. Total(b, t, name, S)' = u + (IF b \notin S THEN 0 ELSE x + y)
    BY <1>4, <1>5, <2>2, <2>3 DEF TotalsAddUp
  <2>7. QED BY <2>1, <2>2, <2>4, <2>5, <2>6
<1>7. QED BY <1>5, <1>6

LEMMA ChangedFields ==
  ASSUME NEW p \in Positions, NEW e, NEW b, e.name \in Names, e.amount \in Nat, NEW t, e.token = t
  PROVE  /\ Changed(p, e, b).deposited = p.deposited + Amount(e, t, "IncreaseLiquidity")
         /\ Changed(p, e, b).withdrawn = p.withdrawn + Amount(e, t, "DecreaseLiquidity")
         /\ Changed(p, e, b).liquidity =
              p.liquidity + Amount(e, t, "IncreaseLiquidity") - Amount(e, t, "DecreaseLiquidity")
         /\ Changed(p, e, b).collected =
              p.collected + (IF Number[b] <= FirstGraftBlock THEN Amount(e, t, "Collect") ELSE 0)
         /\ Changed(p, e, b).owner = (IF e.name = "Transfer" THEN e.to ELSE p.owner)
         /\ Changed(p, e, b).fees = p.fees /\ Changed(p, e, b).pool = p.pool
<1>1. /\ p.deposited \in Int /\ p.withdrawn \in Int /\ p.liquidity \in Int /\ p.collected \in Int
  BY DEF Positions
<1>2. PICK l, d, w, c : /\ l = p.liquidity /\ d = p.deposited /\ w = p.withdrawn /\ c = p.collected
  OBVIOUS
<1>3. CASE e.name = "IncreaseLiquidity"
  <2>1. Changed(p, e, b) = [p EXCEPT !.liquidity = @ + e.amount, !.deposited = @ + e.amount]
    BY <1>3 DEF Changed
  <2>2. PICK q : q = [p EXCEPT !.liquidity = p.liquidity + e.amount]
    OBVIOUS
  <2>3. Changed(p, e, b) = [q EXCEPT !.deposited = p.deposited + e.amount]
    BY <2>1, <2>2 DEF Positions
  <2>4. QED BY <1>1, <1>3, <2>2, <2>3 DEF Positions, Amount
<1>4. CASE e.name = "DecreaseLiquidity"
  <2>1. Changed(p, e, b) = [p EXCEPT !.liquidity = @ - e.amount, !.withdrawn = @ + e.amount]
    BY <1>4 DEF Changed
  <2>2. PICK q : q = [p EXCEPT !.liquidity = p.liquidity - e.amount]
    OBVIOUS
  <2>3. Changed(p, e, b) = [q EXCEPT !.withdrawn = p.withdrawn + e.amount]
    BY <2>1, <2>2 DEF Positions
  <2>4. QED BY <1>1, <1>4, <2>2, <2>3 DEF Positions, Amount
<1>5. CASE e.name = "Collect"
  <2>1. Changed(p, e, b) = IF Number[b] <= FirstGraftBlock
                           THEN [p EXCEPT !.collected = @ + e.amount] ELSE p
    BY <1>5 DEF Changed
  <2>2. QED BY <1>1, <1>5, <2>1 DEF Positions, Amount
<1>6. CASE e.name = "Transfer"
  <2>1. Changed(p, e, b) = [p EXCEPT !.owner = e.to]
    BY <1>6 DEF Changed
  <2>2. QED BY <1>1, <1>6, <2>1 DEF Positions, Amount
<1>7. QED BY <1>3, <1>4, <1>5, <1>6 DEF Names

\* The handlers make of a position what the event they apply makes of it.
LEMMA AppendMade ==
  ASSUME AppliedTyped, NEW b \in Blocks, NEW i \in DOMAIN Events[b], AppendsTo(b, i),
         NEW p \in Positions, NEW t
  PROVE  /\ Events[b][i].token = t /\ MadeOfEvents(p, b, t) =>
              MadeOfEvents(Changed(p, Events[b][i], b), b, t)'
         /\ Events[b][i].token # t => (MadeOfEvents(p, b, t)' <=> MadeOfEvents(p, b, t))
<1> DEFINE G == {c \in Blocks : Number[c] <= FirstGraftBlock}
<1>1. PICK e : e = Events[b][i]
  OBVIOUS
<1>2. e.name \in Names /\ e.amount \in Nat
  BY <1>1, LoggedEvent
<1>3. \A name, S : Total(b, t, name, S)' = Total(b, t, name, S) + (IF b \notin S THEN 0 ELSE Amount(e, t, name))
  BY <1>1, AppendedTotals
<1>4. Owner(b, t)' = IF e.token = t /\ e.name = "Transfer" THEN e.to ELSE Owner(b, t)
  BY <1>1, AppendedTotals, AppendedOwner
<1>5. PICK d, w, c : /\ d = Total(b, t, "IncreaseLiquidity", Blocks)
                     /\ w = Total(b, t, "DecreaseLiquidity", Blocks)
                     /\ c = Total(b, t, "Collect", G)
  OBVIOUS
<1>6. d \in Int /\ w \in Int /\ c \in Int
  BY <1>5, TotalsUnfold DEF TotalsAddUp
<1>7. PICK ad, aw, ac : /\ ad = Amount(e, t, "IncreaseLiquidity")
                        /\ aw = Amount(e, t, "DecreaseLiquidity")
                        /\ ac = Amount(e, t, "Collect")
  OBVIOUS
<1>8. ad \in Int /\ aw \in Int /\ ac \in Int
  BY <1>2, <1>7 DEF Amount
<1>9. /\ Total(b, t, "IncreaseLiquidity", Blocks)' = d + ad
      /\ Total(b, t, "DecreaseLiquidity", Blocks)' = w + aw
      /\ Total(b, t, "Collect", G)' = c + (IF Number[b] <= FirstGraftBlock THEN ac ELSE 0)
  BY <1>3, <1>5, <1>7
<1>10. ASSUME e.token = t, MadeOfEvents(p, b, t)
       PROVE  MadeOfEvents(Changed(p, e, b), b, t)'
  <2>1. PICK q : q = Changed(p, e, b)
    OBVIOUS
  <2>2. /\ q.deposited = p.deposited + ad /\ q.withdrawn = p.withdrawn + aw
        /\ q.liquidity = p.liquidity + ad - aw
        /\ q.collected = p.collected + (IF Number[b] <= FirstGraftBlock THEN ac ELSE 0)
        /\ q.owner = (IF e.name = "Transfer" THEN e.to ELSE p.owner)
        /\ q.fees = p.fees /\ q.pool = p.pool
    BY <1>2, <1>7, <1>10, <2>1, ChangedFields
  <2>3. /\ p.deposited = d /\ p.withdrawn = w /\ p.liquidity = d - w /\ p.collected = c
        /\ p.owner = Owner(b, t) /\ p.fees \in Chain[b] /\ p.pool = PoolOf(b, t)
    BY <1>5, <1>6, <1>10 DEF MadeOfEvents
  <2>4. /\ q.deposited = d + ad /\ q.withdrawn = w + aw /\ q.liquidity = q.deposited - q.withdrawn
        /\ q.collected = c + (IF Number[b] <= FirstGraftBlock THEN ac ELSE 0)
    BY <1>6, <1>8, <2>2, <2>3
  <2>5. q.owner = Owner(b, t)' /\ q.fees \in Chain[b] /\ q.pool = PoolOf(b, t)
    BY <1>4, <1>10, <2>2, <2>3
  <2>6. MadeOfEvents(q, b, t)'
    BY <1>9, <2>4, <2>5 DEF MadeOfEvents
  <2>7. QED BY <2>1, <2>6
<1>11. ASSUME e.token # t
       PROVE  MadeOfEvents(p, b, t)' <=> MadeOfEvents(p, b, t)
  <2>1. ad = 0 /\ aw = 0 /\ ac = 0
    BY <1>7, <1>11 DEF Amount
  <2>2. /\ Total(b, t, "IncreaseLiquidity", Blocks)' = d
        /\ Total(b, t, "DecreaseLiquidity", Blocks)' = w
        /\ Total(b, t, "Collect", G)' = c
    BY <1>6, <1>9, <2>1
  <2>3. Owner(b, t)' = Owner(b, t)
    BY <1>4, <1>11
  <2>4. QED BY <1>5, <2>2, <2>3 DEF MadeOfEvents
<1>12. QED BY <1>1, <1>10, <1>11

-----------------------------------------------------------------------------
(* The inductive invariant. *)

\* An event that is applied but not counted as processed will be applied again.
AppliedAhead(b) ==
  lastProcessed[b] + 1 \in Range(applied[b]) /\ ~(handler.step = "update" /\ Block = b)

\* Events are applied in log order, and twice only after an incident.
AppliedInv ==
  /\ AppliedTyped
  /\ \A b \in Blocks :
       /\ \A k \in DOMAIN applied[b] : applied[b][k] <= lastProcessed[b] + 1
       /\ \A k \in 1 .. Len(applied[b]) - 1 : applied[b][k] <= applied[b][k + 1]
       /\ Len(applied[b]) <= Cardinality(Range(applied[b])) + spent - (IF AppliedAhead(b) THEN 1 ELSE 0)

\* The versions of a position are what the events make of it.
MadeAt(b, token) ==
  Key(token, b) \in DOMAIN table =>
    PoolOf(b, token) # NoPool /\ MadeOfEvents(table[Key(token, b)], b, token)

\* A position has been found at the events that are processed.
FoundAt(b, token) ==
  PoolOf(b, token) # NoPool =>
    \A i \in DOMAIN Events[b] : i <= lastProcessed[b] /\ Events[b][i].token = token => Has(token, b)

DueAt(b) ==
  /\ Range(applied[b]) \subseteq Due(b)
  /\ \A i \in Due(b) : i <= lastProcessed[b] => i \in Range(applied[b])

\* A block that changes a position has its snapshot, and no other block has.
SnapshotAt(b, token) ==
  /\ AppliedTo(b, token) =>
       LET snapshot == Key(SnapshotId(token, Number[b]), b) IN
       /\ Key(token, b) \in DOMAIN table /\ snapshot \in DOMAIN table
       /\ Unmarked(table[snapshot]) = Unmarked(table[Key(token, b)])
  /\ \A c \in Blocks : Key(SnapshotId(token, Number[c]), b) \in DOMAIN table =>
       Number[c] = Number[b] /\ AppliedTo(b, token)

\* What the events job has in hand at its block.
HandlerAt(b, token) ==
  LET i == lastProcessed[b] + 1
      s == SnapshotId(token, Number[b])
  IN
  /\ handler.step = "call" => PoolOf(b, token) = PoolAt[b][token] /\ ~Has(token, b)
  /\ handler.step \in {"created", "got", "saved"} => PoolOf(b, token) # NoPool
  /\ handler.step = "created" =>
       ~Has(token, b) /\ DOMAIN tx = {token} /\ MadeOfEvents(tx[token], b, token)
  /\ handler.step = "got" => Has(token, b)
  /\ handler.step \in {"created", "got"} => MadeOfEvents(handler.position, b, token)
  /\ handler.step = "saved" =>
       /\ i \in Due(b)
       /\ DOMAIN tx = {token, s} /\ Unmarked(tx[s]) = Unmarked(tx[token])
       /\ \E p \in Positions : MadeOfEvents(p, b, token) /\ tx[token] = Changed(p, Event, b)
  /\ handler.step = "update" =>
       /\ PoolOf(b, token) # NoPool => Has(token, b)
       /\ i \in Due(b) => i \in Range(applied[b])

HandlerHolds ==
  \A b \in Blocks : \A token \in Tokens :
    (handler.step \notin {"idle", "next"} /\ b = Block /\ token = Event.token /\ ~Dead(b)) =>
      HandlerAt(b, token)

BlocksHold ==
  \A b \in Blocks :
    /\ DueAt(b)
    /\ \A token \in Tokens : MadeAt(b, token) /\ FoundAt(b, token) /\ SnapshotAt(b, token)

ApplyInv == HistoryInv /\ AppliedInv /\ (~late => BlocksHold /\ HandlerHolds)

-----------------------------------------------------------------------------
(* The steps, by what they do to the events and the position in hand. *)

\* Index jobs and prune jobs.
Aside ==
  /\ UNCHANGED <<handler, tx, lastProcessed, applied>> /\ spent' \in {spent, spent + 1}
  /\ DOMAIN table' = DOMAIN table
  /\ \A k \in DOMAIN table : Unmarked(table'[k]) = Unmarked(table[k])
  /\ ~late' => \A b \in Blocks : Dead(b) => Dead(b)'

\* The events job begins, ends or fails.
Turns ==
  /\ handler'.step \in {"idle", "next"} /\ UNCHANGED <<table, lastProcessed, applied>>
  /\ spent' \in {spent, spent + 1} /\ (handler.step = "update" => spent' = spent + 1)

NotCreated ==
  /\ handler.step = "call" /\ PoolAt[Block][Event.token] = NoPool
  /\ GoOn("update", NoEntity) /\ UNCHANGED <<storeVars, tx, applied>>

Created ==
  LET position == NewPosition(PoolAt[Block][Event.token], Block) IN
  /\ handler.step = "call" /\ PoolAt[Block][Event.token] # NoPool
  /\ Save([id \in {Event.token} |-> position], "created", position) /\ spent' = spent

CreationCommitted == handler.step = "created" /\ Commit("got") /\ UNCHANGED applied

Handled ==
  /\ handler.step = "got" /\ ~Skipped(Event, handler.position)
  /\ \E p \in {handler.position, UpdatedFeeVars(handler.position, Block, Event.token)} : SavePosition(p)
  /\ spent' \in {spent, spent + 1}

Applied ==
  /\ handler.step = "saved" /\ Commit("update")
  /\ AppendsTo(Block, lastProcessed[Block] + 1)

Advances ==
  /\ handler.step = "update" /\ lastProcessed' = [lastProcessed EXCEPT ![Block] = @ + 1]
  /\ handler'.step = "next" /\ late' = (late \/ Dead(Block)) /\ UNCHANGED <<table, applied, spent>>

LEMMA AsideCases ==
  ASSUME HistoryInv, UNCHANGED <<handler, tx, lastProcessed, applied>>, spent' \in {spent, spent + 1},
         \/ UNCHANGED <<prunedBlocks, latestCanonical, table>>
         \/ \E a \in Blocks : MarkBlocksAsPruned(a)
         \/ UpdateCanonicalBlock
  PROVE  Aside
<1>1. TypeInv /\ PruneInv
  BY DEF HistoryInv, PositionsInv
<1>2. CASE UNCHANGED <<prunedBlocks, latestCanonical, table>>
  BY <1>2, SameLife DEF Aside
<1>3. ASSUME NEW a \in Blocks, MarkBlocksAsPruned(a) PROVE Aside
  <2>1. PICK S : table' = PruneEntities(S) /\ prunedBlocks' = prunedBlocks \cup S
    BY <1>3 DEF MarkBlocksAsPruned
  <2>2. UNCHANGED <<progress, latestCanonical, late>>
    BY <1>3 DEF MarkBlocksAsPruned
  <2>3. \A b : Dead(b) => Dead(b)'
    BY <2>1, <2>2 DEF Dead, CanonicalNumber
  <2>4. /\ DOMAIN table' = DOMAIN table
        /\ \A k \in DOMAIN table : Unmarked(table'[k]) = Unmarked(table[k])
    BY <1>1, <2>1, PruneEntitiesTyped DEF TypeInv
  <2>5. QED BY <2>3, <2>4 DEF Aside
<1>4. CASE UpdateCanonicalBlock
  <2>1. UNCHANGED <<progress, prunedBlocks, table, late>>
    BY <1>4 DEF UpdateCanonicalBlock
  <2>2. SUFFICES ASSUME ~late, NEW b \in Blocks, Dead(b) PROVE Dead(b)'
    BY <2>1 DEF Aside
  <2>3. CanonicalInv
    BY <2>2 DEF HistoryInv
  <2>4. PICK p, q : p = pruner.block /\ q = latestCanonical
    OBVIOUS
  <2>5. /\ p = latestCanonical' /\ p \in Blocks /\ Number[p] = CanonicalNumber + 1
        /\ Chain[p] = {p} \cup Chain[q]
    BY <1>1, <1>4, <2>3, <2>4, NextCanonical
  <2>6. CanonicalNumber = Number[q] /\ CanonicalNumber' = Number[q] + 1 /\ Number[q] \in Nat
    BY <1>1, <2>4, <2>5, RowsFacts DEF TypeInv, CanonicalNumber
  <2>7. PICK c \in Chain[b] : c \in prunedBlocks \/ (Number[c] <= Number[q] /\ c \notin Chain[q])
    BY <2>2, <2>4, <2>6 DEF Dead
  <2>8. Number[c] \in Nat
    BY ChainBelow
  <2>9. Number[c] <= Number[q] => c # p /\ Number[c] <= Number[q] + 1
    BY <2>5, <2>6, <2>8
  <2>10. c \in prunedBlocks' \/ (Number[c] <= CanonicalNumber' /\ c \notin Chain[latestCanonical'])
    BY <2>1, <2>5, <2>6, <2>7, <2>9
  <2>11. QED BY <2>10 DEF Dead
<1>5. QED BY <1>2, <1>3, <1>4

LEMMA HandleKinds ==
  ASSUME HistoryInv, Handle
  PROVE  \/ Turns \/ GetPosition \/ NotCreated \/ Created \/ CreationCommitted
         \/ SkipEvent \/ Handled \/ Applied \/ Advances
<1>1. TypeInv
  BY DEF HistoryInv, PositionsInv
<1>2. ASSUME Throw, handler.step # "update" PROVE Turns
  BY <1>2 DEF Throw, Turns, Incident, Retry, IdleHandler
<1>3. CASE CreatePosition
  <2>1. PICK pool, position : /\ pool = PoolAt[Block][Event.token]
                              /\ position = NewPosition(PoolAt[Block][Event.token], Block)
    OBVIOUS
  <2>2. \/ /\ pool = NoPool
           /\ GoOn("update", NoEntity)
           /\ UNCHANGED <<storeVars, tx, applied>>
        \/ /\ pool # NoPool
           /\ Save([id \in {Event.token} |-> position], "created", position)
           /\ UNCHANGED spent
        \/ Throw
    BY <1>3, <2>1 DEF CreatePosition, CallPositions
  <2>3. handler.step = "call"
    BY <1>3 DEF CreatePosition
  <2>4. QED BY <1>2, <2>1, <2>2, <2>3 DEF NotCreated, Created
<1>4. CASE CommitNewPosition
  BY <1>2, <1>4 DEF CommitNewPosition, CreationCommitted
<1>5. CASE HandleTransfer
  BY <1>5 DEF HandleTransfer, Handled
<1>6. CASE HandleLiquidity
  <2>1. \/ SavePosition(UpdatedFeeVars(handler.position, Block, Event.token)) /\ UNCHANGED spent
        \/ Incident /\ SavePosition(handler.position)
    BY <1>6 DEF HandleLiquidity
  <2>2. handler.step = "got" /\ ~Skipped(Event, handler.position)
    BY <1>6 DEF HandleLiquidity
  <2>3. QED BY <2>1, <2>2 DEF Handled, Incident
<1>7. CASE CommitPosition
  BY <1>2, <1>7 DEF CommitPosition, Applied, AppendsTo
<1>8. CASE UpdateProgress
  <2>1. applied' = applied
    BY <1>8 DEF UpdateProgress
  <2>2. handler.step = "update" /\ table' = table
    BY <1>1, <1>8, UpdateProgressCases
  <2>3. \/ /\ lastProcessed' = [lastProcessed EXCEPT ![Block] = @ + 1]
           /\ WriteRow(Block, handler.wasPruned)
           /\ handler' = [handler EXCEPT !.step = "next", !.position = NoEntity]
           /\ UNCHANGED <<spent, eventQueue>>
        \/ /\ spent' = spent + 1 /\ handler' = IdleHandler
           /\ eventQueue' = eventQueue \cup {Block} /\ UNCHANGED <<prunedBlocks, late, lastProcessed>>
    BY <1>1, <1>8, UpdateProgressCases
  <2>4. handler \in Handlers
    BY <1>1 DEF TypeInv, HandlerTyped, Handlers, Steps
  <2>5. handler' = [handler EXCEPT !.step = "next", !.position = NoEntity] => handler'.step = "next"
    BY <2>4 DEF Handlers
  <2>6. handler' = IdleHandler => handler'.step = "idle"
    BY DEF IdleHandler
  <2>7. QED BY <2>1, <2>2, <2>3, <2>5, <2>6 DEF Advances, Turns, WriteRow
<1>9. CASE CompleteBlock
  <2>1. handler.step = "next" /\ handler'.step = "idle" /\ UNCHANGED <<table, spent, lastProcessed, applied>>
    BY <1>9 DEF CompleteBlock, IdleHandler
  <2>2. QED BY <2>1 DEF Turns
<1>10. QED BY <1>3, <1>4, <1>5, <1>6, <1>7, <1>8, <1>9 DEF Handle

LEMMA StepKinds ==
  ASSUME HistoryInv, [Next]_vars
  PROVE  \/ Aside \/ Turns \/ GetPosition \/ NotCreated \/ Created \/ CreationCommitted
         \/ SkipEvent \/ Handled \/ Applied \/ Advances \/ Restart
<1>1. ASSUME NEW b \in Blocks, IndexBlock(b) PROVE Aside
  <2>1. /\ UNCHANGED <<handler, tx, lastProcessed, applied>> /\ spent' = spent
        /\ UNCHANGED <<prunedBlocks, latestCanonical, table>>
    BY <1>1 DEF IndexBlock, SaveBlock, PushEventsJob
  <2>2. QED BY <2>1, AsideCases
<1>2. ASSUME NEW b \in Blocks, IndexBlockAgain(b) PROVE Aside
  <2>1. /\ UNCHANGED <<handler, tx, lastProcessed, applied>> /\ spent' = spent + 1
        /\ UNCHANGED <<prunedBlocks, latestCanonical, table>>
    BY <1>2 DEF IndexBlockAgain, IndexAgain, PushEventsJob, Incident
  <2>2. QED BY <2>1, AsideCases
<1>3. ASSUME NEW b \in Blocks, TakeEventsJob(b) PROVE Turns
  <2>1. handler.step = "idle" /\ UNCHANGED <<table, spent, lastProcessed, applied>>
    BY <1>3 DEF TakeEventsJob, storeVars
  <2>2. handler'.step = "next"
    BY <1>3, TakeEventsJobTyped DEF HistoryInv, PositionsInv
  <2>3. QED BY <2>1, <2>2 DEF Turns
<1>4. ASSUME NEW b \in Blocks, OnIndexComplete(b), UNCHANGED handlerVars PROVE Aside
  <2>1. /\ UNCHANGED <<handler, tx, lastProcessed, applied>> /\ spent' = spent
        /\ UNCHANGED <<prunedBlocks, latestCanonical, table>>
    BY <1>4 DEF OnIndexComplete, handlerVars
  <2>2. QED BY <2>1, AsideCases
<1>5. CASE Prune
  <2>1. UNCHANGED <<handler, tx, lastProcessed, applied>>
    BY <1>5 DEF Prune, handlerVars
  <2>2. ASSUME NEW a \in Blocks, MarkBlocksAsPruned(a) PROVE Aside
    <3>1. spent' = spent
      BY <2>2 DEF MarkBlocksAsPruned
    <3>2. QED BY <2>1, <2>2, <3>1, AsideCases
  <2>3. CASE UpdateCanonicalBlock
    <3>1. spent' = spent
      BY <2>3 DEF UpdateCanonicalBlock
    <3>2. QED BY <2>1, <2>3, <3>1, AsideCases
  <2>4. CASE PruneCachedEntities \/ PruneFrothyEntities
    <3>1. spent' \in {spent, spent + 1} /\ UNCHANGED <<prunedBlocks, latestCanonical, table>>
      BY <2>4 DEF PruneCachedEntities, PruneFrothyEntities, Incident
    <3>2. QED BY <2>1, <3>1, AsideCases
  <2>5. QED BY <1>5, <2>2, <2>3, <2>4 DEF Prune
<1>6. CASE UNCHANGED vars
  <2>1. /\ UNCHANGED <<handler, tx, lastProcessed, applied>> /\ spent' = spent
        /\ UNCHANGED <<prunedBlocks, latestCanonical, table>>
    BY <1>6 DEF vars, storeVars, handlerVars
  <2>2. QED BY <2>1, AsideCases
<1>7. CASE Handle
  BY <1>7, HandleKinds
<1>8. QED BY <1>1, <1>2, <1>3, <1>4, <1>5, <1>6, <1>7 DEF Next

-----------------------------------------------------------------------------
(* Events are applied in log order. *)

LEMMA RangeFinite ==
  ASSUME AppliedTyped, NEW b \in Blocks
  PROVE  /\ Len(applied[b]) \in Nat
         /\ IsFiniteSet(Range(applied[b])) /\ Cardinality(Range(applied[b])) \in Nat
<1>1. Range(applied[b]) \subseteq 1 .. Len(Events[b])
  BY AppliedFacts, LoggedEvent DEF Range
<1>2. IsFiniteSet(1 .. Len(Events[b]))
  BY LogLength, FS_Interval
<1>3. IsFiniteSet(Range(applied[b]))
  BY <1>1, <1>2, FS_Subset
<1>4. QED BY <1>3, FS_CardinalityType, AppliedFacts

LEMMA SameApplied ==
  ASSUME AppliedInv, spent \in Nat, UNCHANGED <<lastProcessed, applied>>, spent' \in {spent, spent + 1},
         \A b \in Blocks : AppliedAhead(b)' => AppliedAhead(b) \/ spent' = spent + 1
  PROVE  AppliedInv'
<1>1. AppliedTyped'
  BY DEF AppliedInv, AppliedTyped
<1>2. ASSUME NEW b \in Blocks
      PROVE  /\ \A k \in DOMAIN applied'[b] : applied'[b][k] <= lastProcessed'[b] + 1
             /\ \A k \in 1 .. Len(applied'[b]) - 1 : applied'[b][k] <= applied'[b][k + 1]
             /\ Len(applied'[b]) <= Cardinality(Range(applied'[b])) + spent' - (IF AppliedAhead(b)' THEN 1 ELSE 0)
  <2>1. Len(applied[b]) \in Nat /\ Cardinality(Range(applied[b])) \in Nat
    BY RangeFinite DEF AppliedInv
  <2>3. PICK n, c : n = Len(applied[b]) /\ c = Cardinality(Range(applied[b]))
    OBVIOUS
  <2>4. n <= c + spent - (IF AppliedAhead(b) THEN 1 ELSE 0)
    BY <2>3 DEF AppliedInv
  <2>5. n <= c + spent' - (IF AppliedAhead(b)' THEN 1 ELSE 0)
    BY <2>1, <2>3, <2>4
  <2>6. QED BY <2>3, <2>5 DEF AppliedInv
<1>3. QED BY <1>1, <1>2 DEF AppliedInv

LEMMA AppendKeepsApplied ==
  ASSUME HistoryInv, AppliedInv, Applied
  PROVE  AppliedInv'
<1>1. TypeInv /\ handler.step = "saved"
  BY DEF HistoryInv, PositionsInv, Applied
<1>2. PICK b, i : b = Block /\ i = lastProcessed[b] + 1
  OBVIOUS
<1>3. b \in Blocks /\ lastProcessed[b] \in Nat /\ lastProcessed[b] < Len(Events[b])
  BY <1>1, <1>2, HandlerBusy DEF TypeInv, HandlerTyped
<1>4. i \in DOMAIN Events[b] /\ i \in Nat
  BY <1>2, <1>3, LogLength
<1>5. AppendsTo(b, i) /\ AppliedTyped
  BY <1>2 DEF Applied, AppliedInv
<1>6. /\ AppliedTyped'
      /\ \A c \in Blocks \ {b} : applied'[c] = applied[c]
      /\ Len(applied[b]) \in Nat /\ Len(applied'[b]) = Len(applied[b]) + 1
      /\ DOMAIN applied[b] = 1 .. Len(applied[b])
      /\ DOMAIN applied'[b] = DOMAIN applied[b] \cup {Len(applied[b]) + 1}
      /\ \A k \in DOMAIN applied[b] : applied'[b][k] = applied[b][k]
      /\ applied'[b][Len(applied[b]) + 1] = i
  BY <1>3, <1>4, <1>5, Appended
<1>7. Range(applied'[b]) = Range(applied[b]) \cup {i}
  BY <1>3, <1>4, <1>5, AppendedEvents
<1>8. UNCHANGED <<lastProcessed, spent>> /\ spent \in Nat
  BY <1>1 DEF Applied, Commit, GoOn, TypeInv, StoreTyped
<1>9. handler'.step = "update" /\ handler'.block = b
  <2>1. GoOn("update", handler.position)
    BY DEF Applied, Commit
  <2>2. HandlerTyped /\ handler.position \in Positions \cup {NoEntity} /\ "update" \in Steps
    BY <1>1 DEF TypeInv, HandlerTyped, Steps
  <2>3. QED BY <1>2, <2>1, <2>2, GoOnTyped DEF Block
<1>10. PICK n, r : n = Len(applied[b]) /\ r = Range(applied[b])
  OBVIOUS
<1>11. r \subseteq 1 .. i /\ IsFiniteSet(r) /\ Cardinality(r) \in Nat
  <2>1. \A k \in DOMAIN applied[b] : applied[b][k] \in Nat /\ applied[b][k] >= 1 /\ applied[b][k] <= i
    BY <1>2, <1>3, <1>5, AppliedFacts, LoggedEvent DEF AppliedInv
  <2>2. r \subseteq 1 .. i
    BY <1>4, <1>10, <2>1 DEF Range
  <2>3. IsFiniteSet(r)
    BY <2>2, <1>4, FS_Interval, FS_Subset
  <2>4. QED BY <2>2, <2>3, FS_CardinalityType
<1>12. ~AppliedAhead(b)'
  BY <1>9 DEF AppliedAhead, Block
<1>13. Len(applied'[b]) <= Cardinality(Range(applied'[b])) + spent'
  <2>1. n <= Cardinality(r) + spent - (IF AppliedAhead(b) THEN 1 ELSE 0)
    BY <1>3, <1>10 DEF AppliedInv
  <2>2. AppliedAhead(b) <=> i \in r
    BY <1>1, <1>2, <1>10 DEF AppliedAhead
  <2>3. Cardinality(r \cup {i}) = IF i \in r THEN Cardinality(r) ELSE Cardinality(r) + 1
    BY <1>11, FS_AddElement
  <2>4. n \in Nat /\ Len(applied'[b]) = n + 1 /\ Range(applied'[b]) = r \cup {i}
    BY <1>6, <1>7, <1>10
  <2>5. QED BY <1>8, <1>11, <2>1, <2>2, <2>3, <2>4
<1>14. \A k \in DOMAIN applied'[b] : applied'[b][k] <= i
  <2>1. \A k \in DOMAIN applied[b] : applied[b][k] <= i
    BY <1>2, <1>3 DEF AppliedInv
  <2>2. QED BY <1>4, <1>6, <2>1
<1>15. \A k \in 1 .. Len(applied'[b]) - 1 : applied'[b][k] <= applied'[b][k + 1]
  <2>1. SUFFICES ASSUME NEW k \in 1 .. n PROVE applied'[b][k] <= applied'[b][k + 1]
    BY <1>6, <1>10
  <2>2. n \in Nat /\ DOMAIN applied[b] = 1 .. n
    BY <1>6, <1>10
  <2>3. CASE k = n
    <3>1. k \in DOMAIN applied'[b] /\ applied'[b][k + 1] = i
      BY <1>6, <1>10, <2>2, <2>3
    <3>2. QED BY <1>14, <3>1
  <2>4. CASE k # n
    <3>1. k \in 1 .. n - 1 /\ k + 1 \in 1 .. n /\ k \in 1 .. n
      BY <2>2, <2>4
    <3>2. applied[b][k] <= applied[b][k + 1]
      BY <1>3, <1>10, <3>1 DEF AppliedInv
    <3>3. QED BY <1>6, <2>2, <3>1, <3>2
  <2>5. QED BY <2>3, <2>4
<1>16. ASSUME NEW c \in Blocks, c # b
       PROVE  /\ \A k \in DOMAIN applied'[c] : applied'[c][k] <= lastProcessed'[c] + 1
              /\ \A k \in 1 .. Len(applied'[c]) - 1 : applied'[c][k] <= applied'[c][k + 1]
              /\ Len(applied'[c]) <= Cardinality(Range(applied'[c])) + spent' - (IF AppliedAhead(c)' THEN 1 ELSE 0)
  <2>1. applied'[c] = applied[c]
    BY <1>6, <1>16
  <2>2. AppliedAhead(c)' <=> AppliedAhead(c)
    BY <1>2, <1>8, <1>9, <1>16, <2>1 DEF AppliedAhead, Block
  <2>3. QED BY <1>8, <1>16, <2>1, <2>2 DEF AppliedInv
<1>17. \A k \in DOMAIN applied'[b] : applied'[b][k] <= lastProcessed'[b] + 1
  BY <1>2, <1>8, <1>14
<1>18. Len(applied'[b]) <= Cardinality(Range(applied'[b])) + spent' - (IF AppliedAhead(b)' THEN 1 ELSE 0)
  <2>1. Cardinality(Range(applied'[b])) \in Nat /\ spent' \in Nat
    <3>1. IsFiniteSet(r \cup {i})
      BY <1>11, FS_AddElement
    <3>2. QED BY <1>7, <1>8, <1>10, <3>1, FS_CardinalityType
  <2>2. QED BY <1>12, <1>13, <2>1
<1>19. QED BY ONLY <1>6, <1>15, <1>16, <1>17, <1>18 DEF AppliedInv

LEMMA AdvanceKeepsApplied ==
  ASSUME HistoryInv, AppliedInv, Advances
  PROVE  AppliedInv'
<1>1. TypeInv
  BY DEF HistoryInv, PositionsInv
<1>2. PICK b : b = Block
  OBVIOUS
<1>3. b \in Blocks /\ lastProcessed \in [Blocks -> Nat] /\ spent \in Nat
  BY <1>1, <1>2, HandlerBusy DEF TypeInv, HandlerTyped, StoreTyped, Advances
<1>4. UNCHANGED <<applied, spent>> /\ handler.step = "update" /\ handler'.step = "next"
  BY DEF Advances
<1>5. \A c \in Blocks : lastProcessed'[c] = IF c = b THEN lastProcessed[c] + 1 ELSE lastProcessed[c]
  BY <1>2, <1>3 DEF Advances
<1>6. AppliedTyped'
  BY <1>4 DEF AppliedInv, AppliedTyped
<1>7. ASSUME NEW c \in Blocks PROVE AppliedAhead(c)' => AppliedAhead(c)
  <2>1. CASE c = b
    <3>1. \A i \in Range(applied[b]) : i <= lastProcessed[b] + 1
      BY <1>3 DEF AppliedInv, Range
    <3>2. lastProcessed'[b] + 1 \notin Range(applied'[b])
      BY <1>3, <1>4, <1>5, <3>1
    <3>3. QED BY <2>1, <3>2 DEF AppliedAhead
  <2>2. CASE c # b
    <3>1. lastProcessed'[c] = lastProcessed[c] /\ applied'[c] = applied[c]
      BY <1>4, <1>5, <2>2
    <3>2. QED BY <1>2, <1>4, <2>2, <3>1 DEF AppliedAhead
  <2>3. QED BY <2>1, <2>2
<1>8. ASSUME NEW c \in Blocks
      PROVE  /\ \A k \in DOMAIN applied'[c] : applied'[c][k] <= lastProcessed'[c] + 1
             /\ \A k \in 1 .. Len(applied'[c]) - 1 : applied'[c][k] <= applied'[c][k + 1]
             /\ Len(applied'[c]) <= Cardinality(Range(applied'[c])) + spent' - (IF AppliedAhead(c)' THEN 1 ELSE 0)
  <2>1. \A k \in DOMAIN applied[c] : applied[c][k] \in Nat /\ applied[c][k] <= lastProcessed[c] + 1
    BY AppliedFacts, LoggedEvent DEF AppliedInv
  <2>2. lastProcessed'[c] \in Nat /\ lastProcessed[c] \in Nat /\ lastProcessed'[c] >= lastProcessed[c]
    BY <1>3, <1>5
  <2>3. Len(applied[c]) \in Nat /\ Cardinality(Range(applied[c])) \in Nat
    BY RangeFinite DEF AppliedInv
  <2>4. Len(applied[c]) <= Cardinality(Range(applied[c])) + spent - (IF AppliedAhead(c) THEN 1 ELSE 0)
    BY DEF AppliedInv
  <2>5. Len(applied[c]) <= Cardinality(Range(applied[c])) + spent - (IF AppliedAhead(c)' THEN 1 ELSE 0)
    <3>1. PICK n, m : n = Len(applied[c]) /\ m = Cardinality(Range(applied[c]))
      OBVIOUS
    <3>2. QED BY <1>3, <1>7, <2>3, <2>4, <3>1
  <2>6. \A k \in 1 .. Len(applied[c]) - 1 : applied[c][k] <= applied[c][k + 1]
    BY DEF AppliedInv
  <2>7. \A k \in DOMAIN applied[c] : applied[c][k] <= lastProcessed'[c] + 1
    BY <2>1, <2>2
  <2>8. QED BY <1>4, <2>5, <2>6, <2>7
<1>9. QED BY <1>6, <1>8 DEF AppliedInv

LEMMA RestartKeepsApplied ==
  ASSUME HistoryInv, AppliedInv, Restart
  PROVE  AppliedInv'
<1>1. TypeInv
  BY DEF HistoryInv, PositionsInv
<1>2. PICK n \in Nat :
        /\ latestIndexed' = n /\ spent' = spent + 1
        /\ lastProcessed' = [b \in Blocks |-> IF Number[b] <= n THEN lastProcessed[b] ELSE 0]
  BY <1>1, RestartCases
<1>3. applied' = [b \in Blocks |-> IF Number[b] <= n THEN applied[b] ELSE <<>>]
  BY <1>2 DEF Restart, ResetStore, ResetHeight
<1>4. spent \in Nat /\ lastProcessed \in [Blocks -> Nat]
  BY <1>1 DEF TypeInv, StoreTyped, HandlerTyped
<1>5. ASSUME NEW b \in Blocks
      PROVE  /\ applied'[b] \in Seq(Nat)
             /\ \A k \in DOMAIN applied'[b] : applied'[b][k] \in DOMAIN Events[b]
             /\ \A k \in DOMAIN applied'[b] : applied'[b][k] <= lastProcessed'[b] + 1
             /\ \A k \in 1 .. Len(applied'[b]) - 1 : applied'[b][k] <= applied'[b][k + 1]
             /\ Len(applied'[b]) <= Cardinality(Range(applied'[b])) + spent' - (IF AppliedAhead(b)' THEN 1 ELSE 0)
  <2>1. Len(applied[b]) \in Nat /\ Cardinality(Range(applied[b])) \in Nat
    BY RangeFinite DEF AppliedInv
  <2>2. Len(applied[b]) <= Cardinality(Range(applied[b])) + spent - (IF AppliedAhead(b) THEN 1 ELSE 0)
    BY DEF AppliedInv
  <2>3. CASE Number[b] <= n
    <3>1. applied'[b] = applied[b] /\ lastProcessed'[b] = lastProcessed[b]
      BY <1>2, <1>3, <2>3
    <3>2. Len(applied[b]) <= Cardinality(Range(applied[b])) + spent' - (IF AppliedAhead(b)' THEN 1 ELSE 0)
      <4>1. PICK l, m : l = Len(applied[b]) /\ m = Cardinality(Range(applied[b]))
        OBVIOUS
      <4>2. QED BY <1>2, <1>4, <2>1, <2>2, <4>1
    <3>3. /\ applied[b] \in Seq(Nat)
          /\ \A k \in DOMAIN applied[b] : applied[b][k] \in DOMAIN Events[b]
          /\ \A k \in DOMAIN applied[b] : applied[b][k] <= lastProcessed[b] + 1
          /\ \A k \in 1 .. Len(applied[b]) - 1 : applied[b][k] <= applied[b][k + 1]
      BY DEF AppliedInv, AppliedTyped
    <3>4. QED BY <3>1, <3>2, <3>3
  <2>4. CASE ~(Number[b] <= n)
    <3>1. applied'[b] = <<>>
      BY <1>3, <2>4
    <3>2. Range(applied'[b]) = {} /\ Len(applied'[b]) = 0 /\ DOMAIN applied'[b] = {}
      BY <3>1 DEF Range
    <3>3. Cardinality(Range(applied'[b])) = 0
      BY <3>2, FS_EmptySet
    <3>4. spent' - (IF AppliedAhead(b)' THEN 1 ELSE 0) >= 0
      BY <1>2, <1>4
    <3>5. applied'[b] \in Seq(Nat)
      BY <3>1
    <3>6. QED BY <3>2, <3>3, <3>4, <3>5, <1>2, <1>4
  <2>5. QED BY <2>3, <2>4
<1>6. AppliedTyped'
  BY <1>3, <1>5 DEF AppliedTyped
<1>7. QED BY <1>5, <1>6 DEF AppliedInv

LEMMA StepKeepsApplied ==
  ASSUME HistoryInv, AppliedInv, [Next]_vars
  PROVE  AppliedInv'
<1>1. TypeInv /\ spent \in Nat
  BY DEF HistoryInv, PositionsInv, TypeInv, StoreTyped
<1>2. ASSUME UNCHANGED <<lastProcessed, applied>>, spent' \in {spent, spent + 1},
             handler.step # "update"
      PROVE  AppliedInv'
  BY <1>1, <1>2, SameApplied DEF AppliedAhead
<1>3. CASE Aside
  <2>1. UNCHANGED <<handler, lastProcessed, applied>> /\ spent' \in {spent, spent + 1}
    BY <1>3 DEF Aside
  <2>2. \A b \in Blocks : AppliedAhead(b)' => AppliedAhead(b)
    BY <2>1 DEF AppliedAhead, Block
  <2>3. QED BY <1>1, <2>1, <2>2, SameApplied
<1>4. CASE Turns
  <2>1. UNCHANGED <<lastProcessed, applied>> /\ spent' \in {spent, spent + 1}
    BY <1>4 DEF Turns
  <2>2. CASE handler.step # "update"
    BY <1>2, <2>1, <2>2
  <2>3. CASE handler.step = "update"
    BY <1>1, <1>4, <2>1, <2>3, SameApplied DEF Turns
  <2>4. QED BY <2>2, <2>3
<1>5. CASE GetPosition \/ NotCreated \/ SkipEvent
  <2>1. UNCHANGED <<lastProcessed, applied, spent>> /\ handler.step # "update"
    BY <1>5 DEF GetPosition, NotCreated, SkipEvent, GoOn, storeVars
  <2>2. QED BY <1>2, <2>1
<1>6. CASE Created
  <2>1. UNCHANGED <<lastProcessed, applied, spent>> /\ handler.step # "update"
    BY <1>6 DEF Created, Save, GoOn
  <2>2. QED BY <1>2, <2>1
<1>7. CASE CreationCommitted
  <2>1. UNCHANGED <<lastProcessed, applied, spent>> /\ handler.step # "update"
    BY <1>7 DEF CreationCommitted, Commit, GoOn
  <2>2. QED BY <1>2, <2>1
<1>8. CASE Handled
  <2>1. UNCHANGED <<lastProcessed, applied>> /\ handler.step # "update" /\ spent' \in {spent, spent + 1}
    BY <1>8 DEF Handled, SavePosition, Save, GoOn
  <2>2. QED BY <1>2, <2>1
<1>9. Applied => AppliedInv'
  BY AppendKeepsApplied
<1>10. Advances => AppliedInv'
  BY AdvanceKeepsApplied
<1>11. Restart => AppliedInv'
  BY RestartKeepsApplied
<1>12. QED BY <1>3, <1>4, <1>5, <1>6, <1>7, <1>8, <1>9, <1>10, <1>11, StepKinds

-----------------------------------------------------------------------------
(* What the tables hold. *)

\* The event in hand.
LEMMA InHand ==
  ASSUME TypeInv, handler.step # "idle", lastProcessed[Block] < Len(Events[Block])
  PROVE  /\ Block \in Rows /\ Block \in Blocks /\ Block # StartBlock /\ progress[Block] = "incomplete"
         /\ lastProcessed[Block] \in Nat /\ lastProcessed[Block] + 1 \in DOMAIN Events[Block]
         /\ Event = Events[Block][lastProcessed[Block] + 1]
         /\ Event.name \in Names /\ Event.token \in Tokens /\ Event.token \in Ids
         /\ Event.amount \in Nat /\ Event.to \in Addresses
<1>1. PICK b, i : b = Block /\ i = lastProcessed[b] + 1
  OBVIOUS
<1>2. b \in Rows /\ b \in Blocks /\ lastProcessed[b] \in Nat
  BY <1>1, HandlerBusy DEF TypeInv, HandlerTyped
<1>3. i \in DOMAIN Events[b]
  BY <1>1, <1>2, LogLength
<1>4. Event = Events[b][i]
  BY <1>1 DEF Event
<1>5. b # StartBlock
  BY <1>3, EventsAssumption
<1>6. progress[b] = "incomplete"
  <2>1. progress[b] # "complete"
    BY <1>1, <1>2 DEF TypeInv, ParentsReady
  <2>2. QED BY <1>2, <2>1 DEF Rows, TypeInv, StoreTyped
<1>7. Tokens \subseteq Ids
  BY EventsAssumption
<1>8. QED BY <1>1, <1>2, <1>3, <1>4, <1>5, <1>6, <1>7, LoggedEvent

LEMMA UnmarkedFields ==
  ASSUME NEW p \in Positions, NEW q \in Positions, Unmarked(p) = Unmarked(q)
  PROVE  /\ p.deposited = q.deposited /\ p.withdrawn = q.withdrawn /\ p.liquidity = q.liquidity
         /\ p.collected = q.collected /\ p.owner = q.owner /\ p.fees = q.fees /\ p.pool = q.pool
<1>1. [p EXCEPT !.isPruned = FALSE] = [q EXCEPT !.isPruned = FALSE]
  BY NoEntityAssumption DEF Unmarked
<1>2. PICK r : r = [p EXCEPT !.isPruned = FALSE]
  OBVIOUS
<1>3. /\ r.deposited = p.deposited /\ r.withdrawn = p.withdrawn /\ r.liquidity = p.liquidity
      /\ r.collected = p.collected /\ r.owner = p.owner /\ r.fees = p.fees /\ r.pool = p.pool
  BY <1>2 DEF Positions
<1>4. /\ r.deposited = q.deposited /\ r.withdrawn = q.withdrawn /\ r.liquidity = q.liquidity
      /\ r.collected = q.collected /\ r.owner = q.owner /\ r.fees = q.fees /\ r.pool = q.pool
  <2>1. r = [q EXCEPT !.isPruned = FALSE]
    BY <1>1, <1>2
  <2>2. QED BY <2>1 DEF Positions
<1>5. QED BY <1>3, <1>4

LEMMA UnmarkedIsEntity ==
  ASSUME NEW p \in Positions
  PROVE  Unmarked(p) # NoEntity
<1>1. Unmarked(p) = [p EXCEPT !.isPruned = FALSE]
  BY NoEntityAssumption DEF Unmarked
<1>2. \A x \in BOOLEAN : [p EXCEPT !.isPruned = x] \in Positions
  BY DEF Positions
<1>3. FALSE \in BOOLEAN
  OBVIOUS
<1>4. [p EXCEPT !.isPruned = FALSE] \in Positions
  BY ONLY <1>2, <1>3, Zenon
<1>5. QED BY <1>1, <1>4, NoEntityAssumption

LEMMA UnmarkedMade ==
  ASSUME NEW p \in Positions, NEW q \in Positions, Unmarked(p) = Unmarked(q), NEW b, NEW t,
         MadeOfEvents(q, b, t)
  PROVE  MadeOfEvents(p, b, t)
  BY UnmarkedFields DEF MadeOfEvents

LEMMA TablePositions ==
  ASSUME TypeInv, NEW k \in DOMAIN table
  PROVE  table[k] \in Positions /\ k.block \in Rows /\ k.id \in Ids
  BY DEF TypeInv, StoreTyped

\* A step that applies no event and changes no version.
LEMMA SameBlocks ==
  ASSUME HistoryInv, HistoryInv', AppliedInv, BlocksHold, UNCHANGED <<lastProcessed, applied>>,
         DOMAIN table' = DOMAIN table, \A k \in DOMAIN table : Unmarked(table'[k]) = Unmarked(table[k])
  PROVE  BlocksHold'
<1>1. TypeInv /\ TypeInv' /\ AppliedTyped /\ AppliedTyped'
  BY DEF HistoryInv, PositionsInv, AppliedInv, AppliedTyped
<1>2. ASSUME NEW b \in Blocks PROVE DueAt(b)'
  BY DEF BlocksHold, DueAt
<1>3. ASSUME NEW b \in Blocks, NEW t \in Tokens PROVE MadeAt(b, t)'
  <2>1. PICK k : k = Key(t, b)
    OBVIOUS
  <2>2. SUFFICES ASSUME k \in DOMAIN table
                 PROVE  PoolOf(b, t) # NoPool /\ MadeOfEvents(table[k], b, t)'
    BY <2>1 DEF MadeAt, Key
  <2>3. PoolOf(b, t) # NoPool /\ MadeOfEvents(table[k], b, t)
    BY <2>1, <2>2 DEF BlocksHold, MadeAt
  <2>4. PICK p, q : p = table'[k] /\ q = table[k]
    OBVIOUS
  <2>5. p \in Positions /\ q \in Positions
    BY <1>1, <2>2, <2>4 DEF TypeInv, StoreTyped
  <2>6. MadeOfEvents(p, b, t)
    BY <2>2, <2>3, <2>4, <2>5, UnmarkedMade
  <2>7. MadeOfEvents(p, b, t)'
    BY <1>1, <2>6, SameMade
  <2>8. QED BY <2>3, <2>4, <2>7 DEF MadeOfEvents
<1>4. ASSUME NEW b \in Blocks, NEW t \in Tokens PROVE FoundAt(b, t)'
  <2>1. Has(t, b)' <=> Has(t, b)
    BY DEF Has, Key
  <2>2. QED BY <2>1 DEF BlocksHold, FoundAt
<1>5. ASSUME NEW b \in Blocks, NEW t \in Tokens PROVE SnapshotAt(b, t)'
  <2>1. AppliedTo(b, t)' <=> AppliedTo(b, t)
    BY DEF AppliedTo, AppliedEvent
  <2>2. SnapshotAt(b, t)
    BY DEF BlocksHold
  <2>3. PICK k, l : k = Key(t, b) /\ l = Key(SnapshotId(t, Number[b]), b)
    OBVIOUS
  <2>4. AppliedTo(b, t)' => /\ k \in DOMAIN table' /\ l \in DOMAIN table'
                            /\ Unmarked(table'[l]) = Unmarked(table'[k])
    BY <2>1, <2>2, <2>3 DEF SnapshotAt
  <2>5. \A c \in Blocks : Key(SnapshotId(t, Number[c]), b) \in DOMAIN table' =>
          Number[c] = Number[b] /\ AppliedTo(b, t)'
    BY <2>1, <2>2 DEF SnapshotAt
  <2>6. QED BY <2>3, <2>4, <2>5 DEF SnapshotAt, Key
<1>6. QED BY <1>2, <1>3, <1>4, <1>5 DEF BlocksHold

\* An event is counted as processed.
LEMMA AdvanceBlocks ==
  ASSUME HistoryInv, HistoryInv', AppliedInv, BlocksHold, HandlerHolds, Advances, ~late'
  PROVE  BlocksHold'
<1>1. TypeInv /\ TypeInv' /\ AppliedTyped /\ AppliedTyped'
  BY DEF HistoryInv, PositionsInv, AppliedInv, AppliedTyped, Advances
<1>2. PICK b, i, u : b = Block /\ i = lastProcessed[b] + 1 /\ u = Event.token
  OBVIOUS
<1>3. handler.step = "update" /\ ~Dead(b) /\ UNCHANGED <<table, applied>>
  BY <1>2 DEF Advances
<1>4. /\ b \in Blocks /\ u \in Tokens /\ u = Events[b][i].token /\ i \in DOMAIN Events[b]
      /\ lastProcessed[b] \in Nat
  BY <1>1, <1>2, <1>3, HandlerBusy, InHand
<1>5. /\ PoolOf(b, u) # NoPool => Has(u, b)
      /\ i \in Due(b) => i \in Range(applied[b])
  BY <1>2, <1>3, <1>4 DEF HandlerHolds, HandlerAt
<1>6. \A c \in Blocks : lastProcessed'[c] = IF c = b THEN i ELSE lastProcessed[c]
  BY <1>1, <1>2 DEF Advances, TypeInv, HandlerTyped
<1>7. ASSUME NEW c \in Blocks PROVE DueAt(c)'
  <2>1. DueAt(c)
    BY DEF BlocksHold
  <2>2. \A j \in Due(c) : j \in Nat
    BY LoggedEvent DEF Due
  <2>3. \A j \in Due(c) : j <= lastProcessed'[c] => j \in Range(applied[c])
    <3>1. CASE c = b
      <4>1. ASSUME NEW j \in Due(b), j <= i PROVE j \in Range(applied[b])
        <5>1. j \in Nat /\ (j = i \/ j <= lastProcessed[b])
          BY <1>2, <1>4, <2>2, <3>1, <4>1
        <5>2. QED BY <1>5, <2>1, <3>1, <4>1, <5>1 DEF DueAt
      <4>2. QED BY <1>6, <3>1, <4>1
    <3>2. CASE c # b
      BY <1>6, <2>1, <3>2 DEF DueAt
    <3>3. QED BY <3>1, <3>2
  <2>4. QED BY <1>3, <2>1, <2>3 DEF DueAt
<1>8. ASSUME NEW c \in Blocks, NEW t \in Tokens PROVE MadeAt(c, t)'
  <2>1. PICK k : k = Key(t, c)
    OBVIOUS
  <2>2. SUFFICES ASSUME k \in DOMAIN table
                 PROVE  PoolOf(c, t) # NoPool /\ MadeOfEvents(table[k], c, t)'
    BY <1>3, <2>1 DEF MadeAt, Key
  <2>3. PoolOf(c, t) # NoPool /\ MadeOfEvents(table[k], c, t)
    BY <2>1, <2>2 DEF BlocksHold, MadeAt
  <2>4. PICK p : p = table[k]
    OBVIOUS
  <2>5. MadeOfEvents(p, c, t)'
    BY <1>1, <1>3, <2>3, <2>4, SameMade
  <2>6. QED BY <1>3, <2>3, <2>4, <2>5 DEF MadeOfEvents
<1>9. ASSUME NEW c \in Blocks, NEW t \in Tokens PROVE FoundAt(c, t)'
  <2>1. Has(t, c)' <=> Has(t, c)
    BY <1>3 DEF Has, Key
  <2>2. SUFFICES ASSUME PoolOf(c, t) # NoPool, NEW j \in DOMAIN Events[c], j <= lastProcessed'[c],
                        Events[c][j].token = t
                 PROVE  Has(t, c)
    BY <2>1 DEF FoundAt
  <2>3. CASE j <= lastProcessed[c]
    BY <2>2, <2>3 DEF BlocksHold, FoundAt
  <2>4. CASE ~(j <= lastProcessed[c])
    <3>1. c = b
      BY <1>6, <2>2, <2>4
    <3>2. j = i
      BY <1>2, <1>4, <1>6, <2>2, <2>4, <3>1, LoggedEvent
    <3>3. QED BY <1>4, <1>5, <2>2, <3>1, <3>2
  <2>5. QED BY <2>3, <2>4
<1>10. ASSUME NEW c \in Blocks, NEW t \in Tokens PROVE SnapshotAt(c, t)'
  <2>1. AppliedTo(c, t)' <=> AppliedTo(c, t)
    BY <1>3 DEF AppliedTo, AppliedEvent
  <2>2. SnapshotAt(c, t)
    BY DEF BlocksHold
  <2>3. QED BY <1>3, <2>1, <2>2 DEF SnapshotAt, Key, Unmarked
<1>11. QED BY <1>7, <1>8, <1>9, <1>10 DEF BlocksHold

\* What a commit adds are the writes of the transaction, at its block.
LEMMA CommitAdds ==
  ASSUME TypeInv, handler.step \in {"created", "saved"}, NEW step, Commit(step)
  PROVE  /\ \A k : k \in DOMAIN table' <=> k \in DOMAIN table \/ (k.id \in DOMAIN tx /\ k = Key(k.id, Block))
         /\ \A id \in DOMAIN tx : Key(id, Block) \in DOMAIN table' /\ table'[Key(id, Block)] = tx[id]
         /\ \A k \in DOMAIN table : ~(k.id \in DOMAIN tx /\ k = Key(k.id, Block)) => table'[k] = table[k]
         /\ late' = (late \/ Dead(Block)) /\ lastProcessed' = lastProcessed
<1>1. Block \in Rows /\ CommitEntities(Block, tx)
  BY HandlerBusy DEF Commit
<1>2. late' = (late \/ Dead(Block)) /\ lastProcessed' = lastProcessed
  BY <1>1 DEF CommitEntities, Commit, GoOn
<1>3. QED BY <1>1, <1>2, CommitTable

\* A position is created.
LEMMA CreationBlocks ==
  ASSUME HistoryInv, HistoryInv', AppliedInv, BlocksHold, HandlerHolds, CreationCommitted, ~late'
  PROVE  BlocksHold'
<1>1. TypeInv /\ TypeInv' /\ AppliedTyped /\ AppliedTyped' /\ handler.step = "created"
  BY DEF HistoryInv, PositionsInv, AppliedInv, AppliedTyped, CreationCommitted
<1>2. PICK b, u : b = Block /\ u = Event.token
  OBVIOUS
<1>3. /\ \A k : k \in DOMAIN table' <=> k \in DOMAIN table \/ (k.id \in DOMAIN tx /\ k = Key(k.id, b))
      /\ \A id \in DOMAIN tx : Key(id, b) \in DOMAIN table' /\ table'[Key(id, b)] = tx[id]
      /\ \A k \in DOMAIN table : ~(k.id \in DOMAIN tx /\ k = Key(k.id, b)) => table'[k] = table[k]
      /\ late' = (late \/ Dead(b)) /\ lastProcessed' = lastProcessed
  BY <1>1, <1>2, CommitAdds DEF CreationCommitted
<1>4. ~Dead(b) /\ UNCHANGED <<applied, lastProcessed>>
  BY <1>3 DEF CreationCommitted
<1>5. b \in Blocks /\ u \in Tokens
  BY <1>1, <1>2, HandlerBusy, InHand
<1>6. PoolOf(b, u) # NoPool /\ ~Has(u, b) /\ DOMAIN tx = {u} /\ MadeOfEvents(tx[u], b, u)
  BY <1>1, <1>2, <1>4, <1>5 DEF HandlerHolds, HandlerAt
<1>7. PICK m : m = Key(u, b)
  OBVIOUS
<1>8. /\ m \notin DOMAIN table
      /\ DOMAIN table' = DOMAIN table \cup {m} /\ table'[m] = tx[u]
      /\ \A k \in DOMAIN table : table'[k] = table[k]
  <2>1. b \in Chain[b]
    BY <1>5, ChainDef
  <2>2. m \notin DOMAIN table
    BY <1>6, <1>7, <2>1 DEF Has
  <2>3. m.id = u /\ m = Key(m.id, b)
    BY <1>7 DEF Key
  <2>4. \A k : k.id = u /\ k = Key(k.id, b) => k = m
    BY <1>7
  <2>5. DOMAIN table' = DOMAIN table \cup {m}
    BY <1>3, <1>6, <2>3, <2>4
  <2>6. QED BY <1>3, <1>6, <1>7, <2>2, <2>4, <2>5
<1>9. ASSUME NEW c \in Blocks PROVE DueAt(c)'
  BY <1>4 DEF BlocksHold, DueAt
<1>10. ASSUME NEW c \in Blocks, NEW t \in Tokens PROVE MadeAt(c, t)'
  <2>1. PICK k : k = Key(t, c)
    OBVIOUS
  <2>2. SUFFICES ASSUME k \in DOMAIN table'
                 PROVE  PoolOf(c, t) # NoPool /\ MadeOfEvents(table[k], c, t)'
    BY <2>1 DEF MadeAt, Key
  <2>3. PICK p : p = table'[k]
    OBVIOUS
  <2>4. PoolOf(c, t) # NoPool /\ MadeOfEvents(p, c, t)
    <3>1. CASE k = m
      <4>1. c = b /\ t = u /\ p = tx[u]
        BY <1>7, <1>8, <2>1, <2>3, <3>1 DEF Key
      <4>2. QED BY <1>6, <4>1
    <3>2. CASE k # m
      <4>1. k \in DOMAIN table /\ p = table[k]
        BY <1>8, <2>2, <2>3, <3>2
      <4>2. QED BY <2>1, <4>1 DEF BlocksHold, MadeAt
    <3>3. QED BY <3>1, <3>2
  <2>5. MadeOfEvents(p, c, t)'
    BY <1>1, <1>4, <2>4, SameMade
  <2>6. QED BY <2>3, <2>4, <2>5 DEF MadeOfEvents
<1>11. ASSUME NEW c \in Blocks, NEW t \in Tokens PROVE FoundAt(c, t)'
  <2>1. Has(t, c) => Has(t, c)'
    BY <1>8 DEF Has, Key
  <2>2. QED BY <1>4, <2>1 DEF BlocksHold, FoundAt
<1>12. ASSUME NEW c \in Blocks, NEW t \in Tokens PROVE SnapshotAt(c, t)'
  <2>1. AppliedTo(c, t)' <=> AppliedTo(c, t)
    BY <1>4 DEF AppliedTo, AppliedEvent
  <2>2. SnapshotAt(c, t)
    BY DEF BlocksHold
  <2>3. PICK k, l : k = Key(t, c) /\ l = Key(SnapshotId(t, Number[c]), c)
    OBVIOUS
  <2>4. ASSUME AppliedTo(c, t)
        PROVE  /\ k \in DOMAIN table' /\ l \in DOMAIN table'
               /\ Unmarked(table'[l]) = Unmarked(table'[k])
    <3>1. /\ k \in DOMAIN table /\ l \in DOMAIN table
          /\ Unmarked(table[l]) = Unmarked(table[k])
      BY <2>2, <2>3, <2>4 DEF SnapshotAt
    <3>2. QED BY <1>8, <3>1
  <2>5. ASSUME NEW d \in Blocks, Key(SnapshotId(t, Number[d]), c) \in DOMAIN table'
        PROVE  Number[d] = Number[c] /\ AppliedTo(c, t)
    <3>1. SnapshotId(t, Number[d]) # u
      BY <1>5, EventsAssumption
    <3>2. Key(SnapshotId(t, Number[d]), c) # m
      BY <1>7, <3>1 DEF Key
    <3>3. Key(SnapshotId(t, Number[d]), c) \in DOMAIN table
      BY <1>8, <2>5, <3>2
    <3>4. QED BY <2>2, <3>3 DEF SnapshotAt
  <2>6. /\ AppliedTo(c, t)' => /\ k \in DOMAIN table' /\ l \in DOMAIN table'
                               /\ Unmarked(table'[l]) = Unmarked(table'[k])
        /\ \A d \in Blocks : Key(SnapshotId(t, Number[d]), c) \in DOMAIN table' =>
              Number[d] = Number[c] /\ AppliedTo(c, t)'
    BY <2>1, <2>4, <2>5
  <2>7. QED BY <2>3, <2>6 DEF SnapshotAt, Key
<1>13. QED BY <1>9, <1>10, <1>11, <1>12 DEF BlocksHold

\* An event is applied.
LEMMA ApplyBlocks ==
  ASSUME HistoryInv, HistoryInv', AppliedInv, BlocksHold, HandlerHolds, Applied, ~late',
         NEW b, NEW u, b = Block, u = Event.token
  PROVE  /\ BlocksHold'
         /\ Has(u, b)' /\ lastProcessed[b] + 1 \in Range(applied'[b])
<1>1. TypeInv /\ TypeInv' /\ AppliedTyped /\ handler.step = "saved"
  BY DEF HistoryInv, PositionsInv, AppliedInv, Applied
<1>2. PICK i, s : i = lastProcessed[b] + 1 /\ s = SnapshotId(u, Number[b])
  OBVIOUS
<1>3. /\ \A k : k \in DOMAIN table' <=> k \in DOMAIN table \/ (k.id \in DOMAIN tx /\ k = Key(k.id, b))
      /\ \A id \in DOMAIN tx : Key(id, b) \in DOMAIN table' /\ table'[Key(id, b)] = tx[id]
      /\ \A k \in DOMAIN table : ~(k.id \in DOMAIN tx /\ k = Key(k.id, b)) => table'[k] = table[k]
      /\ late' = (late \/ Dead(b)) /\ lastProcessed' = lastProcessed
  BY <1>1, <1>2, CommitAdds DEF Applied
<1>4. ~Dead(b) /\ AppendsTo(b, i)
  BY <1>2, <1>3 DEF Applied
<1>5. /\ b \in Rows /\ b \in Blocks /\ u \in Tokens /\ i \in DOMAIN Events[b] /\ Event = Events[b][i]
      /\ u = Events[b][i].token /\ progress[b] = "incomplete"
  <2>1. handler.step # "idle" /\ lastProcessed[Block] < Len(Events[Block])
    BY <1>1, HandlerBusy
  <2>2. QED BY <1>1, <1>2, <2>1, InHand
<1>6. /\ PoolOf(b, u) # NoPool /\ i \in Due(b)
      /\ DOMAIN tx = {u, s} /\ Unmarked(tx[s]) = Unmarked(tx[u])
  BY <1>1, <1>2, <1>4, <1>5 DEF HandlerHolds, HandlerAt
<1>7. PICK p \in Positions : MadeOfEvents(p, b, u) /\ tx[u] = Changed(p, Event, b)
  BY <1>1, <1>2, <1>4, <1>5 DEF HandlerHolds, HandlerAt
<1>8. /\ AppliedTyped'
      /\ \A c \in Blocks \ {b} : applied'[c] = applied[c]
  BY <1>1, <1>4, <1>5, Appended
<1>9. /\ \A t : AppliedTo(b, t)' <=> (AppliedTo(b, t) \/ u = t)
      /\ Range(applied'[b]) = Range(applied[b]) \cup {i}
  BY <1>1, <1>4, <1>5, AppendedEvents
<1>10. PICK m, n : m = Key(u, b) /\ n = Key(s, b)
  OBVIOUS
<1>11. s \notin Tokens /\ u # s
  BY <1>2, <1>5, EventsAssumption
<1>12. /\ DOMAIN table' = DOMAIN table \cup {m, n} /\ table'[m] = tx[u] /\ table'[n] = tx[s]
       /\ \A k \in DOMAIN table : k \notin {m, n} => table'[k] = table[k]
  <2>1. m.id = u /\ m = Key(m.id, b) /\ n.id = s /\ n = Key(n.id, b)
    BY <1>10 DEF Key
  <2>2. \A k : k.id \in {u, s} /\ k = Key(k.id, b) => k \in {m, n}
    BY <1>10
  <2>3. DOMAIN table' = DOMAIN table \cup {m, n}
    BY <1>3, <1>6, <2>1, <2>2
  <2>4. QED BY <1>3, <1>6, <1>10, <2>2, <2>3
<1>13. ASSUME NEW c \in Blocks PROVE DueAt(c)'
  <2>1. DueAt(c)
    BY DEF BlocksHold
  <2>2. CASE c = b
    BY <1>3, <1>6, <1>9, <2>1, <2>2 DEF DueAt
  <2>3. CASE c # b
    BY <1>3, <1>8, <2>1, <2>3 DEF DueAt
  <2>4. QED BY <2>2, <2>3
<1>14. ASSUME NEW c \in Blocks, NEW t \in Tokens PROVE MadeAt(c, t)'
  <2>1. PICK k : k = Key(t, c)
    OBVIOUS
  <2>2. SUFFICES ASSUME k \in DOMAIN table'
                 PROVE  PoolOf(c, t) # NoPool /\ MadeOfEvents(table[k], c, t)'
    BY <2>1 DEF MadeAt, Key
  <2>3. PICK q : q = table'[k]
    OBVIOUS
  <2>4. PoolOf(c, t) # NoPool /\ MadeOfEvents(q, c, t)'
    <3>1. CASE k = m
      <4>1. c = b /\ t = u /\ q = Changed(p, Events[b][i], b)
        BY <1>5, <1>7, <1>10, <1>12, <2>1, <2>3, <3>1 DEF Key
      <4>2. MadeOfEvents(Changed(p, Events[b][i], b), b, u)'
        BY <1>1, <1>4, <1>5, <1>7, AppendMade
      <4>3. QED BY <1>6, <4>1, <4>2
    <3>2. CASE k # m
      <4>1. k # n
        BY <1>10, <1>11, <2>1 DEF Key
      <4>2. k \in DOMAIN table /\ q = table[k]
        BY <1>12, <2>2, <2>3, <3>2, <4>1
      <4>3. PoolOf(c, t) # NoPool /\ MadeOfEvents(q, c, t) /\ q \in Positions
        BY <1>1, <2>1, <4>2, TablePositions DEF BlocksHold, MadeAt
      <4>4. CASE c = b
        <5>1. t # u
          BY <1>10, <2>1, <3>2, <4>4
        <5>2. MadeOfEvents(q, b, t)'
          BY <1>1, <1>4, <1>5, <4>3, <4>4, <5>1, AppendMade
        <5>3. QED BY <4>3, <4>4, <5>2
      <4>5. CASE c # b
        <5>1. c \in Rows
          BY <1>1, <2>1, <4>2, TablePositions DEF Key
        <5>2. b \notin Chain[c]
          BY <1>1, <1>5, <4>5, <5>1, AncestorsComplete
        <5>3. \A d \in Chain[c] : applied'[d] = applied[d]
          BY <1>8, <5>2, ChainBelow
        <5>4. MadeOfEvents(q, c, t)'
          BY <1>1, <1>8, <4>3, <5>3, SameMade
        <5>5. QED BY <4>3, <5>4
      <4>6. QED BY <4>4, <4>5
    <3>3. QED BY <3>1, <3>2
  <2>5. QED BY <2>3, <2>4 DEF MadeOfEvents
<1>15. ASSUME NEW c \in Blocks, NEW t \in Tokens PROVE FoundAt(c, t)'
  <2>1. Has(t, c) => Has(t, c)'
    BY <1>12 DEF Has, Key
  <2>2. QED BY <1>3, <2>1 DEF BlocksHold, FoundAt
<1>16. ASSUME NEW c \in Blocks, NEW t \in Tokens PROVE SnapshotAt(c, t)'
  <2>1. AppliedTo(c, t)' <=> AppliedTo(c, t) \/ (c = b /\ t = u)
    <3>1. CASE c = b
      BY <1>9, <3>1
    <3>2. CASE c # b
      BY <1>8, <3>2 DEF AppliedTo, AppliedEvent
    <3>3. QED BY <3>1, <3>2
  <2>2. SnapshotAt(c, t)
    BY DEF BlocksHold
  <2>3. PICK k, l : k = Key(t, c) /\ l = Key(SnapshotId(t, Number[c]), c)
    OBVIOUS
  <2>4. ASSUME AppliedTo(c, t)'
        PROVE  /\ k \in DOMAIN table' /\ l \in DOMAIN table'
               /\ Unmarked(table'[l]) = Unmarked(table'[k])
    <3>1. CASE c = b /\ t = u
      <4>1. k = m /\ l = n
        BY <1>2, <1>10, <2>3, <3>1
      <4>2. QED BY <1>6, <1>12, <4>1
    <3>2. CASE ~(c = b /\ t = u)
      <4>1. /\ k \in DOMAIN table /\ l \in DOMAIN table
            /\ Unmarked(table[l]) = Unmarked(table[k])
        BY <2>1, <2>2, <2>3, <2>4, <3>2 DEF SnapshotAt
      <4>2. k \notin {m, n}
        BY <1>10, <1>11, <2>3, <3>2 DEF Key
      <4>3. l \notin {m, n}
        <5>1. SnapshotId(t, Number[c]) # u
          BY <1>5, EventsAssumption
        <5>2. c = b => SnapshotId(t, Number[c]) # s
          BY <1>2, <3>2 DEF SnapshotId
        <5>3. QED BY <1>10, <2>3, <5>1, <5>2 DEF Key
      <4>4. QED BY <1>12, <4>1, <4>2, <4>3
    <3>3. QED BY <3>1, <3>2
  <2>5. ASSUME NEW d \in Blocks, Key(SnapshotId(t, Number[d]), c) \in DOMAIN table'
        PROVE  Number[d] = Number[c] /\ AppliedTo(c, t)'
    <3>1. Key(SnapshotId(t, Number[d]), c) # m
      BY <1>5, <1>10, EventsAssumption DEF Key
    <3>2. CASE Key(SnapshotId(t, Number[d]), c) = n
      <4>1. c = b /\ SnapshotId(t, Number[d]) = SnapshotId(u, Number[b])
        BY <1>2, <1>10, <3>2 DEF Key
      <4>2. t = u /\ Number[d] = Number[b]
        BY <4>1 DEF SnapshotId
      <4>3. QED BY <2>1, <4>1, <4>2
    <3>3. CASE Key(SnapshotId(t, Number[d]), c) # n
      <4>1. Key(SnapshotId(t, Number[d]), c) \in DOMAIN table
        BY <1>12, <2>5, <3>1, <3>3
      <4>2. QED BY <2>1, <2>2, <4>1 DEF SnapshotAt
    <3>4. QED BY <3>2, <3>3
  <2>6. /\ AppliedTo(c, t)' => /\ k \in DOMAIN table' /\ l \in DOMAIN table'
                               /\ Unmarked(table'[l]) = Unmarked(table'[k])
        /\ \A d \in Blocks : Key(SnapshotId(t, Number[d]), c) \in DOMAIN table' =>
              Number[d] = Number[c] /\ AppliedTo(c, t)'
    BY <2>4, <2>5
  <2>7. QED BY <2>3, <2>6 DEF SnapshotAt, Key
<1>17. BlocksHold'
  BY <1>13, <1>14, <1>15, <1>16 DEF BlocksHold
<1>18. Has(u, b)'
  <2>1. b \in Chain[b]
    BY <1>5, ChainDef
  <2>2. QED BY <1>10, <1>12, <2>1 DEF Has, Key
<1>19. QED BY <1>2, <1>9, <1>17, <1>18

LEMMA RestartBlocks ==
  ASSUME HistoryInv, HistoryInv', AppliedInv, BlocksHold, Restart
  PROVE  BlocksHold'
<1>1. TypeInv /\ AppliedTyped
  BY DEF HistoryInv, PositionsInv, AppliedInv
<1>2. PICK n \in Nat :
        /\ latestIndexed' = n
        /\ table' = [k \in {l \in DOMAIN table : Number[l.block] <= n} |-> table[k]]
        /\ lastProcessed' = [b \in Blocks |-> IF Number[b] <= n THEN lastProcessed[b] ELSE 0]
  BY <1>1, RestartCases
<1>3. applied' = [b \in Blocks |-> IF Number[b] <= n THEN applied[b] ELSE <<>>]
  BY <1>2 DEF Restart, ResetStore, ResetHeight
<1>4. AppliedTyped'
  BY StepKeepsApplied DEF AppliedInv, Next
<1>5. ASSUME NEW k
      PROVE  /\ k \in DOMAIN table' <=> k \in DOMAIN table /\ Number[k.block] <= n
             /\ k \in DOMAIN table' => table'[k] = table[k]
  BY <1>2
<1>6. ASSUME NEW b \in Blocks, Number[b] <= n
      PROVE  /\ applied'[b] = applied[b] /\ lastProcessed'[b] = lastProcessed[b]
             /\ \A c \in Chain[b] : c \in Blocks /\ Number[c] <= n /\ applied'[c] = applied[c]
  <2>1. \A c \in Chain[b] : /\ c \in Blocks /\ Number[c] \in Nat /\ Number[b] \in Nat
                           /\ Number[c] <= Number[b]
    BY ChainBelow
  <2>2. \A c \in Chain[b] : c \in Blocks /\ Number[c] <= n
    BY <1>6, <2>1
  <2>3. QED BY <1>2, <1>3, <1>6, <2>2
<1>7. ASSUME NEW b \in Blocks, ~(Number[b] <= n)
      PROVE  /\ applied'[b] = <<>> /\ lastProcessed'[b] = 0
             /\ \A id : Key(id, b) \notin DOMAIN table'
  <2>1. \A id : Key(id, b) \notin DOMAIN table'
    BY <1>5, <1>7 DEF Key
  <2>2. QED BY <1>2, <1>3, <1>7, <2>1
<1>8. ASSUME NEW b \in Blocks PROVE DueAt(b)'
  <2>1. CASE Number[b] <= n
    BY <1>6, <2>1 DEF BlocksHold, DueAt
  <2>2. CASE ~(Number[b] <= n)
    <3>1. \A i \in Due(b) : ~(i <= 0)
      BY LoggedEvent DEF Due
    <3>2. Range(applied'[b]) = {}
      BY <1>7, <2>2 DEF Range
    <3>3. QED BY <1>7, <2>2, <3>1, <3>2 DEF DueAt
  <2>3. QED BY <2>1, <2>2
<1>9. ASSUME NEW b \in Blocks, NEW t \in Tokens PROVE MadeAt(b, t)'
  <2>1. PICK k : k = Key(t, b)
    OBVIOUS
  <2>2. SUFFICES ASSUME k \in DOMAIN table'
                 PROVE  PoolOf(b, t) # NoPool /\ MadeOfEvents(table[k], b, t)'
    BY <2>1 DEF MadeAt, Key
  <2>3. PICK p : p = table'[k]
    OBVIOUS
  <2>4. k \in DOMAIN table /\ p = table[k] /\ Number[b] <= n
    BY <1>5, <2>1, <2>2, <2>3 DEF Key
  <2>5. PoolOf(b, t) # NoPool /\ MadeOfEvents(p, b, t)
    BY <2>1, <2>4 DEF BlocksHold, MadeAt
  <2>6. MadeOfEvents(p, b, t)'
    BY <1>1, <1>4, <1>6, <2>4, <2>5, SameMade
  <2>7. QED BY <2>3, <2>5, <2>6 DEF MadeOfEvents
<1>10. ASSUME NEW b \in Blocks, NEW t \in Tokens PROVE FoundAt(b, t)'
  <2>1. CASE Number[b] <= n
    <3>1. Has(t, b) => Has(t, b)'
      BY <1>5, <1>6, <2>1 DEF Has, Key
    <3>2. QED BY <1>6, <2>1, <3>1 DEF BlocksHold, FoundAt
  <2>2. CASE ~(Number[b] <= n)
    <3>1. \A i \in DOMAIN Events[b] : ~(i <= 0)
      BY LoggedEvent
    <3>2. QED BY <1>7, <2>2, <3>1 DEF FoundAt
  <2>3. QED BY <2>1, <2>2
<1>11. ASSUME NEW b \in Blocks, NEW t \in Tokens PROVE SnapshotAt(b, t)'
  <2>1. PICK k, l : k = Key(t, b) /\ l = Key(SnapshotId(t, Number[b]), b)
    OBVIOUS
  <2>2. SnapshotAt(b, t)
    BY DEF BlocksHold
  <2>3. CASE Number[b] <= n
    <3>1. AppliedTo(b, t)' <=> AppliedTo(b, t)
      BY <1>6, <2>3 DEF AppliedTo, AppliedEvent
    <3>2. k.block = b /\ l.block = b
      BY <2>1 DEF Key
    <3>3. ASSUME AppliedTo(b, t)
          PROVE  /\ k \in DOMAIN table' /\ l \in DOMAIN table'
                 /\ Unmarked(table'[l]) = Unmarked(table'[k])
      <4>1. /\ k \in DOMAIN table /\ l \in DOMAIN table
            /\ Unmarked(table[l]) = Unmarked(table[k])
        BY <2>1, <2>2, <3>3 DEF SnapshotAt
      <4>2. QED BY <1>5, <2>3, <3>2, <4>1
    <3>4. \A d \in Blocks : Key(SnapshotId(t, Number[d]), b) \in DOMAIN table' =>
            Number[d] = Number[b] /\ AppliedTo(b, t)
      BY <1>5, <2>2 DEF SnapshotAt
    <3>5. /\ AppliedTo(b, t)' => /\ k \in DOMAIN table' /\ l \in DOMAIN table'
                                 /\ Unmarked(table'[l]) = Unmarked(table'[k])
          /\ \A d \in Blocks : Key(SnapshotId(t, Number[d]), b) \in DOMAIN table' =>
                Number[d] = Number[b] /\ AppliedTo(b, t)'
      BY <3>1, <3>3, <3>4
    <3>6. QED BY <2>1, <3>5 DEF SnapshotAt, Key
  <2>4. CASE ~(Number[b] <= n)
    <3>1. ~AppliedTo(b, t)'
      BY <1>7, <2>4 DEF AppliedTo
    <3>2. \A d \in Blocks : Key(SnapshotId(t, Number[d]), b) \notin DOMAIN table'
      BY <1>7, <2>4
    <3>3. QED BY <3>1, <3>2 DEF SnapshotAt, Key
  <2>5. QED BY <2>3, <2>4
<1>12. QED BY <1>8, <1>9, <1>10, <1>11 DEF BlocksHold

LEMMA StepKeepsBlocks ==
  ASSUME HistoryInv, HistoryInv', AppliedInv, BlocksHold, HandlerHolds, [Next]_vars, ~late'
  PROVE  BlocksHold'
<1>1. CASE Aside
  <2>1. /\ UNCHANGED <<lastProcessed, applied>> /\ DOMAIN table' = DOMAIN table
        /\ \A k \in DOMAIN table : Unmarked(table'[k]) = Unmarked(table[k])
    BY <1>1 DEF Aside
  <2>2. QED BY <2>1, SameBlocks
<1>2. ASSUME UNCHANGED <<lastProcessed, applied, table>> PROVE BlocksHold'
  BY <1>2, SameBlocks
<1>3. CASE Turns
  BY <1>2, <1>3 DEF Turns
<1>4. CASE GetPosition \/ NotCreated \/ SkipEvent
  <2>1. UNCHANGED <<lastProcessed, applied, table>>
    BY <1>4 DEF GetPosition, NotCreated, SkipEvent, GoOn, storeVars
  <2>2. QED BY <1>2, <2>1
<1>5. CASE Created
  <2>1. UNCHANGED <<lastProcessed, applied, table>>
    BY <1>5 DEF Created, Save, GoOn
  <2>2. QED BY <1>2, <2>1
<1>6. CASE Handled
  <2>1. UNCHANGED <<lastProcessed, applied, table>>
    BY <1>6 DEF Handled, SavePosition, Save, GoOn
  <2>2. QED BY <1>2, <2>1
<1>7. CASE CreationCommitted
  BY <1>7, CreationBlocks
<1>8. CASE Applied
  BY <1>8, ApplyBlocks
<1>9. CASE Advances
  BY <1>9, AdvanceBlocks
<1>10. CASE Restart
  BY <1>10, RestartBlocks
<1>11. QED BY <1>1, <1>3, <1>4, <1>5, <1>6, <1>7, <1>8, <1>9, <1>10, StepKinds

-----------------------------------------------------------------------------
(* What the events job has in hand. *)

\* A position that is read is what the events applied on the way make of it.
LEMMA FoundPosition ==
  ASSUME HistoryInv, AppliedInv, BlocksHold, ~late, NEW b \in Blocks, ~Dead(b), NEW t \in Tokens,
         FromTable(b, t) # NoEntity
  PROVE  /\ FromTable(b, t) \in Positions /\ Has(t, b) /\ PoolOf(b, t) # NoPool
         /\ MadeOfEvents(FromTable(b, t), b, t)
<1>1. TypeInv /\ ReadsAlongChain /\ AppliedTyped /\ t \in Ids
  BY InvReads, EventsAssumption DEF HistoryInv, PositionsInv, AppliedInv
<1>2. PICK d \in Blocks : Nearest(t, b, d) /\ FromTable(b, t) = table[Key(t, d)]
  BY <1>1, ReadsNearest
<1>3. PICK k, p : k = Key(t, d) /\ p = table[k]
  OBVIOUS
<1>4. /\ d \in Chain[b] /\ k \in DOMAIN table
      /\ \A c \in Chain[b] : Number[c] > Number[d] => Key(t, c) \notin DOMAIN table
  BY <1>2, <1>3 DEF Nearest
<1>5. p \in Positions /\ PoolOf(d, t) # NoPool /\ MadeOfEvents(p, d, t)
  BY <1>1, <1>3, <1>4, TablePositions DEF BlocksHold, MadeAt
<1>6. \A c \in Chain[b] : Number[c] > Number[d] => ~AppliedTo(c, t)
  BY <1>4, ChainBelow DEF BlocksHold, SnapshotAt
<1>7. MadeOfEvents(p, b, t)
  BY <1>1, <1>4, <1>5, <1>6, NothingSince
<1>8. PoolOf(b, t) # NoPool
  BY <1>4, <1>5, PoolStays
<1>9. QED BY <1>2, <1>3, <1>4, <1>5, <1>7, <1>8 DEF Has

LEMMA NoPosition ==
  ASSUME HistoryInv, AppliedInv, BlocksHold, ~late, NEW b \in Blocks, ~Dead(b), NEW t \in Tokens,
         FromTable(b, t) = NoEntity
  PROVE  ~Has(t, b)
<1>1. TypeInv /\ ReadsAlongChain /\ t \in Ids
  BY InvReads, EventsAssumption DEF HistoryInv, PositionsInv
<1>2. ASSUME NEW d \in Blocks, Nearest(t, b, d), FromTable(b, t) = table[Key(t, d)] PROVE FALSE
  BY <1>1, <1>2, TablePositions, NoEntityAssumption DEF Nearest
<1>3. QED BY <1>1, <1>2, ReadsNearest

LEMMA NotApplied ==
  ASSUME BlocksHold, NEW b \in Blocks, NEW t \in Tokens, ~Has(t, b)
  PROVE  \A c \in Chain[b] : ~AppliedTo(c, t)
  BY ChainBelow DEF BlocksHold, SnapshotAt, Has

\* At the first event of a token its pool is that of the contract, if no position is found.
LEMMA PoolOfFirst ==
  ASSUME TypeInv, BlocksHold, NEW b \in Rows, b # StartBlock, NEW t \in Tokens, Mentions(b, t),
         ~Has(t, b)
  PROVE  PoolOf(b, t) = PoolAt[b][t]
<1>1. PICK a : a = Parent[b]
  OBVIOUS
<1>2. b \in Blocks /\ a \in Blocks /\ a \in Chain[b] /\ a # b /\ Number[b] = Number[a] + 1 /\ Number[a] \in Nat
  BY <1>1, ParentBelow, ChainDef DEF Rows
<1>3. ASSUME PoolOf(a, t) # NoPool PROVE FALSE
  <2>1. PICK d \in Chain[a] : Mentions(d, t) /\ PoolOf(d, t) # NoPool
    BY <1>2, <1>3, PoolMentioned
  <2>2. d \in Blocks /\ d \in Chain[b] /\ d # b
    BY <1>2, ChainBelow, ChainOfAncestor
  <2>3. progress[d] = "complete"
    BY <2>2, AncestorsComplete
  <2>4. lastProcessed[d] = Len(Events[d])
    BY <2>2, <2>3 DEF TypeInv, ParentsReady
  <2>5. PICK i \in DOMAIN Events[d] : Events[d][i].token = t
    BY <2>1 DEF Mentions
  <2>6. Has(t, d)
    BY <2>1, <2>2, <2>4, <2>5, LoggedEvent DEF BlocksHold, FoundAt
  <2>7. Has(t, b)
    <3>1. PICK c \in Chain[d] : Key(t, c) \in DOMAIN table
      BY <2>6 DEF Has
    <3>2. c \in Chain[b]
      BY <1>2, <2>2, ChainOfAncestor
    <3>3. QED BY <3>1, <3>2 DEF Has
  <2>8. QED BY <2>7
<1>4. QED BY <1>1, <1>2, <1>3, PoolOfDef

\* The event in hand stays the same.
LEMMA GoesOn ==
  ASSUME TypeInv, NEW step \in Steps, NEW position \in Positions \cup {NoEntity}, GoOn(step, position)
  PROVE  /\ handler'.step = step /\ handler'.position = position
         /\ Block' = Block /\ Event' = Event /\ lastProcessed' = lastProcessed
<1>1. /\ handler'.step = step /\ handler'.position = position
      /\ handler'.block = handler.block /\ lastProcessed' = lastProcessed
  BY GoOnTyped DEF TypeInv
<1>2. QED BY <1>1 DEF Event, Block

\* A step of the handler of one event.
LEMMA HandlerStays ==
  ASSUME TypeInv, NEW step \in Steps \ {"idle", "next"}, NEW position \in Positions \cup {NoEntity},
         GoOn(step, position),
         UNCHANGED <<prunedBlocks, latestCanonical>>,
         \A b \in Blocks : \A t \in Tokens :
           b = Block /\ t = Event.token /\ ~Dead(b) => HandlerAt(b, t)'
  PROVE  HandlerHolds'
<1>1. /\ handler'.step = step /\ Block' = Block /\ Event' = Event
  BY GoesOn
<1>2. \A b : Dead(b)' <=> Dead(b)
  BY SameLife
<1>3. QED BY <1>1, <1>2 DEF HandlerHolds

LEMMA AsideHandler ==
  ASSUME HistoryInv, AppliedInv, AppliedInv', HandlerHolds, Aside, ~late'
  PROVE  HandlerHolds'
<1>1. TypeInv /\ AppliedTyped /\ AppliedTyped'
  BY DEF HistoryInv, PositionsInv, AppliedInv
<1>2. UNCHANGED <<handler, tx, lastProcessed, applied>> /\ DOMAIN table' = DOMAIN table
  BY DEF Aside
<1>3. SUFFICES ASSUME NEW b \in Blocks, NEW t \in Tokens, handler.step \notin {"idle", "next"},
                      b = Block, t = Event.token, ~Dead(b)'
               PROVE  HandlerAt(b, t)'
  BY <1>2 DEF HandlerHolds, Block, Event
<1>4. ~Dead(b)
  BY <1>3 DEF Aside
<1>5. HandlerAt(b, t)
  BY <1>3, <1>4 DEF HandlerHolds
<1>6. Has(t, b)' <=> Has(t, b)
  BY <1>2 DEF Has, Key
<1>7. \A p : MadeOfEvents(p, b, t)' <=> MadeOfEvents(p, b, t)
  BY <1>1, <1>2, SameMade
<1>8. Event' = Event
  BY <1>2 DEF Event, Block
<1>9. PICK x, y : x = tx[t] /\ y = handler.position
  OBVIOUS
<1>10. (handler.step = "created" => MadeOfEvents(x, b, t)') /\ (handler.step \in {"created", "got"} => MadeOfEvents(y, b, t)')
  BY <1>5, <1>7, <1>9 DEF HandlerAt
<1>11. (handler.step = "created" => MadeOfEvents(tx[t], b, t)') /\ (handler.step \in {"created", "got"} => MadeOfEvents(handler.position, b, t)')
  BY <1>2, <1>9, <1>10 DEF MadeOfEvents
<1>12. handler.step = "saved" =>
         /\ lastProcessed[b] + 1 \in Due(b)
         /\ DOMAIN tx = {t, SnapshotId(t, Number[b])} /\ Unmarked(tx[SnapshotId(t, Number[b])]) = Unmarked(tx[t])
         /\ \E p \in Positions : MadeOfEvents(p, b, t)' /\ tx[t] = Changed(p, Event, b)
  BY <1>5, <1>7 DEF HandlerAt
<1>13. QED BY <1>2, <1>5, <1>6, <1>8, <1>11, <1>12 DEF HandlerAt, Unmarked

LEMMA GetHandler ==
  ASSUME HistoryInv, AppliedInv, BlocksHold, ~late, GetPosition
  PROVE  HandlerHolds'
<1>1. TypeInv /\ PositionsInv /\ AppliedTyped
  BY DEF HistoryInv, PositionsInv, AppliedInv
<1>2. PICK position : position = GetEntity(Block, Event.token)
  OBVIOUS
<1>3. /\ handler.step = "next" /\ lastProcessed[Block] < Len(Events[Block])
      /\ GoOn(IF position = NoEntity THEN "call" ELSE "got", position)
      /\ UNCHANGED <<storeVars, tx, applied>>
  BY <1>2 DEF GetPosition
<1>4. UNCHANGED <<prunedBlocks, latestCanonical, table, applied, tx>>
  BY <1>3 DEF storeVars
<1>5. Event.token \in Tokens /\ Event.token \in Ids /\ Block \in Blocks
  BY <1>1, <1>3, InHand
<1>6. position \in Positions \cup {NoEntity}
  BY <1>1, <1>2, <1>5, GetEntityType DEF TypeInv
<1>7. PICK step \in {"call", "got"} : step = IF position = NoEntity THEN "call" ELSE "got"
  OBVIOUS
<1>8. handler'.step = step /\ handler'.position = position /\ step \in Steps \ {"idle", "next"} /\ GoOn(step, position)
  BY <1>1, <1>3, <1>6, <1>7, GoesOn DEF Steps
<1>9. ASSUME NEW b \in Blocks, NEW t \in Tokens, b = Block, t = Event.token, ~Dead(b)
      PROVE  HandlerAt(b, t)'
  <2>1. b \in Rows /\ b # StartBlock /\ progress[b] = "incomplete" /\ Mentions(b, t) /\ t \in Ids
    BY <1>1, <1>3, <1>9, InHand DEF Mentions
  <2>2. tx = NoWrites
    BY <1>1, <1>3, HandlerBusy
  <2>3. b \in LiveRows
    BY <1>9, <2>1 DEF LiveRows
  <2>4. Unmarked(position) = Unmarked(FromTable(b, t))
    BY <1>1, <1>2, <1>9, <2>1, <2>2, <2>3, InvCoherent DEF CacheCoherent
  <2>5. FromTable(b, t) \in Positions \cup {NoEntity}
    BY <1>1, FromTableType DEF TypeInv
  <2>6. position = NoEntity <=> FromTable(b, t) = NoEntity
    <3>1. \A p \in Positions : Unmarked(p) # NoEntity
      BY UnmarkedIsEntity
    <3>2. Unmarked(NoEntity) = NoEntity
      BY DEF Unmarked
    <3>3. QED BY <1>6, <2>4, <2>5, <3>1, <3>2
  <2>7. CASE position = NoEntity
    <3>1. ~Has(t, b)
      BY <1>9, <2>6, <2>7, NoPosition
    <3>2. PoolOf(b, t) = PoolAt[b][t]
      BY <1>1, <2>1, <3>1, PoolOfFirst
    <3>3. ~Has(t, b)'
      BY <1>4, <3>1 DEF Has, Key
    <3>4. handler'.step = "call"
      BY <1>7, <1>8, <2>7
    <3>5. QED BY <3>2, <3>3, <3>4 DEF HandlerAt
  <2>8. CASE position # NoEntity
    <3>1. PICK q : q = FromTable(b, t)
      OBVIOUS
    <3>2. q \in Positions /\ Has(t, b) /\ PoolOf(b, t) # NoPool /\ MadeOfEvents(q, b, t)
      BY <1>9, <2>6, <2>8, <3>1, FoundPosition
    <3>3. MadeOfEvents(position, b, t)
      BY <1>6, <2>4, <2>8, <3>1, <3>2, UnmarkedMade
    <3>4. MadeOfEvents(position, b, t)'
      BY <1>1, <1>4, <3>3, SameMade DEF AppliedTyped
    <3>5. MadeOfEvents(handler.position, b, t)'
      BY <1>8, <3>4 DEF MadeOfEvents
    <3>6. Has(t, b)'
      BY <1>4, <3>2 DEF Has, Key
    <3>7. handler'.step = "got"
      BY <1>7, <1>8, <2>8
    <3>8. QED BY <3>2, <3>5, <3>6, <3>7 DEF HandlerAt
  <2>9. QED BY <2>7, <2>8
<1>10. QED BY <1>1, <1>4, <1>6, <1>8, <1>9, HandlerStays

LEMMA NotCreatedHandler ==
  ASSUME HistoryInv, AppliedInv, HandlerHolds, NotCreated
  PROVE  HandlerHolds'
<1>1. TypeInv
  BY DEF HistoryInv, PositionsInv
<1>2. /\ handler.step = "call" /\ GoOn("update", NoEntity)
      /\ UNCHANGED <<prunedBlocks, latestCanonical>>
  BY DEF NotCreated, storeVars
<1>3. handler'.step = "update" /\ lastProcessed' = lastProcessed
  BY <1>1, <1>2, GoesOn DEF Steps
<1>4. ASSUME NEW b \in Blocks, NEW t \in Tokens, b = Block, t = Event.token, ~Dead(b)
      PROVE  HandlerAt(b, t)'
  <2>1. PoolOf(b, t) = NoPool
    <3>1. PoolOf(b, t) = PoolAt[b][t]
      BY <1>2, <1>4 DEF HandlerHolds, HandlerAt
    <3>2. QED BY <1>4, <3>1 DEF NotCreated
  <2>2. lastProcessed[b] + 1 \notin Due(b)
    BY <1>4, <2>1 DEF Due, Event
  <2>3. QED BY <1>3, <2>1, <2>2 DEF HandlerAt
<1>5. QED BY <1>1, <1>2, <1>4, HandlerStays DEF Steps

LEMMA SkipHandler ==
  ASSUME HistoryInv, AppliedInv, HandlerHolds, SkipEvent
  PROVE  HandlerHolds'
<1>1. TypeInv
  BY DEF HistoryInv, PositionsInv
<1>2. /\ handler.step = "got" /\ GoOn("update", NoEntity)
      /\ UNCHANGED <<prunedBlocks, latestCanonical, table>>
  BY DEF SkipEvent, storeVars
<1>3. handler'.step = "update" /\ lastProcessed' = lastProcessed
  BY <1>1, <1>2, GoesOn DEF Steps
<1>4. ASSUME NEW b \in Blocks, NEW t \in Tokens, b = Block, t = Event.token, ~Dead(b)
      PROVE  HandlerAt(b, t)'
  <2>1. PoolOf(b, t) # NoPool /\ Has(t, b) /\ MadeOfEvents(handler.position, b, t)
    BY <1>2, <1>4 DEF HandlerHolds, HandlerAt
  <2>2. Event.name # "Transfer" /\ PoolOf(b, t) = HotFixPool
    BY <2>1 DEF SkipEvent, Skipped, MadeOfEvents
  <2>3. lastProcessed[b] + 1 \notin Due(b)
    BY <1>4, <2>2 DEF Due, Event
  <2>4. Has(t, b)'
    BY <1>2, <2>1 DEF Has, Key
  <2>5. QED BY <1>3, <2>1, <2>3, <2>4 DEF HandlerAt
<1>5. QED BY <1>1, <1>2, <1>4, HandlerStays DEF Steps

LEMMA CreatedHandler ==
  ASSUME HistoryInv, AppliedInv, BlocksHold, HandlerHolds, Created
  PROVE  HandlerHolds'
<1>1. TypeInv /\ AppliedTyped
  BY DEF HistoryInv, PositionsInv, AppliedInv
<1>2. PICK position : position = NewPosition(PoolAt[Block][Event.token], Block)
  OBVIOUS
<1>3. /\ handler.step = "call" /\ GoOn("created", position)
      /\ UNCHANGED <<prunedBlocks, latestCanonical, table, applied>>
      /\ tx' = [id \in {Event.token} |-> position]
  BY <1>2 DEF Created, Save
<1>4. Block \in Blocks /\ Event.token \in Tokens
  BY <1>1, <1>3, HandlerBusy, InHand
<1>5. position \in Positions
  BY <1>2, <1>4, NewPositionType
<1>6. handler'.step = "created" /\ handler'.position = position /\ lastProcessed' = lastProcessed
  BY <1>1, <1>3, <1>5, GoesOn DEF Steps
<1>7. ASSUME NEW b \in Blocks, NEW t \in Tokens, b = Block, t = Event.token, ~Dead(b)
      PROVE  HandlerAt(b, t)'
  <2>1. PoolOf(b, t) = PoolAt[b][t] /\ ~Has(t, b)
    BY <1>3, <1>7 DEF HandlerHolds, HandlerAt
  <2>2. PoolOf(b, t) # NoPool
    BY <1>7, <2>1 DEF Created
  <2>3. position = NewPosition(PoolOf(b, t), b)
    BY <1>2, <1>7, <2>1
  <2>4. MadeOfEvents(position, b, t)
    BY <1>1, <2>1, <2>3, NotApplied, NothingYet
  <2>5. MadeOfEvents(position, b, t)'
    BY <1>1, <1>3, <2>4, SameMade DEF AppliedTyped
  <2>6. tx'[t] = position /\ DOMAIN tx' = {t}
    BY <1>3, <1>7
  <2>7. MadeOfEvents(tx[t], b, t)' /\ MadeOfEvents(handler.position, b, t)'
    BY <1>6, <2>5, <2>6 DEF MadeOfEvents
  <2>8. ~Has(t, b)'
    BY <1>3, <2>1 DEF Has, Key
  <2>9. QED BY <1>6, <2>2, <2>6, <2>7, <2>8 DEF HandlerAt
<1>8. QED BY <1>1, <1>3, <1>5, <1>7, HandlerStays DEF Steps

LEMMA CreationHandler ==
  ASSUME HistoryInv, AppliedInv, HandlerHolds, CreationCommitted
  PROVE  HandlerHolds'
<1>1. TypeInv /\ AppliedTyped /\ handler.step = "created"
  BY DEF HistoryInv, PositionsInv, AppliedInv, CreationCommitted
<1>2. GoOn("got", handler.position) /\ UNCHANGED <<prunedBlocks, latestCanonical, applied>>
  BY DEF CreationCommitted, Commit
<1>3. handler.position \in Positions
  BY <1>1, HandlerBusy
<1>4. handler'.step = "got" /\ handler'.position = handler.position /\ lastProcessed' = lastProcessed
  BY <1>1, <1>2, <1>3, GoesOn DEF Steps
<1>5. ASSUME NEW b \in Blocks, NEW t \in Tokens, b = Block, t = Event.token, ~Dead(b)
      PROVE  HandlerAt(b, t)'
  <2>1. PICK p : p = handler.position
    OBVIOUS
  <2>2. PoolOf(b, t) # NoPool /\ DOMAIN tx = {t} /\ MadeOfEvents(p, b, t)
    BY <1>1, <1>5, <2>1 DEF HandlerHolds, HandlerAt
  <2>3. MadeOfEvents(p, b, t)'
    BY <1>1, <1>2, <2>2, SameMade DEF AppliedTyped
  <2>4. MadeOfEvents(handler.position, b, t)'
    BY <1>4, <2>1, <2>3 DEF MadeOfEvents
  <2>5. Key(t, b) \in DOMAIN table' /\ b \in Chain[b]
    BY <1>1, <1>5, <2>2, CommitAdds, ChainDef DEF CreationCommitted
  <2>6. Has(t, b)'
    BY <2>5 DEF Has, Key
  <2>7. QED BY <1>4, <2>2, <2>4, <2>6 DEF HandlerAt
<1>6. QED BY <1>1, <1>2, <1>3, <1>5, HandlerStays DEF Steps

\* A snapshot says what its position says.
LEMMA SnapshotOf ==
  ASSUME NEW p \in Positions
  PROVE  Unmarked(NewSnapshot(p)) = Unmarked(p)
<1>1. PICK q : q = [p EXCEPT !.isPruned = FALSE]
  OBVIOUS
<1>2. q \in Positions /\ [q EXCEPT !.isPruned = FALSE] = q
  <2>1. \A x \in BOOLEAN : [p EXCEPT !.isPruned = x] \in Positions
    BY DEF Positions
  <2>2. FALSE \in BOOLEAN
    OBVIOUS
  <2>3. q \in Positions
    BY ONLY <1>1, <2>1, <2>2, Zenon
  <2>4. DOMAIN q = DOMAIN p /\ \A x \in DOMAIN p : x # "isPruned" => q[x] = p[x]
    BY <1>1
  <2>5. [q EXCEPT !.isPruned = FALSE] = [p EXCEPT !.isPruned = FALSE]
    BY <2>4
  <2>6. QED BY <1>1, <2>3, <2>5
<1>3. NewSnapshot(p) = q /\ Unmarked(p) = q
  BY <1>1, NoEntityAssumption DEF NewSnapshot, Unmarked
<1>4. Unmarked(q) = q
  BY <1>2, NoEntityAssumption DEF Unmarked
<1>5. QED BY <1>3, <1>4

\* Refreshing the fees keeps a position what the events make of it.
LEMMA RefreshedMade ==
  ASSUME NEW b \in Blocks, NEW t, NEW p \in Positions, MadeOfEvents(p, b, t)
  PROVE  /\ UpdatedFeeVars(p, b, t) \in Positions
         /\ MadeOfEvents(UpdatedFeeVars(p, b, t), b, t)
<1>1. PICK q : q = UpdatedFeeVars(p, b, t)
  OBVIOUS
<1>2. q \in Positions
  BY <1>1, UpdatedFeeVarsType
<1>3. b \in Chain[b]
  BY ChainDef
<1>4. q = p \/ q = [p EXCEPT !.fees = b]
  BY <1>1 DEF UpdatedFeeVars
<1>5. /\ q.deposited = p.deposited /\ q.withdrawn = p.withdrawn /\ q.liquidity = p.liquidity
      /\ q.collected = p.collected /\ q.owner = p.owner /\ q.pool = p.pool /\ q.fees \in {p.fees, b}
  BY <1>4 DEF Positions
<1>6. MadeOfEvents(q, b, t)
  BY <1>3, <1>5 DEF MadeOfEvents
<1>7. QED BY <1>1, <1>2, <1>6

LEMMA HandledHandler ==
  ASSUME HistoryInv, AppliedInv, HandlerHolds, Handled
  PROVE  HandlerHolds'
<1>1. TypeInv /\ AppliedTyped /\ handler.step = "got"
  BY DEF HistoryInv, PositionsInv, AppliedInv, Handled
<1>2. PICK p : p \in {handler.position, UpdatedFeeVars(handler.position, Block, Event.token)} /\ SavePosition(p)
  BY DEF Handled
<1>3. PICK b, t, e, q, s : b = Block /\ t = Event.token /\ e = Event /\ q = Changed(p, e, b) /\ s = SnapshotId(t, Number[b])
  OBVIOUS
<1>4. Save([id \in {t, s} |-> IF id = s THEN NewSnapshot(q) ELSE q], "saved", handler.position)
  BY <1>2, <1>3 DEF SavePosition
<1>5. /\ tx' = [id \in {t, s} |-> IF id = s THEN NewSnapshot(q) ELSE q]
      /\ GoOn("saved", handler.position)
      /\ UNCHANGED <<prunedBlocks, latestCanonical, applied>>
  BY <1>4 DEF Save
<1>6. handler.position \in Positions /\ lastProcessed[b] < Len(Events[b])
  BY <1>1, <1>3, HandlerBusy
<1>7. handler'.step = "saved" /\ Event' = Event /\ lastProcessed' = lastProcessed
  BY <1>1, <1>5, <1>6, GoesOn DEF Steps
<1>8. /\ b \in Blocks /\ lastProcessed[b] + 1 \in DOMAIN Events[b] /\ e = Events[b][lastProcessed[b] + 1]
      /\ e.name \in Names /\ e.amount \in Nat /\ e.to \in Addresses /\ t \in Tokens /\ e.token = t
  BY <1>1, <1>3, <1>6, InHand
<1>9. s # t
  BY <1>3, <1>8, EventsAssumption
<1>10. ASSUME ~Dead(b) PROVE HandlerAt(b, t)'
  <2>1. PoolOf(b, t) # NoPool /\ MadeOfEvents(handler.position, b, t)
    BY <1>1, <1>3, <1>8, <1>10 DEF HandlerHolds, HandlerAt
  <2>2. p \in Positions /\ MadeOfEvents(p, b, t)
    BY <1>2, <1>3, <1>6, <1>8, <2>1, RefreshedMade
  <2>3. q \in Positions
    BY <1>3, <1>8, <2>2, ChangedType DEF Names
  <2>4. lastProcessed[b] + 1 \in Due(b)
    <3>1. handler.position.pool = PoolOf(b, t)
      BY <2>1 DEF MadeOfEvents
    <3>2. e.name = "Transfer" \/ PoolOf(b, t) # HotFixPool
      BY <1>3, <3>1 DEF Handled, Skipped
    <3>3. QED BY <1>8, <2>1, <3>2 DEF Due
  <2>5. DOMAIN tx' = {t, s} /\ tx'[t] = q /\ tx'[s] = NewSnapshot(q)
    BY <1>5, <1>9
  <2>6. Unmarked(tx'[s]) = Unmarked(tx'[t])
    BY <2>3, <2>5, SnapshotOf
  <2>7. MadeOfEvents(p, b, t)'
    BY <1>1, <1>5, <1>8, <2>2, SameMade DEF AppliedTyped
  <2>8. tx'[t] = Changed(p, Event', b)
    BY <1>3, <1>7, <2>5
  <2>9. Due(b)' = Due(b)
    BY DEF Due
  <2>10. QED BY <1>3, <1>7, <2>1, <2>2, <2>4, <2>5, <2>6, <2>7, <2>8, <2>9 DEF HandlerAt, Unmarked
<1>11. QED BY <1>1, <1>3, <1>5, <1>6, <1>10, HandlerStays DEF Steps

LEMMA AppliedHandler ==
  ASSUME HistoryInv, HistoryInv', AppliedInv, BlocksHold, HandlerHolds, Applied, ~late'
  PROVE  HandlerHolds'
<1>1. TypeInv /\ handler.step = "saved"
  BY DEF HistoryInv, PositionsInv, Applied
<1>2. GoOn("update", handler.position) /\ UNCHANGED <<prunedBlocks, latestCanonical>>
  BY DEF Applied, Commit
<1>3. handler.position \in Positions
  BY <1>1, HandlerBusy
<1>4. handler'.step = "update" /\ lastProcessed' = lastProcessed
  BY <1>1, <1>2, <1>3, GoesOn DEF Steps
<1>5. ASSUME NEW b \in Blocks, NEW t \in Tokens, b = Block, t = Event.token, ~Dead(b)
      PROVE  HandlerAt(b, t)'
  <2>1. Has(t, b)' /\ lastProcessed[b] + 1 \in Range(applied'[b])
    BY <1>5, ApplyBlocks
  <2>2. QED BY <1>4, <2>1 DEF HandlerAt
<1>6. QED BY <1>1, <1>2, <1>3, <1>5, HandlerStays DEF Steps

\* What the events job has in hand stays what the events applied so far make of it.
LEMMA StepKeepsHandler ==
  ASSUME HistoryInv, HistoryInv', AppliedInv, AppliedInv', BlocksHold, HandlerHolds, [Next]_vars,
         ~late, ~late'
  PROVE  HandlerHolds'
<1>1. ASSUME handler'.step \in {"idle", "next"} PROVE HandlerHolds'
  BY <1>1 DEF HandlerHolds
<1>2. Aside => HandlerHolds'
  BY AsideHandler
<1>3. Turns => HandlerHolds'
  BY <1>1 DEF Turns
<1>4. GetPosition => HandlerHolds'
  BY GetHandler
<1>5. NotCreated => HandlerHolds'
  BY NotCreatedHandler
<1>6. Created => HandlerHolds'
  BY CreatedHandler
<1>7. CreationCommitted => HandlerHolds'
  BY CreationHandler
<1>8. SkipEvent => HandlerHolds'
  BY SkipHandler
<1>9. Handled => HandlerHolds'
  BY HandledHandler
<1>10. Applied => HandlerHolds'
  BY AppliedHandler
<1>11. Advances => HandlerHolds'
  BY <1>1 DEF Advances
<1>12. Restart => HandlerHolds'
  <2>1. ASSUME Restart PROVE handler'.step = "idle"
    BY <2>1 DEF Restart, IdleHandler
  <2>2. QED BY <1>1, <2>1
<1>13. QED BY <1>2, <1>3, <1>4, <1>5, <1>6, <1>7, <1>8, <1>9, <1>10, <1>11, <1>12, StepKinds

LEMMA StepKeepsApplyInv ==
  ASSUME ApplyInv, [Next]_vars
  PROVE  ApplyInv'
<1>1. HistoryInv /\ AppliedInv
  BY DEF ApplyInv
<1>2. HistoryInv'
  BY <1>1, StepKeepsHistoryInv
<1>3. AppliedInv'
  BY <1>1, StepKeepsApplied
<1>4. ASSUME ~late' PROVE BlocksHold' /\ HandlerHolds'
  <2>1. ~late
    BY <1>1, <1>4, StaysLate DEF HistoryInv, PositionsInv
  <2>2. BlocksHold /\ HandlerHolds
    BY <2>1 DEF ApplyInv
  <2>3. QED BY <1>1, <1>2, <1>3, <1>4, <2>1, <2>2, StepKeepsBlocks, StepKeepsHandler
<1>5. QED BY <1>2, <1>3, <1>4 DEF ApplyInv

LEMMA InitApply == Init => ApplyInv
<1> SUFFICES ASSUME Init PROVE ApplyInv
  OBVIOUS
<1>1. HistoryInv
  BY InitHistory
<1>2. /\ table = <<>> /\ lastProcessed = [b \in Blocks |-> 0] /\ handler.step = "idle"
      /\ applied = [b \in Blocks |-> <<>>] /\ spent = 0
  BY DEF Init, InitStore, IdleHandler
<1>3. ASSUME NEW b \in Blocks
      PROVE  /\ applied[b] = <<>> /\ Len(applied[b]) = 0 /\ DOMAIN applied[b] = {} /\ Range(applied[b]) = {}
             /\ lastProcessed[b] = 0 /\ \A i \in DOMAIN Events[b] : i \in Nat /\ ~(i <= 0)
  <2>1. applied[b] = <<>> /\ lastProcessed[b] = 0
    BY <1>2
  <2>2. Len(applied[b]) = 0 /\ DOMAIN applied[b] = {}
    BY <2>1
  <2>3. QED BY <2>1, <2>2, LogLength DEF Range
<1>4. AppliedTyped
  BY <1>2, <1>3 DEF AppliedTyped
<1>5. AppliedInv
  <2>1. ASSUME NEW b \in Blocks
        PROVE  /\ \A k \in DOMAIN applied[b] : applied[b][k] <= lastProcessed[b] + 1
               /\ \A k \in 1 .. Len(applied[b]) - 1 : applied[b][k] <= applied[b][k + 1]
               /\ Len(applied[b]) <= Cardinality(Range(applied[b])) + spent - (IF AppliedAhead(b) THEN 1 ELSE 0)
    <3>1. 1 .. Len(applied[b]) - 1 = {}
      BY <1>3
    <3>2. ~AppliedAhead(b)
      BY <1>3 DEF AppliedAhead
    <3>3. Cardinality(Range(applied[b])) = 0
      BY <1>3, FS_EmptySet
    <3>4. QED BY <1>2, <1>3, <3>1, <3>2, <3>3
  <2>2. QED BY <1>4, <2>1 DEF AppliedInv
<1>6. ASSUME NEW b \in Blocks PROVE DueAt(b)
  BY <1>3 DEF DueAt, Due
<1>7. ASSUME NEW b \in Blocks, NEW t \in Tokens
      PROVE  MadeAt(b, t) /\ FoundAt(b, t) /\ SnapshotAt(b, t)
  <2>1. DOMAIN table = {}
    BY <1>2
  <2>2. ~AppliedTo(b, t)
    BY <1>3 DEF AppliedTo
  <2>3. QED BY <1>3, <2>1, <2>2 DEF MadeAt, FoundAt, SnapshotAt
<1>8. BlocksHold /\ HandlerHolds
  BY <1>2, <1>6, <1>7 DEF BlocksHold, HandlerHolds
<1>9. QED BY <1>1, <1>5, <1>8 DEF ApplyInv

LEMMA ApplyInvPositions == ApplyInv => PositionsAgree
<1> SUFFICES ASSUME ApplyInv, NEW b \in LiveRows, NEW t \in Tokens
             PROVE  IF FromTable(b, t) = NoEntity THEN \A c \in Chain[b] : ~AppliedTo(c, t)
                    ELSE MadeOfEvents(FromTable(b, t), b, t)
  BY DEF PositionsAgree
<1>1. ~late /\ b \in Blocks /\ ~Dead(b)
  BY LiveFacts
<1>2. HistoryInv /\ AppliedInv /\ BlocksHold
  BY <1>1 DEF ApplyInv
<1>3. FromTable(b, t) = NoEntity => \A c \in Chain[b] : ~AppliedTo(c, t)
  BY <1>1, <1>2, NoPosition, NotApplied
<1>4. FromTable(b, t) # NoEntity => MadeOfEvents(FromTable(b, t), b, t)
  BY <1>1, <1>2, FoundPosition
<1>5. QED BY <1>3, <1>4

LEMMA ApplyInvEvents == ApplyInv => EveryEventApplied
<1> SUFFICES ASSUME ApplyInv, NEW b \in LiveRows, progress[b] = "complete"
             PROVE  /\ Range(applied[b]) = Due(b)
                    /\ \A k \in 1 .. Len(applied[b]) - 1 : applied[b][k] <= applied[b][k + 1]
                    /\ Len(applied[b]) - Cardinality(Due(b)) <= spent
  BY DEF EveryEventApplied
<1>1. ~late /\ b \in Blocks
  BY LiveFacts
<1>2. TypeInv /\ AppliedInv /\ AppliedTyped /\ BlocksHold
  BY <1>1 DEF ApplyInv, HistoryInv, PositionsInv, AppliedInv
<1>3. lastProcessed[b] = Len(Events[b]) /\ spent \in Nat
  BY <1>1, <1>2 DEF TypeInv, ParentsReady, StoreTyped
<1>4. \A i \in Due(b) : i <= lastProcessed[b]
  BY <1>1, <1>3, LogLength DEF Due
<1>5. Range(applied[b]) = Due(b)
  BY <1>1, <1>2, <1>4 DEF BlocksHold, DueAt
<1>6. Len(applied[b]) \in Nat /\ Cardinality(Range(applied[b])) \in Nat
  BY <1>1, <1>2, RangeFinite
<1>7. Len(applied[b]) <= Cardinality(Range(applied[b])) + spent
  <2>1. Len(applied[b]) <= Cardinality(Range(applied[b])) + spent - (IF AppliedAhead(b) THEN 1 ELSE 0)
    BY <1>1, <1>2 DEF AppliedInv
  <2>2. QED BY <1>3, <1>6, <2>1
<1>8. Len(applied[b]) - Cardinality(Due(b)) <= spent
  BY <1>3, <1>5, <1>6, <1>7
<1>9. QED BY <1>1, <1>2, <1>5, <1>8 DEF AppliedInv

LEMMA ApplyInvSnapshots == ApplyInv => SnapshotsAgree
<1> SUFFICES ASSUME ApplyInv, NEW b \in LiveRows, NEW t \in Tokens, NEW c \in Chain[b],
                    SnapshotId(t, Number[c]) \in Ids
             PROVE  IF AppliedTo(c, t)
                    THEN /\ FromTable(b, SnapshotId(t, Number[c])) # NoEntity
                         /\ Unmarked(FromTable(b, SnapshotId(t, Number[c]))) = Unmarked(FromTable(c, t))
                    ELSE FromTable(b, SnapshotId(t, Number[c])) = NoEntity
  BY DEF SnapshotsAgree
<1>1. ~late /\ b \in Blocks /\ ~Dead(b) /\ c \in Blocks /\ Number[c] \in Nat
  BY LiveFacts, ChainBelow
<1>2. TypeInv /\ StoreTyped /\ ReadsAlongChain /\ BlocksHold
  BY <1>1, InvReads DEF ApplyInv, HistoryInv, PositionsInv, TypeInv
<1>3. PICK s : s = SnapshotId(t, Number[c])
  OBVIOUS
<1>4. ASSUME NEW d \in Blocks, Nearest(s, b, d), FromTable(b, s) = table[Key(s, d)]
      PROVE  /\ AppliedTo(c, t) /\ FromTable(b, s) # NoEntity
             /\ Unmarked(FromTable(b, s)) = Unmarked(FromTable(c, t))
  <2>1. d \in Chain[b] /\ Key(s, d) \in DOMAIN table
    BY <1>4 DEF Nearest
  <2>2. Number[c] = Number[d]
    BY <1>1, <1>2, <1>3, <2>1 DEF BlocksHold, SnapshotAt
  <2>3. c = d
    BY <1>1, <2>1, <2>2, ChainOrder, ChainBelow
  <2>4. AppliedTo(c, t)
    BY <1>1, <1>2, <1>3, <2>1, <2>3 DEF BlocksHold, SnapshotAt
  <2>5. /\ Key(t, c) \in DOMAIN table
        /\ Unmarked(table[Key(s, c)]) = Unmarked(table[Key(t, c)])
    BY <1>1, <1>2, <1>3, <2>4 DEF BlocksHold, SnapshotAt
  <2>6. FromTable(c, t) = table[Key(t, c)]
    BY <1>1, <1>2, <2>5, FromTableDef
  <2>7. FromTable(b, s) # NoEntity
    BY <1>2, <1>4, <2>1, TablePositions, NoEntityAssumption
  <2>8. QED BY <1>4, <2>3, <2>4, <2>5, <2>6, <2>7
<1>5. ASSUME FromTable(b, s) = NoEntity, ~Has(s, b)
      PROVE  ~AppliedTo(c, t)
  BY <1>1, <1>2, <1>3, <1>5 DEF BlocksHold, SnapshotAt, Has
<1>6. \/ \E d \in Blocks : Nearest(s, b, d) /\ FromTable(b, s) = table[Key(s, d)]
      \/ FromTable(b, s) = NoEntity /\ ~Has(s, b)
  BY <1>1, <1>2, <1>3, ReadsNearest
<1>7. QED BY <1>3, <1>4, <1>5, <1>6

LEMMA ApplyInvHolds == Spec => []ApplyInv
<1>1. ApplyInv /\ UNCHANGED vars => ApplyInv'
  BY StepKeepsApplyInv
<1>2. ApplyInv /\ Next => ApplyInv'
  BY StepKeepsApplyInv
<1>3. QED BY InitApply, <1>1, <1>2, PTL DEF Spec

\* For every tree of blocks, log, reorg depth and interval: the position read at a live block is
\* made of the events applied on the chain to that block and of no others, whatever siblings,
\* the cache, failed handlers, pruning and restarts did meanwhile (_handleIncreaseLiquidity to
\* _handleTransfer, getPosition).
THEOREM PositionsAlwaysAgree == Spec => []PositionsAgree
  BY ApplyInvHolds, ApplyInvPositions, PTL

\* At a complete block every event that is due is applied, in log order, and an event is applied
\* again no more often than a commit was lost, a job failed or a process stopped, as happens
\* between the commit of an event and that of its count (processEvent, updateBlockProgress).
THEOREM EventsAlwaysApplied == Spec => []EveryEventApplied
  BY ApplyInvHolds, ApplyInvEvents, PTL

\* The snapshot of a height that is read at a live block is that of its own chain and says what
\* the position at the block of that height says, and there is none where no event changed the
\* position (_savePositionSnapshot).
THEOREM SnapshotsAlwaysAgree == Spec => []SnapshotsAgree
  BY ApplyInvHolds, ApplyInvSnapshots, PTL

=============================================================================
