---------------------------- MODULE InductionLemmas ----------------------------
(***************************************************************************)
(* What the proofs need of induction, stated without operator parameters:  *)
(* a set of natural numbers has a least element, and what follows from it  *)
(* about sums over finite sets.                                            *)
(***************************************************************************)
EXTENDS Integers, FiniteSetTheorems, WellFoundedInduction, Functions, TLAPS

\* A nonempty set of naturals has a least element: of its initial segments, which are
\* finite, take one with no other below it.
LEMMA LeastNumber ==
  ASSUME NEW S, S \subseteq Nat, S # {}
  PROVE  \E m \in S : \A n \in S : m <= n
<1> DEFINE Below(n) == {k \in S : k <= n}
           B == {Below(n) : n \in S}
<1>1. B \subseteq FiniteSubsetsOf(S) /\ B # {}
  <2>1. ASSUME NEW n \in S PROVE Below(n) \subseteq S /\ IsFiniteSet(Below(n))
    BY FS_BoundedSetOfNaturals
  <2>2. QED BY <2>1 DEF FiniteSubsetsOf
<1>2. PICK T \in B : \A U \in B : ~(<<U, T>> \in StrictSubsetOrdering(S))
  BY <1>1, FS_StrictSubsetOrderingWellFounded, WFMin, Zenon
<1>3. PICK m \in S : T = Below(m)
  OBVIOUS
<1>4. ASSUME NEW n \in S, n < m PROVE FALSE
  <2>1. n \in Nat /\ m \in Nat /\ \A k \in S : k \in Nat
    OBVIOUS
  <2>2. Below(n) \in B
    OBVIOUS
  <2>3. ~(m <= n) /\ m <= m
    BY <2>1, <1>4
  <2>4. ASSUME NEW k \in S, k <= n PROVE k <= m
    BY <2>1, <1>4, <2>4
  <2>5. <<Below(n), Below(m)>> \in StrictSubsetOrdering(S)
    BY <2>3, <2>4 DEF StrictSubsetOrdering
  <2>6. QED BY <2>2, <2>5, <1>2, <1>3
<1>5. \A n \in S : n \in Nat /\ m \in Nat
  OBVIOUS
<1>6. QED BY <1>4, <1>5

-----------------------------------------------------------------------------
(* Sums. *)

\* The element a sum takes first.
Some(s) == CHOOSE x \in s : TRUE

IsSum(g, f, D) ==
  g = [s \in D |-> IF s = {} THEN 0 ELSE f[Some(s)] + g[s \ {Some(s)}]]

\* The subsets of at most n elements.
UpTo(S, n) == {s \in SUBSET S : Cardinality(s) <= n}

LEMMA SomeIn ==
  ASSUME NEW s, s # {}
  PROVE  Some(s) \in s
  BY DEF Some

\* A smaller subset.
LEMMA Smaller ==
  ASSUME NEW S, IsFiniteSet(S), NEW s \in SUBSET S, NEW x \in s
  PROVE  /\ s \ {x} \in SUBSET S
         /\ Cardinality(s) \in Nat /\ Cardinality(s) > 0
         /\ Cardinality(s \ {x}) = Cardinality(s) - 1
<1>1. IsFiniteSet(s)
  BY FS_Subset
<1>2. QED BY <1>1, FS_RemoveElement, FS_CardinalityType, FS_EmptySet

LEMMA PartialSums ==
  ASSUME NEW S, IsFiniteSet(S), NEW f, \A x \in S : f[x] \in Int, NEW n \in Nat
  PROVE  \E g \in [UpTo(S, n) -> Int] : IsSum(g, f, UpTo(S, n))
<1> DEFINE Good(m) == \E g \in [UpTo(S, m) -> Int] : IsSum(g, f, UpTo(S, m))
           Bad == {m \in Nat : ~Good(m)}
<1>1. SUFFICES ASSUME Bad # {} PROVE FALSE
  OBVIOUS
<1>2. PICK m \in Bad : \A k \in Bad : m <= k
  <2>1. Bad \subseteq Nat
    OBVIOUS
  <2> HIDE DEF Bad
  <2>2. QED BY <1>1, <2>1, LeastNumber
<1>3. \A s \in SUBSET S : IsFiniteSet(s) /\ Cardinality(s) \in Nat /\ (Cardinality(s) = 0 <=> s = {})
  BY FS_Subset, FS_CardinalityType, FS_EmptySet
<1>4. CASE m = 0
  <2> DEFINE g == [s \in UpTo(S, 0) |-> 0]
  <2>1. \A s \in UpTo(S, 0) : s = {}
    BY <1>3 DEF UpTo
  <2>2. g \in [UpTo(S, 0) -> Int] /\ IsSum(g, f, UpTo(S, 0))
    BY <2>1 DEF IsSum
  <2>3. QED BY <1>4, <2>2
<1>5. CASE m > 0
  <2>1. m - 1 \in Nat /\ Good(m - 1)
    BY <1>2, <1>5
  <2>2. PICK g \in [UpTo(S, m - 1) -> Int] : IsSum(g, f, UpTo(S, m - 1))
    BY <2>1
  <2> DEFINE h == [s \in UpTo(S, m) |->
                     IF s = {} THEN 0 ELSE f[Some(s)] + g[s \ {Some(s)}]]
  <2>3. \A s \in UpTo(S, m) : s # {} => /\ s \ {Some(s)} \in UpTo(S, m - 1)
                                        /\ Some(s) \in S
    BY <1>3, Smaller, SomeIn DEF UpTo
  <2>4. h \in [UpTo(S, m) -> Int]
    BY <2>3
  <2>5. \A s \in UpTo(S, m - 1) : s \in UpTo(S, m) /\ h[s] = g[s]
    <3>1. \A s \in UpTo(S, m - 1) : s \in UpTo(S, m)
      BY <1>3, <2>1 DEF UpTo
    <3>2. \A s \in UpTo(S, m - 1) : g[s] = IF s = {} THEN 0 ELSE f[Some(s)] + g[s \ {Some(s)}]
      BY <2>2 DEF IsSum
    <3>3. QED BY <3>1, <3>2
  <2>6. \A s \in UpTo(S, m) : h[s] = IF s = {} THEN 0 ELSE f[Some(s)] + h[s \ {Some(s)}]
    BY <2>3, <2>5
  <2> HIDE DEF h
  <2>7. IsSum(h, f, UpTo(S, m))
    BY <2>4, <2>6 DEF IsSum
  <2>8. QED BY <1>2, <2>4, <2>7
<1>6. QED BY <1>2, <1>4, <1>5

\* The equation determines the sums.
LEMMA OneSum ==
  ASSUME NEW S, IsFiniteSet(S), NEW f, NEW g, NEW h, IsSum(g, f, SUBSET S),
         IsSum(h, f, SUBSET S), NEW s \in SUBSET S
  PROVE  g[s] = h[s]
<1> DEFINE Bad == {t \in SUBSET S : g[t] # h[t]}
           Sizes == {Cardinality(t) : t \in Bad}
<1>1. SUFFICES ASSUME Bad # {} PROVE FALSE
  OBVIOUS
<1>2. \A t \in SUBSET S : Cardinality(t) \in Nat
  BY FS_Subset, FS_CardinalityType
<1>3. PICK n \in Sizes : \A k \in Sizes : n <= k
  <2>1. Sizes \subseteq Nat /\ Sizes # {}
    BY <1>1, <1>2
  <2> HIDE DEF Sizes
  <2>2. QED BY <2>1, LeastNumber
<1>4. PICK t \in Bad : n = Cardinality(t)
  OBVIOUS
<1>5. CASE t = {}
  BY <1>5 DEF IsSum
<1>6. CASE t # {}
  <2> DEFINE u == t \ {Some(t)}
  <2>1. u \in SUBSET S /\ Cardinality(u) < n
    BY <1>2, <1>4, <1>6, Smaller, SomeIn
  <2>2. u \notin Bad
    BY <1>2, <1>3, <2>1
  <2>3. g[t] = f[Some(t)] + g[u] /\ h[t] = f[Some(t)] + h[u]
    BY <1>6 DEF IsSum
  <2>4. QED BY <2>1, <2>2, <2>3
<1>7. QED BY <1>5, <1>6

\* The sum of the community modules, unfolded.
LEMMA SumUnfolds ==
  ASSUME NEW S, IsFiniteSet(S), NEW f, \A x \in S : f[x] \in Int
  PROVE  \E g \in [SUBSET S -> Int] :
           /\ IsSum(g, f, SUBSET S)
           /\ SumFunctionOnSet(f, S) = g[S]
<1> DEFINE iter == CHOOSE g : IsSum(g, f, SUBSET S)
<1>1. Cardinality(S) \in Nat /\ UpTo(S, Cardinality(S)) = SUBSET S
  BY FS_Subset, FS_CardinalityType DEF UpTo
<1>a. \E g \in [UpTo(S, Cardinality(S)) -> Int] : IsSum(g, f, UpTo(S, Cardinality(S)))
  BY <1>1, PartialSums
<1>2. PICK g \in [SUBSET S -> Int] : IsSum(g, f, SUBSET S)
  BY <1>1, <1>a
<1>3. SumFunctionOnSet(f, S) = iter[S]
  BY DEF SumFunctionOnSet, FoldFunctionOnSet, MapThenFoldSet, IsSum, Some
<1>4. IsSum(iter, f, SUBSET S)
  BY <1>2
<1>5. iter[S] = g[S]
  BY <1>2, <1>4, OneSum
<1>6. QED BY <1>2, <1>3, <1>5

\* A sum can begin with any of its elements.
AnyTaken(g, f, S) == \A s \in SUBSET S : \A x \in s : g[s] = f[x] + g[s \ {x}]

LEMMA TakesAny ==
  ASSUME NEW S, IsFiniteSet(S), NEW f, \A x \in S : f[x] \in Int,
         NEW g \in [SUBSET S -> Int], IsSum(g, f, SUBSET S)
  PROVE  AnyTaken(g, f, S)
<1> DEFINE Right(t, y) == g[t] = f[y] + g[t \ {y}]
           Bad == {t \in SUBSET S : \E y \in t : ~Right(t, y)}
           Sizes == {Cardinality(t) : t \in Bad}
<1>1. SUFFICES ASSUME Bad # {} PROVE FALSE
  BY DEF AnyTaken
<1>2. \A t \in SUBSET S : Cardinality(t) \in Nat
  BY FS_Subset, FS_CardinalityType
<1>3. PICK n \in Sizes : \A k \in Sizes : n <= k
  <2>1. Sizes \subseteq Nat /\ Sizes # {}
    BY <1>1, <1>2
  <2> HIDE DEF Sizes
  <2>2. QED BY <2>1, LeastNumber
<1>4. PICK t \in Bad : n = Cardinality(t)
  OBVIOUS
<1>5. PICK y \in t : ~Right(t, y)
  OBVIOUS
<1> DEFINE z == Some(t)
<1>6. z \in t /\ Right(t, z)
  BY <1>5, SomeIn DEF IsSum
<1>7. y # z /\ y \in t \ {z} /\ z \in t \ {y}
  BY <1>5, <1>6
<1>8. ASSUME NEW u \in t PROVE /\ t \ {u} \in SUBSET S
                                /\ \A v \in t \ {u} : Right(t \ {u}, v)
  <2>1. t \ {u} \in SUBSET S /\ Cardinality(t \ {u}) < n
    BY <1>2, <1>4, Smaller
  <2>2. t \ {u} \notin Bad
    <3>1. ASSUME t \ {u} \in Bad PROVE FALSE
      <4>1. Cardinality(t \ {u}) \in Sizes
        BY <3>1
      <4>2. n <= Cardinality(t \ {u})
        BY <1>3, <4>1
      <4>3. QED BY <1>2, <1>4, <2>1, <4>2
    <3>2. QED BY <3>1
  <2>3. QED BY <2>1, <2>2
<1>9. g[t \ {z}] = f[y] + g[(t \ {z}) \ {y}] /\ g[t \ {y}] = f[z] + g[(t \ {y}) \ {z}]
  BY <1>5, <1>6, <1>7, <1>8
<1>10. (t \ {z}) \ {y} = (t \ {y}) \ {z} /\ (t \ {z}) \ {y} \in SUBSET S
  OBVIOUS
<1>11. g[(t \ {z}) \ {y}] \in Int /\ f[y] \in Int /\ f[z] \in Int
  BY <1>5, <1>6, <1>10
<1>12. g[t] = f[z] + g[t \ {z}] /\ ~(g[t] = f[y] + g[t \ {y}])
  BY <1>5, <1>6
<1> HIDE DEF z, Bad, Sizes
<1>13. ASSUME NEW a \in Int, NEW b \in Int, NEW c \in Int
       PROVE  a + (b + c) = b + (a + c)
  OBVIOUS
<1>14. f[z] + (f[y] + g[(t \ {z}) \ {y}]) = f[y] + (f[z] + g[(t \ {z}) \ {y}])
  BY <1>11, <1>13
<1>15. g[t] = f[y] + g[t \ {y}]
  BY <1>9, <1>10, <1>12, <1>14, Zenon
<1>16. QED BY <1>12, <1>15

\* Two functions that agree on the elements have the same sum.
LEMMA SameSum ==
  ASSUME NEW S, IsFiniteSet(S), NEW f, NEW h, \A x \in S : f[x] \in Int /\ h[x] = f[x]
  PROVE  SumFunctionOnSet(h, S) = SumFunctionOnSet(f, S)
<1>1. PICK g \in [SUBSET S -> Int] : IsSum(g, f, SUBSET S) /\ SumFunctionOnSet(f, S) = g[S]
  BY SumUnfolds
<1>2. PICK k \in [SUBSET S -> Int] : IsSum(k, h, SUBSET S) /\ SumFunctionOnSet(h, S) = k[S]
  BY SumUnfolds
<1>3. \A s \in SUBSET S : s # {} => h[Some(s)] = f[Some(s)]
  BY SomeIn
<1>4. IsSum(k, f, SUBSET S)
  <2>1. \A s \in SUBSET S : k[s] = IF s = {} THEN 0 ELSE f[Some(s)] + k[s \ {Some(s)}]
    BY <1>2, <1>3 DEF IsSum
  <2>2. QED BY <2>1 DEF IsSum
<1>5. QED BY <1>1, <1>2, <1>4, OneSum

\* The sum over one more element.
LEMMA SumOnMore ==
  ASSUME NEW S, IsFiniteSet(S), NEW x, x \notin S, NEW f, \A y \in S \cup {x} : f[y] \in Int
  PROVE  SumFunctionOnSet(f, S \cup {x}) = SumFunctionOnSet(f, S) + f[x]
<1> DEFINE T == S \cup {x}
<1>1. IsFiniteSet(T) /\ S \in SUBSET T /\ T \ {x} = S /\ T \in SUBSET T
  BY FS_AddElement
<1>2. PICK g \in [SUBSET T -> Int] : IsSum(g, f, SUBSET T) /\ SumFunctionOnSet(f, T) = g[T]
  BY <1>1, SumUnfolds
<1>3. PICK k \in [SUBSET S -> Int] : IsSum(k, f, SUBSET S) /\ SumFunctionOnSet(f, S) = k[S]
  BY SumUnfolds
<1> DEFINE h == [s \in SUBSET S |-> g[s]]
<1>4. \A s \in SUBSET S : s \in SUBSET T /\ s \ {Some(s)} \in SUBSET S
  OBVIOUS
<1>5. \A s \in SUBSET S : h[s] = IF s = {} THEN 0 ELSE f[Some(s)] + h[s \ {Some(s)}]
  <2>1. \A s \in SUBSET T : g[s] = IF s = {} THEN 0 ELSE f[Some(s)] + g[s \ {Some(s)}]
    BY <1>2 DEF IsSum
  <2>2. QED BY <1>4, <2>1
<1>6. IsSum(h, f, SUBSET S)
  BY <1>5 DEF IsSum
<1>7. g[S] = k[S]
  <2>1. h[S] = k[S]
    <3> HIDE DEF h
    <3>1. QED BY <1>3, <1>6, OneSum
  <2>2. QED BY <2>1
<1>8. g[T] = f[x] + g[T \ {x}]
  <2>1. PICK U : U = T
    OBVIOUS
  <2>2. /\ IsFiniteSet(U) /\ (\A y \in U : f[y] \in Int) /\ g \in [SUBSET U -> Int]
        /\ IsSum(g, f, SUBSET U) /\ x \in U
    BY <1>1, <1>2, <2>1
  <2>3. AnyTaken(g, f, U)
    BY ONLY <2>2, TakesAny
  <2>4. g[U] = f[x] + g[U \ {x}]
    BY <2>2, <2>3 DEF AnyTaken
  <2>5. QED BY <2>1, <2>4
<1>9. f[x] \in Int /\ g[S] \in Int
  BY <1>1
<1>10. SumFunctionOnSet(f, T) = f[x] + SumFunctionOnSet(f, S)
  BY <1>1, <1>2, <1>3, <1>7, <1>8
<1>11. SumFunctionOnSet(f, S) \in Int
  BY <1>3, <1>7, <1>9
<1>12. QED BY <1>9, <1>10, <1>11

-----------------------------------------------------------------------------
(* Sums of functions over their domain. *)

LEMMA SumInt ==
  ASSUME NEW S, IsFiniteSet(S), NEW f \in [S -> Int]
  PROVE  SumFunction(f) \in Int
<1>1. PICK g \in [SUBSET S -> Int] : IsSum(g, f, SUBSET S) /\ SumFunctionOnSet(f, S) = g[S]
  BY SumUnfolds
<1>2. QED BY <1>1 DEF SumFunction

LEMMA SumEmpty ==
  ASSUME NEW f \in [{} -> Int]
  PROVE  SumFunction(f) = 0
<1>1. PICK g \in [SUBSET {} -> Int] : IsSum(g, f, SUBSET {}) /\ SumFunctionOnSet(f, {}) = g[{}]
  BY SumUnfolds, FS_EmptySet
<1>2. g[{}] = 0
  BY <1>1 DEF IsSum
<1>3. QED BY <1>1, <1>2 DEF SumFunction

LEMMA SumWithOneMore ==
  ASSUME NEW S, IsFiniteSet(S), NEW x, x \notin S,
         NEW f \in [S -> Int], NEW h \in [S \cup {x} -> Int], \A y \in S : h[y] = f[y]
  PROVE  SumFunction(h) = SumFunction(f) + h[x]
<1>1. SumFunctionOnSet(h, S \cup {x}) = SumFunctionOnSet(h, S) + h[x]
  BY SumOnMore
<1>2. SumFunctionOnSet(h, S) = SumFunctionOnSet(f, S)
  BY SameSum
<1>3. QED BY <1>1, <1>2 DEF SumFunction

LEMMA SumWithOneChanged ==
  ASSUME NEW S, IsFiniteSet(S), NEW x \in S,
         NEW f \in [S -> Int], NEW h \in [S -> Int], \A y \in S \ {x} : h[y] = f[y]
  PROVE  SumFunction(h) = SumFunction(f) - f[x] + h[x]
<1> DEFINE T == S \ {x}
<1>1. IsFiniteSet(T) /\ T \cup {x} = S /\ x \notin T /\ T \subseteq S
  BY FS_RemoveElement
<1>2. SumFunctionOnSet(f, T) \in Int
  <2>1. \A y \in T : f[y] \in Int
    OBVIOUS
  <2>2. PICK g \in [SUBSET T -> Int] : IsSum(g, f, SUBSET T) /\ SumFunctionOnSet(f, T) = g[T]
    <3> HIDE DEF T
    <3>1. QED BY <1>1, <2>1, SumUnfolds
  <2>3. T \in SUBSET T
    OBVIOUS
  <2>4. QED BY <2>2, <2>3
<1>3. \A y \in T : f[y] \in Int /\ h[y] = f[y]
  OBVIOUS
<1>4. \A y \in T \cup {x} : f[y] \in Int /\ h[y] \in Int
  OBVIOUS
<1> HIDE DEF T
<1>5. /\ SumFunctionOnSet(f, S) = SumFunctionOnSet(f, T) + f[x]
      /\ SumFunctionOnSet(h, S) = SumFunctionOnSet(h, T) + h[x]
  <2>1. /\ SumFunctionOnSet(f, T \cup {x}) = SumFunctionOnSet(f, T) + f[x]
        /\ SumFunctionOnSet(h, T \cup {x}) = SumFunctionOnSet(h, T) + h[x]
    BY <1>1, <1>4, SumOnMore
  <2>2. QED BY <1>1, <2>1
<1>6. SumFunctionOnSet(h, T) = SumFunctionOnSet(f, T)
  BY <1>1, <1>3, SameSum
<1>7. f[x] \in Int /\ h[x] \in Int
  OBVIOUS
<1>8. QED BY <1>2, <1>5, <1>6, <1>7 DEF SumFunction

LEMMA SumNat ==
  ASSUME NEW S, IsFiniteSet(S), NEW f \in [S -> Nat]
  PROVE  /\ SumFunction(f) \in Nat
         /\ \A x \in S : f[x] <= SumFunction(f)
<1>0. \A x \in S : f[x] \in Int
  OBVIOUS
<1>1. PICK g \in [SUBSET S -> Int] : IsSum(g, f, SUBSET S) /\ SumFunctionOnSet(f, S) = g[S]
  BY <1>0, SumUnfolds
<1> DEFINE Bad == {t \in SUBSET S : g[t] < 0}
           Sizes == {Cardinality(t) : t \in Bad}
<1>2. \A t \in SUBSET S : Cardinality(t) \in Nat
  BY FS_Subset, FS_CardinalityType
<1>3. ASSUME Bad # {} PROVE FALSE
  <2>1. PICK n \in Sizes : \A k \in Sizes : n <= k
    <3>1. Sizes \subseteq Nat /\ Sizes # {}
      BY <1>2, <1>3
    <3> HIDE DEF Sizes
    <3>2. QED BY <3>1, LeastNumber
  <2>2. PICK t \in Bad : n = Cardinality(t)
    OBVIOUS
  <2>3. CASE t = {}
    BY <1>1, <2>3 DEF IsSum
  <2>4. CASE t # {}
    <3> DEFINE u == t \ {Some(t)}
    <3>1. u \in SUBSET S /\ Cardinality(u) < n
      BY <1>2, <2>2, <2>4, Smaller, SomeIn
    <3>2. u \notin Bad
      <4>1. ASSUME u \in Bad PROVE FALSE
        <5>1. n <= Cardinality(u)
          BY <2>1, <4>1
        <5>2. QED BY <1>2, <2>2, <3>1, <5>1
      <4>2. QED BY <4>1
    <3>3. g[t] = f[Some(t)] + g[u]
      BY <1>1, <2>4 DEF IsSum
    <3>4. f[Some(t)] \in Nat /\ g[u] \in Int /\ g[t] \in Int
      BY <1>1, <2>4, <3>1, SomeIn
    <3>5. ~(g[u] < 0) /\ g[t] < 0
      BY <3>1, <3>2
    <3> HIDE DEF u
    <3>6. QED BY <3>3, <3>4, <3>5
  <2>5. QED BY <2>3, <2>4
<1>4. \A t \in SUBSET S : g[t] \in Nat
  <2>1. \A t \in SUBSET S : g[t] \in Int /\ ~(g[t] < 0)
    BY <1>1, <1>3
  <2>2. QED BY <2>1
<1>5. ASSUME NEW x \in S PROVE f[x] <= g[S]
  <2>0. AnyTaken(g, f, S)
    BY <1>0, <1>1, TakesAny
  <2>1. g[S] = f[x] + g[S \ {x}]
    BY <2>0 DEF AnyTaken
  <2>2. g[S \ {x}] \in Nat /\ f[x] \in Nat /\ g[S] \in Nat
    BY <1>4
  <2>3. QED BY <2>1, <2>2
<1>6. QED BY <1>1, <1>4, <1>5 DEF SumFunction

LEMMA SumZero ==
  ASSUME NEW S, IsFiniteSet(S), NEW f, f = [x \in S |-> 0]
  PROVE  SumFunction(f) = 0
<1>0. \A x \in S : f[x] \in Int
  OBVIOUS
<1>1. PICK g \in [SUBSET S -> Int] : IsSum(g, f, SUBSET S) /\ SumFunctionOnSet(f, S) = g[S]
  BY <1>0, SumUnfolds
<1> DEFINE h == [t \in SUBSET S |-> 0]
<1>2. \A t \in SUBSET S : h[t] = IF t = {} THEN 0 ELSE f[Some(t)] + h[t \ {Some(t)}]
  BY SomeIn
<1>3. IsSum(h, f, SUBSET S)
  BY <1>2 DEF IsSum
<1>4. h[S] = g[S]
  <2> HIDE DEF h
  <2>1. QED BY <1>1, <1>3, OneSum
<1>5. QED BY <1>1, <1>4 DEF SumFunction
=============================================================================
