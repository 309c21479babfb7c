-------------------------------- MODULE Sums --------------------------------
(***************************************************************************)
(* Facts about SumFunctionOnSet(f, S), the sum of f[x] over the members x  *)
(* of a finite set S.  The induction they need is an argument about a      *)
(* smallest subset of S for which the fact fails.                          *)
(***************************************************************************)
EXTENDS Functions, FiniteSetTheorems, TLAPS

Pick(s) == CHOOSE x \in s : TRUE

\* g gives the sum over every subset of S, by taking its members away one by one.
IsSum(g, f, S) ==
    g = [s \in SUBSET S |-> IF s = {} THEN 0 ELSE f[Pick(s)] + g[s \ {Pick(s)}]]

\* A set of subsets of a finite set has a smallest one.
LEMMA SmallestSubset ==
    ASSUME NEW S, IsFiniteSet(S), NEW T, T \subseteq SUBSET S, T # {}
    PROVE  \E s \in T : \A t \in T : t \subseteq s => t = s
<1>1. IsWellFoundedOn(StrictSubsetOrdering(S), SUBSET S)
  BY FS_FiniteSubsetsOfFinite, FS_StrictSubsetOrderingWellFounded
<1>2. \E s \in T : \A t \in T : ~ (<<t, s>> \in StrictSubsetOrdering(S))
  BY <1>1, WFMin
<1> QED
  BY <1>2 DEF StrictSubsetOrdering

\* Pick takes a member of every set that has one.
LEMMA PickIn == \A s : s # {} => Pick(s) \in s
BY DEF Pick

\* The library folds by a function on the subsets of S: it is some g with IsSum(g, f, S).
LEMMA SumByDefinition ==
    ASSUME NEW f, NEW S
    PROVE  SumFunctionOnSet(f, S) = (CHOOSE g : IsSum(g, f, S))[S]
BY DEF SumFunctionOnSet, FoldFunctionOnSet, MapThenFoldSet, IsSum, Pick

\* One step of such a g.
LEMMA IsSumStep ==
    ASSUME NEW f, NEW S, NEW g, IsSum(g, f, S), NEW s \in SUBSET S
    PROVE  g[s] = IF s = {} THEN 0 ELSE f[Pick(s)] + g[s \ {Pick(s)}]
BY DEF IsSum

\* There is at most one such g, even where the two are sums over different sets.
LEMMA SumUnique ==
    ASSUME NEW f, NEW S, NEW R, IsFiniteSet(S),
           NEW g, NEW h, IsSum(g, f, S), IsSum(h, f, R), NEW u \in SUBSET S, u \in SUBSET R
    PROVE  g[u] = h[u]
<1> DEFINE T == {s \in SUBSET S : s \in SUBSET R /\ g[s] # h[s]}
<1> SUFFICES ASSUME T # {} PROVE FALSE
  OBVIOUS
<1>0. T \subseteq SUBSET S
  OBVIOUS
<1>1. PICK s \in T : \A t \in T : t \subseteq s => t = s
  <2> HIDE DEF T
  <2> QED
    BY <1>0, SmallestSubset
<1>2. s \in SUBSET S /\ s \in SUBSET R /\ g[s] # h[s]
  OBVIOUS
<1>3. g[s] = IF s = {} THEN 0 ELSE f[Pick(s)] + g[s \ {Pick(s)}]
  BY <1>2, IsSumStep
<1>4. h[s] = IF s = {} THEN 0 ELSE f[Pick(s)] + h[s \ {Pick(s)}]
  BY <1>2, IsSumStep
<1>5. s # {}
  BY <1>2, <1>3, <1>4
<1>6. s \ {Pick(s)} \notin T
  BY <1>1, <1>5, PickIn
<1>7. g[s \ {Pick(s)}] = h[s \ {Pick(s)}]
  BY <1>2, <1>6
<1> QED
  BY <1>2, <1>3, <1>4, <1>5, <1>7

\* There is such a g on every finite set: on a smallest set without one, the g of
\* the set without a member could be extended.
LEMMA SumExists ==
    ASSUME NEW f, NEW S, IsFiniteSet(S)
    PROVE  \E g : IsSum(g, f, S)
<1> DEFINE T == {s \in SUBSET S : ~ \E g : IsSum(g, f, s)}
<1> SUFFICES ASSUME T # {} PROVE FALSE
  BY S \in SUBSET S
<1>0. T \subseteq SUBSET S
  OBVIOUS
<1>1. PICK s \in T : \A t \in T : t \subseteq s => t = s
  <2> HIDE DEF T
  <2> QED
    BY <1>0, SmallestSubset
<1> DEFINE
  Of(t) == CHOOSE g : IsSum(g, f, t)
  value(t) == IF t = {} THEN 0 ELSE f[Pick(t)] + Of(t \ {Pick(t)})[t \ {Pick(t)}]
  sum == [t \in SUBSET s |-> value(t)]
<1>2. \A t \in SUBSET s : t # s => IsSum(Of(t), f, t)
  BY <1>1
<1>3. \A t \in SUBSET s : t # s => Of(t)[t] = sum[t]
  <2> SUFFICES ASSUME NEW t \in SUBSET s, t # s PROVE Of(t)[t] = sum[t]
    OBVIOUS
  <2>1. IsSum(Of(t), f, t)
    BY <1>2
  <2>2. Of(t)[t] = IF t = {} THEN 0 ELSE f[Pick(t)] + Of(t)[t \ {Pick(t)}]
    BY <2>1, IsSumStep
  <2>3. CASE t = {}
    BY <2>2, <2>3
  <2>4. CASE t # {}
    <3> DEFINE u == t \ {Pick(t)}
    <3>1. u \in SUBSET s /\ u # s /\ u \in SUBSET t
      BY <2>4, PickIn
    <3>2. IsSum(Of(u), f, u)
      BY <1>2, <3>1
    <3>3. IsFiniteSet(t)
      BY FS_Subset
    <3> HIDE DEF Of, u
    <3>4. Of(t)[u] = Of(u)[u]
      BY <2>1, <3>1, <3>2, <3>3, SumUnique
    <3>5. Of(t)[t] = f[Pick(t)] + Of(t)[u]
      BY <2>2, <2>4 DEF u
    <3>6. sum[t] = f[Pick(t)] + Of(u)[u]
      BY <2>4 DEF u
    <3> QED
      BY <3>4, <3>5, <3>6
  <2> QED
    BY <2>3, <2>4
<1>4. \A t \in SUBSET s : sum[t] = IF t = {} THEN 0 ELSE f[Pick(t)] + sum[t \ {Pick(t)}]
  <2> SUFFICES ASSUME NEW t \in SUBSET s
               PROVE  value(t) = IF t = {} THEN 0 ELSE f[Pick(t)] + sum[t \ {Pick(t)}]
    OBVIOUS
  <2>1. CASE t = {}
    BY <2>1
  <2>2. CASE t # {}
    <3> DEFINE u == t \ {Pick(t)}
    <3>1. u \in SUBSET s /\ u # s
      BY <2>2, PickIn
    <3>2. Of(u)[u] = sum[u]
      BY <1>3, <3>1
    <3> QED
      BY <2>2, <3>2
  <2> QED
    BY <2>1, <2>2
<1>5. sum = [t \in SUBSET s |-> IF t = {} THEN 0 ELSE f[Pick(t)] + sum[t \ {Pick(t)}]]
  <2> HIDE DEF value
  <2>1. \A t \in SUBSET s : value(t) = sum[t]
    OBVIOUS
  <2> QED
    BY <1>4, <2>1
<1>6. IsSum(sum, f, s)
  BY <1>5 DEF IsSum
<1> QED
  BY <1>1, <1>6

-----------------------------------------------------------------------------

\* The sum over a subset is what any such g says of it.
LEMMA SumIs ==
    ASSUME NEW f, NEW S, IsFiniteSet(S), NEW s \in SUBSET S,
           NEW g, IsSum(g, f, S)
    PROVE  SumFunctionOnSet(f, s) = g[s]
<1>1. IsFiniteSet(s)
  BY FS_Subset
<1>2. IsSum(CHOOSE h : IsSum(h, f, s), f, s)
  BY <1>1, SumExists
<1>3. (CHOOSE h : IsSum(h, f, s))[s] = g[s]
  BY <1>2, SumUnique, <1>1
<1> QED
  BY <1>3, SumByDefinition

\* The sum over no member at all.
LEMMA SumOfNone == ASSUME NEW f PROVE SumFunctionOnSet(f, {}) = 0
<1>1. PICK g : IsSum(g, f, {})
  BY SumExists, FS_EmptySet
<1>2. g[{}] = 0
  BY <1>1, IsSumStep
<1> QED
  BY <1>1, <1>2, SumIs, FS_EmptySet

\* The sum is the chosen member and the sum over the others.
LEMMA SumStep ==
    ASSUME NEW f, NEW S, IsFiniteSet(S), S # {}
    PROVE  SumFunctionOnSet(f, S) = f[Pick(S)] + SumFunctionOnSet(f, S \ {Pick(S)})
<1>1. PICK g : IsSum(g, f, S)
  BY SumExists
<1>2. g[S] = f[Pick(S)] + g[S \ {Pick(S)}]
  BY <1>1, IsSumStep
<1>3. SumFunctionOnSet(f, S) = g[S]
  BY <1>1, SumIs
<1>4. SumFunctionOnSet(f, S \ {Pick(S)}) = g[S \ {Pick(S)}]
  BY <1>1, SumIs
<1> QED
  BY <1>2, <1>3, <1>4

-----------------------------------------------------------------------------
(* What is true of no member, and stays true when a member is added, is    *)
(* true of a finite set.  P holds the subsets it is true of.               *)

\* Induction on the subsets of a finite set: what holds of the empty set and of every
\* set with one member more holds of the whole.
LEMMA SubsetInduction ==
    ASSUME NEW S, IsFiniteSet(S), NEW P, {} \in P,
           \A s \in SUBSET S : s \in P => \A x \in S \ s : s \cup {x} \in P
    PROVE  S \in P
<1> DEFINE T == {s \in SUBSET S : s \notin P}
<1> SUFFICES ASSUME T # {} PROVE FALSE
  OBVIOUS
<1>0. T \subseteq SUBSET S
  OBVIOUS
<1>1. PICK s \in T : \A t \in T : t \subseteq s => t = s
  <2> HIDE DEF T
  <2> QED
    BY <1>0, SmallestSubset
<1>2. s # {} /\ s \in SUBSET S /\ s \notin P
  OBVIOUS
<1>3. Pick(s) \in s
  BY <1>2, PickIn
<1>4. s \ {Pick(s)} \in P
  BY <1>1, <1>2, <1>3
<1>5. (s \ {Pick(s)}) \cup {Pick(s)} = s
  BY <1>3
<1> QED
  BY <1>2, <1>3, <1>4, <1>5

\* Sums of integers are integers.
LEMMA SumInt ==
    ASSUME NEW f, NEW S, IsFiniteSet(S), \A x \in S : f[x] \in Int
    PROVE  SumFunctionOnSet(f, S) \in Int
<1> DEFINE T == {s \in SUBSET S : SumFunctionOnSet(f, s) \notin Int}
<1> SUFFICES ASSUME T # {} PROVE FALSE
  OBVIOUS
<1>0. T \subseteq SUBSET S
  OBVIOUS
<1>1. PICK s \in T : \A t \in T : t \subseteq s => t = s
  <2> HIDE DEF T
  <2> QED
    BY <1>0, SmallestSubset
<1>2. s # {}
  BY SumOfNone
<1>3. Pick(s) \in s
  BY <1>2, PickIn
<1>4. SumFunctionOnSet(f, s \ {Pick(s)}) \in Int
  BY <1>1, <1>3
<1>5. SumFunctionOnSet(f, s) = f[Pick(s)] + SumFunctionOnSet(f, s \ {Pick(s)})
  BY <1>2, FS_Subset, SumStep
<1> QED
  BY <1>3, <1>4, <1>5

\* Any member can be taken away first.
LEMMA SumRemove ==
    ASSUME NEW f, NEW S, IsFiniteSet(S), \A x \in S : f[x] \in Int, NEW y \in S
    PROVE  SumFunctionOnSet(f, S) = f[y] + SumFunctionOnSet(f, S \ {y})
<1> DEFINE
  Sum(s) == SumFunctionOnSet(f, s)
  T == {s \in SUBSET S : \E z \in s : Sum(s) # f[z] + Sum(s \ {z})}
<1> SUFFICES ASSUME T # {} PROVE FALSE
  OBVIOUS
<1>0. T \subseteq SUBSET S
  OBVIOUS
<1>1. PICK s \in T : \A t \in T : t \subseteq s => t = s
  <2> HIDE DEF T
  <2> QED
    BY <1>0, SmallestSubset
<1>2. PICK z \in s : Sum(s) # f[z] + Sum(s \ {z})
  OBVIOUS
<1> DEFINE x == Pick(s)
<1>3. x \in s
  BY PickIn
<1>4. \A t \in SUBSET S : IsFiniteSet(t) /\ Sum(t) \in Int
  BY FS_Subset, SumInt
<1>5. Sum(s) = f[x] + Sum(s \ {x})
  BY <1>3, <1>4, SumStep
<1>6. x # z
  BY <1>2, <1>5
<1> DEFINE rest == s \ {x, z}
<1> HIDE DEF x, Sum
<1>7. s \ {x} \notin T /\ s \ {z} \notin T
  BY <1>1, <1>2, <1>3
<1>8. z \in s \ {x} /\ (s \ {x}) \ {z} = rest /\ s \ {x} \in SUBSET S
  BY <1>6
<1>9. x \in s \ {z} /\ (s \ {z}) \ {x} = rest /\ s \ {z} \in SUBSET S
  BY <1>3, <1>6
<1>10. Sum(s \ {x}) = f[z] + Sum(rest)
  BY <1>7, <1>8
<1>11. Sum(s \ {z}) = f[x] + Sum(rest)
  BY <1>7, <1>9
<1>12. f[x] \in Int /\ f[z] \in Int /\ Sum(rest) \in Int
  BY <1>3, <1>4
<1> QED
  BY <1>2, <1>5, <1>10, <1>11, <1>12

\* A new member adds its value.
LEMMA SumAdd ==
    ASSUME NEW f, NEW S, IsFiniteSet(S), NEW y, y \notin S, f[y] \in Int,
           \A x \in S : f[x] \in Int
    PROVE  SumFunctionOnSet(f, S \cup {y}) = f[y] + SumFunctionOnSet(f, S)
<1>1. IsFiniteSet(S \cup {y}) /\ (S \cup {y}) \ {y} = S
  BY FS_AddElement
<1>2. \A x \in S \cup {y} : f[x] \in Int
  OBVIOUS
<1>3. SumFunctionOnSet(f, S \cup {y}) = f[y] + SumFunctionOnSet(f, (S \cup {y}) \ {y})
  BY <1>1, <1>2, SumRemove
<1> QED
  BY <1>1, <1>3

-----------------------------------------------------------------------------

\* The sum looks at the values in S only.
LEMMA SumSame ==
    ASSUME NEW f, NEW g, NEW S, IsFiniteSet(S), \A x \in S : f[x] = g[x]
    PROVE  SumFunctionOnSet(f, S) = SumFunctionOnSet(g, S)
<1> DEFINE T == {s \in SUBSET S : SumFunctionOnSet(f, s) # SumFunctionOnSet(g, s)}
<1> SUFFICES ASSUME T # {} PROVE FALSE
  OBVIOUS
<1>0. T \subseteq SUBSET S
  OBVIOUS
<1>1. PICK s \in T : \A t \in T : t \subseteq s => t = s
  <2> HIDE DEF T
  <2> QED
    BY <1>0, SmallestSubset
<1>2. s # {}
  BY SumOfNone
<1>3. Pick(s) \in s /\ IsFiniteSet(s)
  BY <1>2, PickIn, FS_Subset
<1>4. SumFunctionOnSet(f, s \ {Pick(s)}) = SumFunctionOnSet(g, s \ {Pick(s)})
  BY <1>1, <1>3
<1>5. SumFunctionOnSet(f, s) = f[Pick(s)] + SumFunctionOnSet(f, s \ {Pick(s)})
  BY <1>2, <1>3, SumStep
<1>6. SumFunctionOnSet(g, s) = g[Pick(s)] + SumFunctionOnSet(g, s \ {Pick(s)})
  BY <1>2, <1>3, SumStep
<1> QED
  BY <1>3, <1>4, <1>5, <1>6

\* The sum of two functions is the sum of their sums.
LEMMA SumPlus ==
    ASSUME NEW f, NEW g, NEW h, NEW S, IsFiniteSet(S),
           \A x \in S : f[x] \in Int /\ g[x] \in Int /\ h[x] = f[x] + g[x]
    PROVE  SumFunctionOnSet(h, S) = SumFunctionOnSet(f, S) + SumFunctionOnSet(g, S)
<1> DEFINE
  P == {s \in SUBSET S : SumFunctionOnSet(h, s) = SumFunctionOnSet(f, s) + SumFunctionOnSet(g, s)}
<1>1. {} \in P
  BY SumOfNone
<1>2. ASSUME NEW s \in SUBSET S, s \in P, NEW x \in S \ s
      PROVE  s \cup {x} \in P
  <2>1. IsFiniteSet(s)
    BY FS_Subset
  <2>2. SumFunctionOnSet(f, s) \in Int /\ SumFunctionOnSet(g, s) \in Int
    BY <2>1, SumInt
  <2>3. /\ SumFunctionOnSet(f, s \cup {x}) = f[x] + SumFunctionOnSet(f, s)
        /\ SumFunctionOnSet(g, s \cup {x}) = g[x] + SumFunctionOnSet(g, s)
        /\ SumFunctionOnSet(h, s \cup {x}) = h[x] + SumFunctionOnSet(h, s)
    <3>1. \A y \in s : h[y] \in Int
      OBVIOUS
    <3> QED
      BY <2>1, <3>1, SumAdd
  <2>4. SumFunctionOnSet(h, s) = SumFunctionOnSet(f, s) + SumFunctionOnSet(g, s)
    BY <1>2
  <2>5. f[x] \in Int /\ g[x] \in Int /\ h[x] = f[x] + g[x]
    OBVIOUS
  <2>6. SumFunctionOnSet(h, s \cup {x})
            = SumFunctionOnSet(f, s \cup {x}) + SumFunctionOnSet(g, s \cup {x})
    BY <2>2, <2>3, <2>4, <2>5
  <2> QED
    BY <2>6
<1>3. S \in P
  <2> HIDE DEF P
  <2> QED
    BY <1>1, <1>2, SubsetInduction
<1> QED
  BY <1>3

\* Larger values have a larger sum.
LEMMA SumMonotone ==
    ASSUME NEW f, NEW g, NEW S, IsFiniteSet(S),
           \A x \in S : f[x] \in Int /\ g[x] \in Int /\ f[x] <= g[x]
    PROVE  SumFunctionOnSet(f, S) <= SumFunctionOnSet(g, S)
<1> DEFINE P == {s \in SUBSET S : SumFunctionOnSet(f, s) <= SumFunctionOnSet(g, s)}
<1>1. {} \in P
  BY SumOfNone
<1>2. ASSUME NEW s \in SUBSET S, s \in P, NEW x \in S \ s
      PROVE  s \cup {x} \in P
  <2>1. IsFiniteSet(s)
    BY FS_Subset
  <2>2. SumFunctionOnSet(f, s) \in Int /\ SumFunctionOnSet(g, s) \in Int
    BY <2>1, SumInt
  <2>3. /\ SumFunctionOnSet(f, s \cup {x}) = f[x] + SumFunctionOnSet(f, s)
        /\ SumFunctionOnSet(g, s \cup {x}) = g[x] + SumFunctionOnSet(g, s)
    BY <2>1, SumAdd
  <2>4. SumFunctionOnSet(f, s) <= SumFunctionOnSet(g, s)
    BY <1>2
  <2>5. f[x] \in Int /\ g[x] \in Int /\ f[x] <= g[x]
    OBVIOUS
  <2>6. SumFunctionOnSet(f, s \cup {x}) <= SumFunctionOnSet(g, s \cup {x})
    BY <2>2, <2>3, <2>4, <2>5
  <2> QED
    BY <2>6
<1>3. S \in P
  <2> HIDE DEF P
  <2> QED
    BY <1>1, <1>2, SubsetInduction
<1> QED
  BY <1>3

\* The sum of zeros.
LEMMA SumZero ==
    ASSUME NEW f, NEW S, IsFiniteSet(S), \A x \in S : f[x] = 0
    PROVE  SumFunctionOnSet(f, S) = 0
<1> DEFINE P == {s \in SUBSET S : SumFunctionOnSet(f, s) = 0}
<1>1. {} \in P
  BY SumOfNone
<1>2. ASSUME NEW s \in SUBSET S, s \in P, NEW x \in S \ s
      PROVE  s \cup {x} \in P
  <2>1. SumFunctionOnSet(f, s \cup {x}) = f[x] + SumFunctionOnSet(f, s)
    BY FS_Subset, SumAdd
  <2> QED
    BY <1>2, <2>1
<1>3. S \in P
  <2> HIDE DEF P
  <2> QED
    BY <1>1, <1>2, SubsetInduction
<1> QED
  BY <1>3

\* Sums of naturals are naturals.
LEMMA SumNat ==
    ASSUME NEW f, NEW S, IsFiniteSet(S), \A x \in S : f[x] \in Nat
    PROVE  SumFunctionOnSet(f, S) \in Nat
<1> DEFINE zero == [x \in S |-> 0]
<1>1. SumFunctionOnSet(zero, S) = 0
  BY SumZero
<1>2. SumFunctionOnSet(zero, S) <= SumFunctionOnSet(f, S)
  <2>1. \A x \in S : zero[x] \in Int /\ f[x] \in Int /\ zero[x] <= f[x]
    OBVIOUS
  <2> HIDE DEF zero
  <2> QED
    BY <2>1, SumMonotone
<1>3. SumFunctionOnSet(f, S) \in Int
  BY SumInt
<1> QED
  BY <1>1, <1>2, <1>3

\* Members that count for nothing can be left out.
LEMMA SumSupport ==
    ASSUME NEW f, NEW S, IsFiniteSet(S), NEW T \in SUBSET S,
           \A x \in S : f[x] \in Int, \A x \in S \ T : f[x] = 0
    PROVE  SumFunctionOnSet(f, S) = SumFunctionOnSet(f, T)
<1> DEFINE P == {s \in SUBSET S : SumFunctionOnSet(f, s) = SumFunctionOnSet(f, s \cap T)}
<1>1. {} \in P
  BY {} \cap T = {}
<1>2. ASSUME NEW s \in SUBSET S, s \in P, NEW x \in S \ s
      PROVE  s \cup {x} \in P
  <2>1. IsFiniteSet(s) /\ IsFiniteSet(s \cap T)
    BY FS_Subset
  <2>2. SumFunctionOnSet(f, s \cup {x}) = f[x] + SumFunctionOnSet(f, s)
    BY <2>1, SumAdd
  <2>3. SumFunctionOnSet(f, s) = SumFunctionOnSet(f, s \cap T)
    BY <1>2
  <2>4. CASE x \in T
    <3>1. (s \cup {x}) \cap T = (s \cap T) \cup {x}
      BY <2>4
    <3>2. SumFunctionOnSet(f, (s \cap T) \cup {x}) = f[x] + SumFunctionOnSet(f, s \cap T)
      BY <2>1, SumAdd
    <3> QED
      BY <2>2, <2>3, <3>1, <3>2
  <2>5. CASE x \notin T
    <3>1. (s \cup {x}) \cap T = s \cap T /\ f[x] = 0
      BY <2>5
    <3>2. SumFunctionOnSet(f, s) \in Int
      BY <2>1, SumInt
    <3>3. SumFunctionOnSet(f, s \cup {x}) = SumFunctionOnSet(f, s)
      BY <2>2, <3>1, <3>2
    <3> QED
      BY <2>3, <3>1, <3>3
  <2> QED
    BY <2>4, <2>5
<1>3. S \in P
  <2> HIDE DEF P
  <2> QED
    BY <1>1, <1>2, SubsetInduction
<1>4. S \cap T = T
  OBVIOUS
<1> QED
  BY <1>3, <1>4

\* One value changes.
LEMMA SumChange ==
    ASSUME NEW f, NEW g, NEW S, IsFiniteSet(S), NEW y \in S,
           \A x \in S : f[x] \in Int /\ g[x] \in Int,
           \A x \in S \ {y} : g[x] = f[x]
    PROVE  SumFunctionOnSet(g, S) = SumFunctionOnSet(f, S) + (g[y] - f[y])
<1>1. IsFiniteSet(S \ {y})
  BY FS_RemoveElement
<1>2. SumFunctionOnSet(g, S \ {y}) = SumFunctionOnSet(f, S \ {y})
  BY <1>1, SumSame
<1>3. /\ SumFunctionOnSet(f, S) = f[y] + SumFunctionOnSet(f, S \ {y})
      /\ SumFunctionOnSet(g, S) = g[y] + SumFunctionOnSet(g, S \ {y})
  BY SumRemove
<1>4. SumFunctionOnSet(f, S \ {y}) \in Int
  BY <1>1, SumInt
<1> QED
  BY <1>2, <1>3, <1>4

\* The parts of a set.
LEMMA SumSplit ==
    ASSUME NEW f, NEW S, IsFiniteSet(S), NEW T, IsFiniteSet(T), S \cap T = {},
           \A x \in S \cup T : f[x] \in Int
    PROVE  SumFunctionOnSet(f, S \cup T) = SumFunctionOnSet(f, S) + SumFunctionOnSet(f, T)
<1> DEFINE P == {s \in SUBSET T :
                 SumFunctionOnSet(f, S \cup s) = SumFunctionOnSet(f, S) + SumFunctionOnSet(f, s)}
<1>0. SumFunctionOnSet(f, S) \in Int
  BY SumInt
<1>1. {} \in P
  BY <1>0, SumOfNone, S \cup {} = S
<1>2. ASSUME NEW s \in SUBSET T, s \in P, NEW x \in T \ s
      PROVE  s \cup {x} \in P
  <2>1. IsFiniteSet(s) /\ IsFiniteSet(S \cup s) /\ S \cup (s \cup {x}) = (S \cup s) \cup {x}
    BY FS_Subset, FS_Union
  <2>2. x \notin S \cup s /\ f[x] \in Int
    OBVIOUS
  <2>3. SumFunctionOnSet(f, (S \cup s) \cup {x}) = f[x] + SumFunctionOnSet(f, S \cup s)
    <3> DEFINE U == S \cup s
    <3>1. IsFiniteSet(U) /\ x \notin U /\ \A y \in U : f[y] \in Int
      BY <2>1, <2>2
    <3> HIDE DEF U
    <3>2. SumFunctionOnSet(f, U \cup {x}) = f[x] + SumFunctionOnSet(f, U)
      BY <3>1, <2>2, SumAdd
    <3> QED
      BY <3>2 DEF U
  <2>4. SumFunctionOnSet(f, s \cup {x}) = f[x] + SumFunctionOnSet(f, s)
    BY <2>1, <2>2, SumAdd
  <2>5. SumFunctionOnSet(f, s) \in Int
    BY <2>1, SumInt
  <2>6. SumFunctionOnSet(f, S \cup s) = SumFunctionOnSet(f, S) + SumFunctionOnSet(f, s)
    BY <1>2
  <2>7. SumFunctionOnSet(f, S \cup (s \cup {x})) = f[x] + SumFunctionOnSet(f, S \cup s)
    BY <2>1, <2>3
  <2>8. SumFunctionOnSet(f, S \cup (s \cup {x}))
            = SumFunctionOnSet(f, S) + SumFunctionOnSet(f, s \cup {x})
    <3> DEFINE a == SumFunctionOnSet(f, S)
               b == SumFunctionOnSet(f, s)
    <3>1. a \in Int /\ b \in Int /\ f[x] \in Int
      BY <1>0, <2>2, <2>5
    <3>2. /\ SumFunctionOnSet(f, S \cup (s \cup {x})) = f[x] + (a + b)
          /\ SumFunctionOnSet(f, s \cup {x}) = f[x] + b
      BY <2>4, <2>6, <2>7
    <3> HIDE DEF a, b
    <3>3. f[x] + (a + b) = a + (f[x] + b)
      BY <3>1
    <3> QED
      BY <3>2, <3>3 DEF a
  <2> QED
    BY <2>8
<1>3. T \in P
  <2> HIDE DEF P
  <2> QED
    BY <1>1, <1>2, SubsetInduction
<1> QED
  BY <1>3

\* The larger the set, the larger the sum.
LEMMA SumWithin ==
    ASSUME NEW f, NEW T, IsFiniteSet(T), NEW S \in SUBSET T, \A x \in T : f[x] \in Nat
    PROVE  /\ SumFunctionOnSet(f, S) \in Nat /\ SumFunctionOnSet(f, T) \in Nat
           /\ SumFunctionOnSet(f, S) <= SumFunctionOnSet(f, T)
<1>1. IsFiniteSet(S) /\ IsFiniteSet(T \ S) /\ S \cap (T \ S) = {} /\ S \cup (T \ S) = T
  BY FS_Subset
<1>2. \A x \in S \cup (T \ S) : f[x] \in Int
  OBVIOUS
<1>3. SumFunctionOnSet(f, S \cup (T \ S)) = SumFunctionOnSet(f, S) + SumFunctionOnSet(f, T \ S)
  BY <1>1, <1>2, SumSplit
<1> DEFINE a == SumFunctionOnSet(f, S)
           b == SumFunctionOnSet(f, T \ S)
           c == SumFunctionOnSet(f, T)
<1>4. a \in Nat /\ b \in Nat /\ c \in Nat
  BY <1>1, SumNat
<1>5. c = a + b
  BY <1>1, <1>3
<1> HIDE DEF a, b, c
<1>6. a <= c
  BY <1>4, <1>5
<1> QED
  BY <1>4, <1>6 DEF a, c

\* A sum taken group by group.
Group(h, S, t) == {x \in S : h[x] = t}

\* A sum over S is the sum, over the values of h, of the sums over the members of S
\* with that value.
LEMMA SumByFibre ==
    ASSUME NEW f, NEW S, IsFiniteSet(S), NEW g, NEW T, IsFiniteSet(T), NEW h,
           \A x \in S : h[x] \in T /\ f[x] \in Int,
           \A t \in T : g[t] = SumFunctionOnSet(f, Group(h, S, t))
    PROVE  SumFunctionOnSet(f, S) = SumFunctionOnSet(g, T)
<1> DEFINE
  Over(U) == {x \in S : h[x] \in U}
  fibre(t) == Group(h, S, t)
  P == {U \in SUBSET T : SumFunctionOnSet(f, Over(U)) = SumFunctionOnSet(g, U)}
<1>0. /\ \A U : IsFiniteSet(Over(U)) /\ \A t : IsFiniteSet(fibre(t))
      /\ \A t \in T : g[t] = SumFunctionOnSet(f, fibre(t))
  <2>1. \A U : Over(U) \subseteq S
    OBVIOUS
  <2>2. \A t : fibre(t) \subseteq S
    BY DEF Group
  <2> QED
    BY <2>1, <2>2, FS_Subset
<1>a. \A t \in T : g[t] \in Int
  <2> TAKE t \in T
  <2>1. \A x \in fibre(t) : f[x] \in Int
    BY DEF Group
  <2>2. SumFunctionOnSet(f, fibre(t)) \in Int
    <3> HIDE DEF fibre
    <3> QED
      BY <1>0, <2>1, SumInt
  <2> QED
    BY <1>0, <2>2
<1>1. {} \in P
  <2>1. Over({}) = {}
    OBVIOUS
  <2> QED
    BY <2>1, SumOfNone
<1>2. ASSUME NEW U \in SUBSET T, U \in P, NEW t \in T \ U
      PROVE  U \cup {t} \in P
  <2>1. Over(U \cup {t}) = Over(U) \cup fibre(t) /\ Over(U) \cap fibre(t) = {}
    BY <1>2 DEF Group
  <2>2. \A x \in Over(U) \cup fibre(t) : f[x] \in Int
    BY DEF Group
  <2>3. IsFiniteSet(U)
    BY FS_Subset
  <2>4. SumFunctionOnSet(f, Over(U)) = SumFunctionOnSet(g, U)
    BY <1>2
  <2>5. SumFunctionOnSet(g, U \cup {t}) = g[t] + SumFunctionOnSet(g, U)
    <3>1. t \notin U /\ g[t] \in Int /\ \A x \in U : g[x] \in Int
      BY <1>2, <1>a
    <3> QED
      BY <2>3, <3>1, SumAdd
  <2>6. SumFunctionOnSet(f, Over(U)) \in Int /\ SumFunctionOnSet(f, fibre(t)) \in Int
    <3>1. (\A x \in Over(U) : f[x] \in Int) /\ (\A x \in fibre(t) : f[x] \in Int)
      BY DEF Group
    <3> HIDE DEF Over, fibre
    <3> QED
      BY <1>0, <3>1, SumInt
  <2>7. SumFunctionOnSet(f, Over(U) \cup fibre(t))
           = SumFunctionOnSet(f, Over(U)) + SumFunctionOnSet(f, fibre(t))
    <3> HIDE DEF Over, fibre
    <3> QED
      BY <1>0, <2>1, <2>2, SumSplit
  <2>8. SumFunctionOnSet(f, Over(U \cup {t})) = SumFunctionOnSet(g, U \cup {t})
    <3>1. g[t] = SumFunctionOnSet(f, fibre(t))
      BY <1>0
    <3>2. Over(U \cup {t}) = Over(U) \cup fibre(t)
      BY <2>1
    <3> DEFINE
      a == SumFunctionOnSet(f, Over(U))
      b == SumFunctionOnSet(f, fibre(t))
    <3>3. a \in Int /\ b \in Int
      BY <2>6
    <3>4. SumFunctionOnSet(f, Over(U \cup {t})) = a + b
      BY <2>7, <3>2
    <3>5. SumFunctionOnSet(g, U \cup {t}) = b + a
      BY <2>4, <2>5, <3>1
    <3> HIDE DEF a, b
    <3> QED
      BY <3>3, <3>4, <3>5
  <2>9. U \cup {t} \in SUBSET T
    OBVIOUS
  <2> QED
    BY <2>8, <2>9
<1>3. T \in P
  <2> HIDE DEF P
  <2> QED
    BY <1>1, <1>2, SubsetInduction
<1>4. Over(T) = S
  OBVIOUS
<1> QED
  BY <1>3, <1>4

\* Groups within their bounds: a whole within the sum of the bounds.
LEMMA SumFibres ==
    ASSUME NEW f, NEW S, IsFiniteSet(S), NEW g, NEW T, IsFiniteSet(T), NEW h,
           \A x \in S : h[x] \in T /\ f[x] \in Int,
           \A t \in T : g[t] \in Int /\ SumFunctionOnSet(f, Group(h, S, t)) <= g[t]
    PROVE  SumFunctionOnSet(f, S) <= SumFunctionOnSet(g, T)
<1> DEFINE
  fibre(t) == Group(h, S, t)
  k == [t \in T |-> SumFunctionOnSet(f, fibre(t))]
<1>1. \A t \in T : k[t] = SumFunctionOnSet(f, Group(h, S, t))
  OBVIOUS
<1>2. SumFunctionOnSet(f, S) = SumFunctionOnSet(k, T)
  <2> HIDE DEF k
  <2> QED
    BY <1>1, SumByFibre
<1>3. \A t \in T : k[t] \in Int /\ g[t] \in Int /\ k[t] <= g[t]
  <2> TAKE t \in T
  <2>1. \A x \in fibre(t) : f[x] \in Int
    BY DEF Group
  <2>2. fibre(t) \subseteq S
    BY DEF Group
  <2>3. IsFiniteSet(fibre(t))
    <3> HIDE DEF fibre
    <3> QED
      BY <2>2, FS_Subset
  <2>4. SumFunctionOnSet(f, fibre(t)) \in Int
    <3> HIDE DEF fibre
    <3> QED
      BY <2>1, <2>3, SumInt
  <2> QED
    BY <2>4
<1>4. SumFunctionOnSet(k, T) <= SumFunctionOnSet(g, T)
  <2> HIDE DEF k
  <2> QED
    BY <1>3, SumMonotone
<1> QED
  BY <1>2, <1>4

\* Where the bound of a sum is reached, each of its terms reaches its own.
LEMMA SumTight ==
    ASSUME NEW f, NEW g, NEW S, IsFiniteSet(S),
           \A x \in S : f[x] \in Int /\ g[x] \in Int /\ f[x] <= g[x],
           SumFunctionOnSet(g, S) <= SumFunctionOnSet(f, S), NEW y \in S
    PROVE  f[y] = g[y]
<1>1. IsFiniteSet(S \ {y})
  BY FS_RemoveElement
<1>2. \A x \in S \ {y} : f[x] \in Int /\ g[x] \in Int /\ f[x] <= g[x]
  OBVIOUS
<1> DEFINE a == SumFunctionOnSet(f, S \ {y})
           b == SumFunctionOnSet(g, S \ {y})
<1>3. a <= b
  BY <1>1, <1>2, SumMonotone
<1>4. a \in Int /\ b \in Int
  BY <1>1, <1>2, SumInt
<1>5. SumFunctionOnSet(f, S) = f[y] + a
  BY SumRemove
<1>6. SumFunctionOnSet(g, S) = g[y] + b
  BY SumRemove
<1>7. SumFunctionOnSet(g, S) <= SumFunctionOnSet(f, S)
  OBVIOUS
<1> HIDE DEF a, b
<1> DEFINE p == f[y]
           q == g[y]
<1>8. p \in Int /\ q \in Int /\ p <= q
  OBVIOUS
<1>9. q + b <= p + a
  BY <1>5, <1>6, <1>7
<1> HIDE DEF p, q
<1>10. p = q
  BY <1>3, <1>4, <1>8, <1>9
<1> QED
  BY <1>10 DEF p, q

\* A sum after a term is added to the function.
LEMMA SumExtended ==
    ASSUME NEW f, NEW g, NEW D, IsFiniteSet(D), NEW n, n \notin D,
           NEW S \in SUBSET D, NEW T \in SUBSET (D \cup {n}), T \cap D = S,
           \A i \in D : f[i] \in Int /\ g[i] = f[i], g[n] \in Int
    PROVE  SumFunctionOnSet(g, T) = SumFunctionOnSet(f, S) + (IF n \in T THEN g[n] ELSE 0)
<1>1. IsFiniteSet(S)
  BY FS_Subset
<1>2. SumFunctionOnSet(g, S) = SumFunctionOnSet(f, S)
  <2>1. \A i \in S : g[i] = f[i]
    OBVIOUS
  <2> QED
    BY <1>1, <2>1, SumSame
<1>3. n \notin S /\ \A i \in S : g[i] \in Int /\ f[i] \in Int
  OBVIOUS
<1>4. SumFunctionOnSet(f, S) \in Int
  BY <1>1, <1>3, SumInt
<1>5. CASE n \in T
  <2>1. T = S \cup {n}
    BY <1>5
  <2>2. SumFunctionOnSet(g, S \cup {n}) = g[n] + SumFunctionOnSet(g, S)
    BY <1>1, <1>3, SumAdd
  <2> QED
    BY <1>2, <1>4, <1>5, <2>1, <2>2
<1>6. CASE n \notin T
  <2>1. T = S
    BY <1>6
  <2> QED
    BY <1>2, <1>4, <1>6, <2>1
<1> QED
  BY <1>5, <1>6

\* A sum does not grow with members that are not positive.
LEMMA SumLower ==
    ASSUME NEW f, NEW g, NEW T, IsFiniteSet(T), NEW S \in SUBSET T,
           \A x \in T : g[x] \in Int, \A x \in S : f[x] = g[x], \A x \in T \ S : g[x] <= 0
    PROVE  SumFunctionOnSet(g, T) <= SumFunctionOnSet(f, S)
<1> DEFINE R == T \ S
           zero == [x \in R |-> 0]
<1>1. /\ IsFiniteSet(R) /\ IsFiniteSet(S) /\ R \cap S = {} /\ S \cap R = {} /\ S \cup R = T
  BY FS_Subset
<1>2. \A x \in R : g[x] \in Int /\ zero[x] \in Int /\ g[x] <= zero[x]
  OBVIOUS
<1>3. \A x \in R : zero[x] = 0
  OBVIOUS
<1> HIDE DEF R, zero
<1>4. SumFunctionOnSet(g, R) <= SumFunctionOnSet(zero, R)
  BY <1>1, <1>2, SumMonotone
<1>5. SumFunctionOnSet(zero, R) = 0
  BY <1>1, <1>3, SumZero
<1>6. \A x \in S \cup R : g[x] \in Int
  BY <1>1
<1>7. SumFunctionOnSet(g, S \cup R) = SumFunctionOnSet(g, S) + SumFunctionOnSet(g, R)
  BY <1>1, <1>6, SumSplit
<1>8. SumFunctionOnSet(g, S) \in Int /\ SumFunctionOnSet(g, R) \in Int
  BY <1>1, <1>6, SumInt
<1>9. SumFunctionOnSet(f, S) = SumFunctionOnSet(g, S)
  BY <1>1, SumSame
<1>10. SumFunctionOnSet(g, T) = SumFunctionOnSet(g, S \cup R)
  BY <1>1
<1> QED
  BY <1>4, <1>5, <1>7, <1>8, <1>9, <1>10

\* The sum of the opposites.
LEMMA SumNegated ==
    ASSUME NEW f, NEW g, NEW S, IsFiniteSet(S), \A x \in S : f[x] \in Int /\ g[x] = -f[x]
    PROVE  SumFunctionOnSet(f, S) \in Int /\ SumFunctionOnSet(g, S) = -SumFunctionOnSet(f, S)
<1> DEFINE zero == [x \in S |-> 0]
           a == SumFunctionOnSet(f, S)
           b == SumFunctionOnSet(g, S)
<1>1. SumFunctionOnSet(zero, S) = 0
  BY SumZero
<1>2. \A x \in S : f[x] \in Int /\ g[x] \in Int /\ zero[x] = f[x] + g[x]
  <2> TAKE x \in S
  <2>1. f[x] \in Int /\ g[x] = -f[x]
    OBVIOUS
  <2> DEFINE y == f[x]
  <2>2. y \in Int => -y \in Int /\ 0 = y + -y
    OBVIOUS
  <2> QED
    BY <2>1, <2>2
<1> HIDE DEF zero
<1>3. SumFunctionOnSet(zero, S) = a + b
  BY <1>2, SumPlus
<1>4. a \in Int /\ b \in Int
  BY <1>2, SumInt
<1> HIDE DEF a, b
<1>5. b = -a
  BY <1>1, <1>3, <1>4
<1> QED
  BY <1>4, <1>5 DEF a, b

\* A table is the sum of its rows and of its columns.
Column(f, S, y) == [x \in S |-> f[x][y]]

LEMMA SumExchange ==
    ASSUME NEW f, NEW S, IsFiniteSet(S), NEW T, IsFiniteSet(T),
           \A x \in S, y \in T : f[x][y] \in Int,
           NEW rows, \A x \in S : rows[x] = SumFunctionOnSet(f[x], T),
           NEW columns,
           \A y \in T : columns[y] = SumFunctionOnSet(Column(f, S, y), S)
    PROVE  SumFunctionOnSet(rows, S) = SumFunctionOnSet(columns, T)
<1> DEFINE
  column(y) == Column(f, S, y)
  over(U) == [y \in T |-> SumFunctionOnSet(column(y), U)]
  P == {U \in SUBSET S : SumFunctionOnSet(rows, U) = SumFunctionOnSet(over(U), T)}
<1>0. \A x \in S, y \in T : column(y)[x] = f[x][y] /\ column(y)[x] \in Int
  BY DEF Column
<1>1. {} \in P
  <2>1. \A y \in T : over({})[y] = 0
    BY SumOfNone
  <2>2. SumFunctionOnSet(over({}), T) = 0
    <3> HIDE DEF over
    <3> QED
      BY <2>1, SumZero
  <2> QED
    BY <2>2, SumOfNone
<1>2. ASSUME NEW U \in SUBSET S, U \in P, NEW x \in S \ U
      PROVE  U \cup {x} \in P
  <2>1. IsFiniteSet(U)
    BY FS_Subset
  <2>2. \A y \in T : /\ over(U)[y] \in Int /\ f[x][y] \in Int
                     /\ over(U \cup {x})[y] = f[x][y] + over(U)[y]
    <3> TAKE y \in T
    <3> DEFINE c == column(y)
    <3>1. c[x] = f[x][y] /\ c[x] \in Int /\ \A z \in U : c[z] \in Int
      BY <1>0
    <3> HIDE DEF c
    <3>2. SumFunctionOnSet(c, U \cup {x}) = c[x] + SumFunctionOnSet(c, U)
      BY <2>1, <3>1, SumAdd
    <3>3. SumFunctionOnSet(c, U) \in Int
      BY <2>1, <3>1, SumInt
    <3> QED
      BY <3>1, <3>2, <3>3 DEF c
  <2>3. SumFunctionOnSet(over(U \cup {x}), T)
           = SumFunctionOnSet(f[x], T) + SumFunctionOnSet(over(U), T)
    <3> DEFINE p == over(U)
               q == over(U \cup {x})
               r == f[x]
    <3>1. \A y \in T : p[y] \in Int /\ r[y] \in Int /\ q[y] = r[y] + p[y]
      BY <2>2
    <3> HIDE DEF p, q, r
    <3>2. SumFunctionOnSet(q, T) = SumFunctionOnSet(r, T) + SumFunctionOnSet(p, T)
      BY <3>1, SumPlus
    <3> QED
      BY <3>2 DEF p, q, r
  <2>4. \A z \in S : rows[z] \in Int
    <3> TAKE z \in S
    <3> DEFINE r == f[z]
    <3>1. \A y \in T : r[y] \in Int
      OBVIOUS
    <3> HIDE DEF r
    <3>2. SumFunctionOnSet(r, T) \in Int
      BY <3>1, SumInt
    <3> QED
      BY <3>2 DEF r
  <2>5. SumFunctionOnSet(rows, U \cup {x}) = rows[x] + SumFunctionOnSet(rows, U)
    <3>1. x \notin U /\ rows[x] \in Int /\ \A z \in U : rows[z] \in Int
      BY <2>4
    <3> QED
      BY <2>1, <3>1, SumAdd
  <2>6. SumFunctionOnSet(rows, U) = SumFunctionOnSet(over(U), T)
    BY <1>2
  <2>7. SumFunctionOnSet(rows, U \cup {x}) = SumFunctionOnSet(over(U \cup {x}), T)
    <3> HIDE DEF over
    <3> QED
      BY <2>3, <2>5, <2>6
  <2> QED
    BY <2>7
<1>3. S \in P
  <2> HIDE DEF P
  <2> QED
    BY <1>1, <1>2, SubsetInduction
<1>4. SumFunctionOnSet(over(S), T) = SumFunctionOnSet(columns, T)
  <2>1. \A y \in T : over(S)[y] = columns[y]
    OBVIOUS
  <2> HIDE DEF over
  <2> QED
    BY <2>1, SumSame
<1> QED
  BY <1>3, <1>4

=============================================================================
