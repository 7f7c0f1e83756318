----------------------------- MODULE DataTheorems -----------------------------
(***************************************************************************)
(* Sums of the values of a finite set, as MapThenSumSet folds them: the    *)
(* library defines the fold by a recursive function on the subsets of the  *)
(* set.  That this function exists, and what it computes, is shown here by *)
(* taking a least subset for which the claim would fail.  So is a sum over *)
(* a family of disjoint sets, and the least element of a set of naturals.  *)
(***************************************************************************)
EXTENDS Integers, FiniteSets, FiniteSetsExt, FiniteSetTheorems, TLAPS

\* The sum of the values v of the elements of S.
SumOf(v, S) == MapThenSumSet(LAMBDA k : v[k], S)

\* The element the fold takes next.
Pick(s) == CHOOSE x \in s : TRUE

\* f is the function by which the fold over U is defined.
IsFold(f, v, U) ==
    f = [s \in SUBSET U |-> IF s = {} THEN 0 ELSE v[Pick(s)] + f[s \ {Pick(s)}]]

\* A nonempty collection of finite subsets has one that contains no other.
LEMMA LeastSubset ==
  ASSUME NEW S, IsFiniteSet(S), NEW Bad \in SUBSET SUBSET S, Bad # {}
  PROVE  \E m \in Bad : \A y \in Bad : y \subseteq m => y = m
  <1>1. IsWellFoundedOn(StrictSubsetOrdering(S), FiniteSubsetsOf(S))
    BY FS_StrictSubsetOrderingWellFounded
  <1>2. FiniteSubsetsOf(S) = SUBSET S
    BY FS_FiniteSubsetsOfFinite
  <1>3. PICK m \in Bad : \A y \in Bad : ~(<<y, m>> \in StrictSubsetOrdering(S))
    BY <1>1, <1>2, WFMin
  <1> QED BY <1>3 DEF StrictSubsetOrdering

LEMMA PickIn == ASSUME NEW S, S # {} PROVE Pick(S) \in S
  BY DEF Pick

\* The equation of the fold, argument by argument.
LEMMA FoldStep ==
  ASSUME NEW v, NEW U, NEW f, IsFold(f, v, U), NEW s \in SUBSET U
  PROVE  f[s] = IF s = {} THEN 0 ELSE v[Pick(s)] + f[s \ {Pick(s)}]
  BY DEF IsFold

\* Two such functions, perhaps over different sets and for values that only
\* agree there, agree on their common arguments.
LEMMA FoldUnique ==
  ASSUME NEW U, NEW W, IsFiniteSet(U), U \subseteq W, NEW v, NEW w,
         \A x \in U : v[x] = w[x],
         NEW f, IsFold(f, v, U), NEW g, IsFold(g, w, W)
  PROVE  \A s \in SUBSET U : f[s] = g[s]
  <1> DEFINE Bad == {s \in SUBSET U : f[s] # g[s]}
  <1> SUFFICES ASSUME Bad # {} PROVE FALSE
    OBVIOUS
  <1>1. PICK m \in Bad : \A y \in Bad : y \subseteq m => y = m
    <2>1. Bad \in SUBSET SUBSET U
      OBVIOUS
    <2> HIDE DEF Bad
    <2> QED BY <2>1, LeastSubset
  <1>2. /\ f[m] = IF m = {} THEN 0 ELSE v[Pick(m)] + f[m \ {Pick(m)}]
        /\ g[m] = IF m = {} THEN 0 ELSE w[Pick(m)] + g[m \ {Pick(m)}]
    <2>1. m \in SUBSET U /\ m \in SUBSET W
      OBVIOUS
    <2> HIDE DEF Bad
    <2>2. f[m] = IF m = {} THEN 0 ELSE v[Pick(m)] + f[m \ {Pick(m)}]
      BY <2>1, Zenon DEF IsFold
    <2>3. g[m] = IF m = {} THEN 0 ELSE w[Pick(m)] + g[m \ {Pick(m)}]
      BY <2>1, Zenon DEF IsFold
    <2> QED BY <2>2, <2>3
  <1>3. m # {}
    BY <1>2
  <1>4. Pick(m) \in m
    BY <1>3, PickIn
  <1>5. f[m \ {Pick(m)}] = g[m \ {Pick(m)}]
    <2>1. m \ {Pick(m)} # m /\ m \ {Pick(m)} \in SUBSET U
      BY <1>4
    <2> QED BY <1>1, <2>1
  <1>6. v[Pick(m)] = w[Pick(m)]
    BY <1>4
  <1> QED BY <1>2, <1>3, <1>5, <1>6

\* There is such a function over every finite set.
LEMMA FoldExists ==
  ASSUME NEW S, IsFiniteSet(S), NEW v PROVE \E f : IsFold(f, v, S)
  <1> DEFINE Bad == {U \in SUBSET S : ~ \E f : IsFold(f, v, U)}
             F(t) == CHOOSE f : IsFold(f, v, t)
  <1> SUFFICES ASSUME Bad # {} PROVE FALSE
    OBVIOUS
  <1>1. PICK m \in Bad : \A y \in Bad : y \subseteq m => y = m
    <2>1. Bad \in SUBSET SUBSET S
      OBVIOUS
    <2> HIDE DEF Bad
    <2> QED BY <2>1, LeastSubset
  <1>2. ASSUME NEW t \in SUBSET m, t # m PROVE IsFold(F(t), v, t)
    <2>1. t \notin Bad /\ t \in SUBSET S
      BY <1>1, <1>2
    <2>2. \E f : IsFold(f, v, t)
      BY <2>1
    <2> QED BY <2>2
  <1> HIDE DEF F
  <1> DEFINE rest(s) == s \ {Pick(s)}
             g == [s \in SUBSET m |->
                     IF s = {} THEN 0 ELSE v[Pick(s)] + F(rest(s))[rest(s)]]
  <1>3. ASSUME NEW s \in SUBSET m, s # {} PROVE g[rest(s)] = F(rest(s))[rest(s)]
    <2> DEFINE t == rest(s)
    <2>1. t \in SUBSET m /\ t # m
      BY <1>3, PickIn
    <2>2. IsFold(F(t), v, t) /\ t \in SUBSET t
      BY <1>2, <2>1
    <2>3. F(t)[t] = IF t = {} THEN 0 ELSE v[Pick(t)] + F(t)[rest(t)]
      <3> HIDE DEF t
      <3> QED BY <2>2, FoldStep
    <2>4. ASSUME t # {} PROVE F(t)[rest(t)] = F(rest(t))[rest(t)]
      <3>1. rest(t) \in SUBSET m /\ rest(t) # m /\ rest(t) \subseteq t
        BY <2>1
      <3>2. IsFold(F(rest(t)), v, rest(t))
        BY <1>2, <3>1
      <3>3. IsFiniteSet(rest(t))
        BY <3>1, FS_Subset
      <3>4. rest(t) \in SUBSET rest(t)
        OBVIOUS
      <3> HIDE DEF rest
      <3> QED BY <2>2, <3>1, <3>2, <3>3, <3>4, FoldUnique
    <2>5. g[t] = IF t = {} THEN 0 ELSE v[Pick(t)] + F(rest(t))[rest(t)]
      BY <2>1
    <2> QED BY <2>3, <2>4, <2>5
  <1>4. IsFold(g, v, m)
    BY <1>3 DEF IsFold
  <1> QED BY <1>1, <1>4

\* What MapThenSumSet of these values is.
LEMMA SumIsFold ==
  ASSUME NEW v, NEW S, IsFiniteSet(S)
  PROVE  \E f : IsFold(f, v, S) /\ SumOf(v, S) = f[S]
  <1>1. SumOf(v, S) = (CHOOSE f : IsFold(f, v, S))[S]
    BY DEF SumOf, MapThenSumSet, MapThenFoldSet, IsFold, Pick
  <1>2. IsFold(CHOOSE f : IsFold(f, v, S), v, S)
    BY FoldExists
  <1> QED BY <1>1, <1>2

----------------------------------------------------------------------------
(* What a sum is *)

\* No elements, no sum.
THEOREM SumOfNothing == ASSUME NEW v PROVE SumOf(v, {}) = 0
  <1>1. PICK f : IsFold(f, v, {}) /\ SumOf(v, {}) = f[{}]
    BY SumIsFold, FS_EmptySet
  <1> QED BY <1>1, FoldStep

LEMMA SumPicks ==
  ASSUME NEW v, NEW S, IsFiniteSet(S), S # {}
  PROVE  SumOf(v, S) = v[Pick(S)] + SumOf(v, S \ {Pick(S)})
  <1> DEFINE T == S \ {Pick(S)}
  <1>1. PICK f : IsFold(f, v, S) /\ SumOf(v, S) = f[S]
    BY SumIsFold
  <1>2. IsFiniteSet(T) /\ T \subseteq S
    BY FS_Subset
  <1>3. PICK g : IsFold(g, v, T) /\ SumOf(v, T) = g[T]
    BY <1>2, SumIsFold
  <1>4. g[T] = f[T]
    BY <1>1, <1>2, <1>3, FoldUnique
  <1>5. f[S] = v[Pick(S)] + f[T]
    BY <1>1, FoldStep
  <1> QED BY <1>1, <1>3, <1>4, <1>5

\* Values that agree on a set have the same sum over it.
THEOREM SumOfEqual ==
  ASSUME NEW S, IsFiniteSet(S), NEW v, NEW w, \A x \in S : v[x] = w[x]
  PROVE  SumOf(v, S) = SumOf(w, S)
  <1>1. PICK f : IsFold(f, v, S) /\ SumOf(v, S) = f[S]
    BY SumIsFold
  <1>2. PICK g : IsFold(g, w, S) /\ SumOf(w, S) = g[S]
    BY SumIsFold
  <1>3. S \subseteq S /\ S \in SUBSET S
    OBVIOUS
  <1>4. \A s \in SUBSET S : f[s] = g[s]
    BY <1>1, <1>2, <1>3, FoldUnique
  <1> QED BY <1>1, <1>2, <1>3, <1>4

\* The sum of integers is an integer, and of naturals a natural.
THEOREM SumOfType ==
  ASSUME NEW S, IsFiniteSet(S), NEW v, NEW N \in {Int, Nat}, \A x \in S : v[x] \in N
  PROVE  SumOf(v, S) \in N
  <1> DEFINE Bad == {U \in SUBSET S : SumOf(v, U) \notin N}
  <1> SUFFICES ASSUME Bad # {} PROVE FALSE
    OBVIOUS
  <1>1. PICK m \in Bad : \A y \in Bad : y \subseteq m => y = m
    <2>1. Bad \in SUBSET SUBSET S
      OBVIOUS
    <2> HIDE DEF Bad
    <2> QED BY <2>1, LeastSubset
  <1>2. m # {}
    BY SumOfNothing
  <1>3. SumOf(v, m) = v[Pick(m)] + SumOf(v, m \ {Pick(m)})
    BY <1>2, SumPicks, FS_Subset
  <1>4. Pick(m) \in m
    BY <1>2, PickIn
  <1>5. SumOf(v, m \ {Pick(m)}) \in N
    BY <1>1, <1>4
  <1>6. v[Pick(m)] \in N
    BY <1>4
  <1> QED BY <1>3, <1>5, <1>6

\* A sum is that of all its elements but one, and that one.
THEOREM SumOfRemove ==
  ASSUME NEW S, IsFiniteSet(S), NEW v, \A x \in S : v[x] \in Int, NEW x \in S
  PROVE  SumOf(v, S) = v[x] + SumOf(v, S \ {x})
  <1> DEFINE Bad == {U \in SUBSET S :
                       \E y \in U : SumOf(v, U) # v[y] + SumOf(v, U \ {y})}
  <1> SUFFICES ASSUME Bad # {} PROVE FALSE
    OBVIOUS
  <1>1. PICK m \in Bad : \A y \in Bad : y \subseteq m => y = m
    <2>1. Bad \in SUBSET SUBSET S
      OBVIOUS
    <2> HIDE DEF Bad
    <2> QED BY <2>1, LeastSubset
  <1>2. PICK y \in m : SumOf(v, m) # v[y] + SumOf(v, m \ {y})
    BY <1>1
  <1> DEFINE z == Pick(m)
  <1>3. z \in m /\ IsFiniteSet(m)
    BY PickIn, FS_Subset
  <1>4. SumOf(v, m) = v[z] + SumOf(v, m \ {z})
    BY <1>3, SumPicks
  <1>5. y # z
    BY <1>2, <1>4
  <1> HIDE DEF z
  <1>6. ASSUME NEW a \in m, NEW b \in m, a # b
        PROVE  SumOf(v, m \ {a}) = v[b] + SumOf(v, (m \ {a}) \ {b})
    <2>1. m \ {a} # m /\ b \in m \ {a} /\ m \ {a} \in SUBSET S
      BY <1>6
    <2>2. m \ {a} \notin Bad
      BY <1>1, <2>1
    <2> QED BY <2>1, <2>2
  <1>7. (m \ {y}) \ {z} = (m \ {z}) \ {y}
    OBVIOUS
  <1>8. SumOf(v, (m \ {y}) \ {z}) \in Int
    <2>1. (m \ {y}) \ {z} \subseteq S
      OBVIOUS
    <2> QED BY <2>1, FS_Subset, SumOfType
  <1>9. v[y] \in Int /\ v[z] \in Int
    BY <1>3
  <1> QED BY <1>2, <1>3, <1>4, <1>5, <1>6, <1>7, <1>8, <1>9

\* The sum over two sets that do not meet.
THEOREM SumOfUnion ==
  ASSUME NEW S, IsFiniteSet(S), NEW T, IsFiniteSet(T), S \cap T = {},
         NEW v, \A x \in S \cup T : v[x] \in Int
  PROVE  SumOf(v, S \cup T) = SumOf(v, S) + SumOf(v, T)
  <1> DEFINE Bad == {U \in SUBSET T : SumOf(v, S \cup U) # SumOf(v, S) + SumOf(v, U)}
  <1> SUFFICES ASSUME Bad # {} PROVE FALSE
    OBVIOUS
  <1>1. PICK m \in Bad : \A y \in Bad : y \subseteq m => y = m
    <2>1. Bad \in SUBSET SUBSET T
      OBVIOUS
    <2> HIDE DEF Bad
    <2> QED BY <2>1, LeastSubset
  <1>2. SumOf(v, S) \in Int
    BY SumOfType
  <1>3. m # {}
    <2>1. S \cup {} = S
      OBVIOUS
    <2>2. SumOf(v, S \cup {}) = SumOf(v, S) + SumOf(v, {})
      BY <1>2, <2>1, SumOfNothing
    <2> QED BY <2>2
  <1>4. PICK x \in m : TRUE
    BY <1>3
  <1> DEFINE r == m \ {x}
  <1>5. r \in SUBSET T /\ r # m /\ IsFiniteSet(m) /\ IsFiniteSet(r) /\ x \in T
    BY FS_Subset
  <1>6. SumOf(v, S \cup r) = SumOf(v, S) + SumOf(v, r)
    BY <1>1, <1>5
  <1>7. SumOf(v, m) = v[x] + SumOf(v, r)
    BY <1>5, SumOfRemove
  <1>8. SumOf(v, S \cup m) = v[x] + SumOf(v, S \cup r)
    <2>1. IsFiniteSet(S \cup m) /\ x \in S \cup m
      BY <1>5, FS_Union
    <2>2. (S \cup m) \ {x} = S \cup r
      BY <1>5
    <2>3. \A y \in S \cup m : v[y] \in Int
      OBVIOUS
    <2> HIDE DEF r
    <2> QED BY <2>1, <2>2, <2>3, SumOfRemove
  <1>9. SumOf(v, r) \in Int /\ v[x] \in Int
    BY <1>5, SumOfType
  <1> QED BY <1>2, <1>6, <1>7, <1>8, <1>9

\* The sum over a part of a set of naturals is no larger.
THEOREM SumOfSubset ==
  ASSUME NEW T, IsFiniteSet(T), NEW S \in SUBSET T, NEW v, \A x \in T : v[x] \in Nat
  PROVE  SumOf(v, S) <= SumOf(v, T)
  <1> DEFINE rest == T \ S
  <1>1. IsFiniteSet(S) /\ IsFiniteSet(rest)
    BY FS_Subset
  <1>2. S \cap rest = {} /\ S \cup rest = T /\ \A x \in S \cup rest : v[x] \in Int
    OBVIOUS
  <1>3. \A x \in S : v[x] \in Nat
    OBVIOUS
  <1>4. \A x \in rest : v[x] \in Nat
    OBVIOUS
  <1> HIDE DEF rest
  <1>5. SumOf(v, T) = SumOf(v, S) + SumOf(v, rest)
    BY <1>1, <1>2, SumOfUnion
  <1>6. SumOf(v, S) \in Nat
    BY <1>1, <1>3, SumOfType
  <1>7. SumOf(v, rest) \in Nat
    BY <1>1, <1>4, SumOfType
  <1> QED BY <1>5, <1>6, <1>7

\* A sum of differences is the difference of the sums.
THEOREM SumOfDifference ==
  ASSUME NEW S, IsFiniteSet(S), NEW v, NEW w, NEW d,
         \A x \in S : v[x] \in Int /\ w[x] \in Int /\ d[x] = v[x] - w[x]
  PROVE  SumOf(d, S) = SumOf(v, S) - SumOf(w, S)
  <1> DEFINE Bad == {U \in SUBSET S : SumOf(d, U) # SumOf(v, U) - SumOf(w, U)}
  <1> SUFFICES ASSUME Bad # {} PROVE FALSE
    OBVIOUS
  <1>1. PICK m \in Bad : \A y \in Bad : y \subseteq m => y = m
    <2>1. Bad \in SUBSET SUBSET S
      OBVIOUS
    <2> HIDE DEF Bad
    <2> QED BY <2>1, LeastSubset
  <1>2. m # {}
    <2>1. SumOf(d, {}) = 0 /\ SumOf(v, {}) = 0 /\ SumOf(w, {}) = 0
      BY SumOfNothing
    <2>2. SumOf(d, {}) = SumOf(v, {}) - SumOf(w, {})
      BY <2>1
    <2>3. SumOf(d, m) # SumOf(v, m) - SumOf(w, m)
      OBVIOUS
    <2> HIDE DEF Bad
    <2> QED BY <2>2, <2>3, Zenon
  <1>3. PICK x \in m : TRUE
    BY <1>2
  <1> DEFINE r == m \ {x}
  <1>4. r \in SUBSET S /\ r # m /\ IsFiniteSet(m) /\ IsFiniteSet(r)
    BY FS_Subset
  <1>5. SumOf(d, r) = SumOf(v, r) - SumOf(w, r)
    BY <1>1, <1>4
  <1>6. /\ \A y \in m : v[y] \in Int
        /\ \A y \in m : w[y] \in Int
        /\ \A y \in m : d[y] \in Int
    OBVIOUS
  <1>7. /\ SumOf(v, m) = v[x] + SumOf(v, r)
        /\ SumOf(w, m) = w[x] + SumOf(w, r)
        /\ SumOf(d, m) = d[x] + SumOf(d, r)
    BY <1>4, <1>6, SumOfRemove
  <1>8. SumOf(v, r) \in Int /\ SumOf(w, r) \in Int
    BY <1>4, <1>6, SumOfType
  <1> QED BY <1>5, <1>7, <1>8

\* A sum of smaller values is smaller.
THEOREM SumOfSmaller ==
  ASSUME NEW S, IsFiniteSet(S), NEW v, NEW w,
         \A x \in S : v[x] \in Int /\ w[x] \in Int /\ v[x] <= w[x]
  PROVE  SumOf(v, S) <= SumOf(w, S)
  <1> DEFINE d == [x \in S |-> w[x] - v[x]]
  <1>1. \A x \in S : d[x] \in Nat /\ d[x] = w[x] - v[x]
    OBVIOUS
  <1> HIDE DEF d
  <1>2. \A x \in S : w[x] \in Int /\ v[x] \in Int /\ d[x] = w[x] - v[x]
    BY <1>1
  <1>3. SumOf(d, S) = SumOf(w, S) - SumOf(v, S)
    BY <1>2, SumOfDifference
  <1>4. \A x \in S : d[x] \in Nat
    BY <1>1
  <1>5. SumOf(d, S) \in Nat
    BY <1>4, SumOfType
  <1>6. \A x \in S : v[x] \in Int
    OBVIOUS
  <1>7. \A x \in S : w[x] \in Int
    OBVIOUS
  <1>8. SumOf(v, S) \in Int /\ SumOf(w, S) \in Int
    BY <1>6, <1>7, SumOfType
  <1> QED BY <1>3, <1>5, <1>8

\* The elements of a family of sets.
UnionOf(F, T) == UNION {F[t] : t \in T}

LEMMA FiniteUnion ==
  ASSUME NEW T, IsFiniteSet(T), NEW F, \A t \in T : IsFiniteSet(F[t])
  PROVE  IsFiniteSet(UnionOf(F, T))
  <1> DEFINE Bad == {U \in SUBSET T : ~IsFiniteSet(UnionOf(F, U))}
  <1> SUFFICES ASSUME Bad # {} PROVE FALSE
    OBVIOUS
  <1>1. PICK m \in Bad : \A y \in Bad : y \subseteq m => y = m
    <2>1. Bad \in SUBSET SUBSET T
      OBVIOUS
    <2> HIDE DEF Bad
    <2> QED BY <2>1, LeastSubset
  <1>2. m # {}
    <2>1. UnionOf(F, {}) = {}
      BY DEF UnionOf
    <2> QED BY <2>1, FS_EmptySet
  <1>3. PICK x \in m : TRUE
    BY <1>2
  <1>4. IsFiniteSet(UnionOf(F, m \ {x}))
    BY <1>1, <1>3
  <1>5. UnionOf(F, m) = UnionOf(F, m \ {x}) \cup F[x]
    BY <1>3 DEF UnionOf
  <1> QED BY <1>3, <1>4, <1>5, FS_Union

\* The sum over a family of disjoint sets is the sum of their sums.
THEOREM SumOfSets ==
  ASSUME NEW T, IsFiniteSet(T), NEW F, \A t \in T : IsFiniteSet(F[t]),
         \A t, u \in T : t # u => F[t] \cap F[u] = {},
         NEW v, \A x \in UnionOf(F, T) : v[x] \in Int,
         NEW s, \A t \in T : s[t] = SumOf(v, F[t])
  PROVE  SumOf(s, T) = SumOf(v, UnionOf(F, T))
  <1> DEFINE Bad == {U \in SUBSET T : SumOf(s, U) # SumOf(v, UnionOf(F, U))}
  <1> SUFFICES ASSUME Bad # {} PROVE FALSE
    OBVIOUS
  <1>1. PICK m \in Bad : \A y \in Bad : y \subseteq m => y = m
    <2>1. Bad \in SUBSET SUBSET T
      OBVIOUS
    <2> HIDE DEF Bad
    <2> QED BY <2>1, LeastSubset
  <1>2. m # {}
    <2>1. UnionOf(F, {}) = {}
      BY DEF UnionOf
    <2> QED BY <2>1, SumOfNothing
  <1>3. PICK x \in m : TRUE
    BY <1>2
  <1> DEFINE r == m \ {x}
  <1>4. r \in SUBSET T /\ r # m /\ IsFiniteSet(m) /\ IsFiniteSet(r) /\ x \in T
    BY FS_Subset
  <1>5. SumOf(s, r) = SumOf(v, UnionOf(F, r))
    BY <1>1, <1>4
  <1>6. \A t \in m : s[t] \in Int
    <2> TAKE t \in m
    <2>1. IsFiniteSet(F[t]) /\ \A y \in F[t] : v[y] \in Int
      BY DEF UnionOf
    <2>2. SumOf(v, F[t]) \in Int
      BY <2>1, SumOfType
    <2> QED BY <2>2
  <1>7. SumOf(s, m) = s[x] + SumOf(s, r)
    BY <1>4, <1>6, SumOfRemove
  <1>8. UnionOf(F, m) = F[x] \cup UnionOf(F, r) /\ F[x] \cap UnionOf(F, r) = {}
    BY <1>4 DEF UnionOf
  <1>9. IsFiniteSet(UnionOf(F, r)) /\ IsFiniteSet(F[x])
    BY <1>4, FiniteUnion
  <1>10. \A y \in F[x] \cup UnionOf(F, r) : v[y] \in Int
    BY <1>4 DEF UnionOf
  <1> HIDE DEF r
  <1>11. SumOf(v, F[x] \cup UnionOf(F, r)) = SumOf(v, F[x]) + SumOf(v, UnionOf(F, r))
    BY <1>8, <1>9, <1>10, SumOfUnion
  <1> QED BY <1>4, <1>5, <1>7, <1>8, <1>11

\* A nonempty set of naturals has a least one.
LEMMA LeastNumber ==
  ASSUME NEW A \in SUBSET Nat, A # {}
  PROVE  \E i \in A : \A j \in A : i <= j
  <1>1. PICK n \in A : TRUE
    OBVIOUS
  <1> DEFINE Bad == {0..k : k \in {j \in A : j <= n}}
  <1> DEFINE T == 0..n
  <1>2. IsFiniteSet(T)
    BY FS_Interval
  <1>3. Bad \in SUBSET SUBSET T
    OBVIOUS
  <1>0. Bad # {}
    BY <1>1
  <1>4. PICK m \in Bad : \A y \in Bad : y \subseteq m => y = m
    <2> HIDE DEF Bad, T
    <2> QED BY <1>2, <1>3, <1>0, LeastSubset
  <1>5. PICK i \in A : i <= n /\ m = 0..i
    BY <1>4
  <1>6. ASSUME NEW j \in A, j < i PROVE FALSE
    <2>1. (0..j) \in Bad /\ (0..j) \subseteq 0..i /\ i \notin 0..j /\ i \in 0..i
      BY <1>5, <1>6
    <2> QED BY <1>4, <1>5, <2>1
  <1> QED BY <1>5, <1>6
=============================================================================
