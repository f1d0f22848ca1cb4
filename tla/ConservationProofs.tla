------------------------- MODULE ConservationProofs -------------------------
(***************************************************************************)
(* Proof that ShardMigration loses and duplicates nothing, for any finite  *)
(* number of IO threads and executors: every task sent is executed or      *)
(* queued in exactly one place, and the releases add up.                   *)
(***************************************************************************)
EXTENDS ShardMigrationProofs, FiniteSetTheorems, WellFoundedInduction

-----------------------------------------------------------------------------
(* Sums over the values of a function. *)

Less == {ss \in Nat \X Nat : ss[1] < ss[2]}

\* A set of naturals that is not empty has a least element: induction by least counterexample.
LEMMA LeastNatural ==
    ASSUME NEW T, T \subseteq Nat, T # {}
    PROVE  \E x \in T : \A y \in T : x <= y
<1>1. IsWellFoundedOn(Less, Nat)
  BY NatLessThanWellFounded DEF OpToRel, Less
<1>2. \A x, y \in Nat : y < x => <<y, x>> \in Less
  BY DEF Less
<1> HIDE DEF Less
<1>3. PICK x \in T : \A y \in T : ~(<<y, x>> \in Less)
  BY <1>1, WFMin
<1>4. ASSUME NEW y \in T PROVE x <= y
  <2>1. x \in Nat /\ y \in Nat
    OBVIOUS
  <2>2. ~(y < x)
    BY <1>2, <1>3, <2>1
  <2> QED BY <2>1, <2>2
<1> QED BY <1>4

-----------------------------------------------------------------------------
Pick(T) == CHOOSE x \in T : TRUE
Rest(T) == T \ {Pick(T)}

\* One unfolding of the sum of f over the subsets in S, from the sums in it.
Unfold(f, S, it) == [T \in S |-> IF T = {} THEN 0 ELSE f[Pick(T)] + it[Rest(T)]]
Total(f) == CHOOSE it : it = Unfold(f, SUBSET DOMAIN f, it)

\* SumFunction is the recursive function Total, applied to the whole domain.
LEMMA SumUnfolds ==
    ASSUME NEW f
    PROVE  SumFunction(f) = Total(f)[DOMAIN f]
BY Zenon DEF SumFunction, SumFunctionOnSet, FoldFunctionOnSet, MapThenFoldSet, Total, Unfold, Pick, Rest

\* Taking the chosen element from a finite set leaves a smaller one.
LEMMA RestIsSmaller ==
    ASSUME NEW T, IsFiniteSet(T), T # {}
    PROVE  /\ Pick(T) \in T /\ Rest(T) \subseteq T /\ IsFiniteSet(Rest(T))
           /\ Cardinality(T) \in Nat /\ Cardinality(Rest(T)) \in Nat
           /\ Cardinality(Rest(T)) = Cardinality(T) - 1
<1>1. Pick(T) \in T
  BY DEF Pick
<1>2. Cardinality(T) \in Nat
  BY FS_CardinalityType
<1>3. IsFiniteSet(Rest(T)) /\ Cardinality(Rest(T)) = Cardinality(T) - 1
  BY <1>1, FS_RemoveElement DEF Rest
<1>4. Cardinality(Rest(T)) \in Nat
  BY <1>3, FS_CardinalityType
<1> QED BY <1>1, <1>2, <1>3, <1>4 DEF Rest

\* The recursion that defines the sum of a function with a finite domain has a
\* solution: on the sets of at most n elements for every n.
LEMMA TotalExists ==
    ASSUME NEW f, IsFiniteSet(DOMAIN f)
    PROVE  Total(f) = Unfold(f, SUBSET DOMAIN f, Total(f))
<1> DEFINE D == DOMAIN f
           Small(n) == {T \in SUBSET D : Cardinality(T) <= n}
           Bad == {n \in Nat : ~ \E g : g = Unfold(f, Small(n), g)}
<1>1. \A T \in SUBSET D : IsFiniteSet(T) /\ Cardinality(T) \in Nat
  BY FS_Subset, FS_CardinalityType
<1>2. Bad = {}
  <2>1. SUFFICES ASSUME Bad # {} PROVE FALSE
    OBVIOUS
  <2>2. PICK n \in Bad : \A m \in Bad : n <= m
    <3>1. Bad \subseteq Nat
      OBVIOUS
    <3> HIDE DEF Bad
    <3> QED BY <2>1, <3>1, LeastNatural
  <2>3. n \in Nat /\ ~ \E g : g = Unfold(f, Small(n), g)
    OBVIOUS
  <2>4. CASE n = 0
    <3> DEFINE g == [T \in Small(0) |-> 0]
    <3>1. \A T \in Small(0) : T = {}
      <4>1. \A T \in Small(0) : Cardinality(T) = 0
        BY <1>1
      <4> QED BY <1>1, <4>1, FS_EmptySet
    <3>2. g = Unfold(f, Small(0), g)
      <4> HIDE DEF Small
      <4> QED BY <3>1 DEF Unfold
    <3> QED BY <2>3, <2>4, <3>2
  <2>5. CASE n # 0
    <3>1. n - 1 \in Nat /\ n - 1 \notin Bad
      <4> HIDE DEF Bad
      <4> QED BY <2>2, <2>3, <2>5
    <3>2. PICK g : g = Unfold(f, Small(n - 1), g)
      BY <3>1, Zenon
    <3> DEFINE h == Unfold(f, Small(n), g)
    <3>3. ASSUME NEW T \in Small(n), T # {} PROVE h[Rest(T)] = g[Rest(T)]
      <4>1. Rest(T) \in Small(n - 1) /\ Rest(T) \in Small(n)
        BY <1>1, <2>3, <3>3, RestIsSmaller
      <4> DEFINE v == IF Rest(T) = {} THEN 0 ELSE f[Pick(Rest(T))] + g[Rest(Rest(T))]
      <4>2. g[Rest(T)] = v
        <5> HIDE DEF Small
        <5> QED BY <3>2, <4>1, Zenon DEF Unfold
      <4>3. h[Rest(T)] = v
        <5> HIDE DEF Small
        <5> QED BY <4>1, Zenon DEF Unfold
      <4> HIDE DEF h, v, Small
      <4> QED BY <4>2, <4>3, Zenon
    <3>4. h = Unfold(f, Small(n), h)
      <4>1. ASSUME NEW T \in Small(n)
            PROVE  (IF T = {} THEN 0 ELSE f[Pick(T)] + g[Rest(T)])
                     = (IF T = {} THEN 0 ELSE f[Pick(T)] + h[Rest(T)])
        <5>1. CASE T = {}
          BY <5>1, Zenon
        <5>2. CASE T # {}
          <6>1. h[Rest(T)] = g[Rest(T)]
            BY <3>3, <5>2, Zenon
          <6> HIDE DEF h, Small
          <6> QED BY <6>1, Zenon
        <5> QED BY <5>1, <5>2, Zenon
      <4>2. h = [T \in Small(n) |-> IF T = {} THEN 0 ELSE f[Pick(T)] + g[Rest(T)]]
        BY Zenon DEF Unfold
      <4> HIDE DEF h, Small
      <4> QED BY <4>1, <4>2, Zenon DEF Unfold
    <3> HIDE DEF h, Small
    <3> QED BY <2>3, <3>4, Zenon
  <2> QED BY <2>4, <2>5
<1>3. Cardinality(D) \in Nat
  BY FS_CardinalityType
<1>4. SUBSET D = Small(Cardinality(D))
  BY FS_Subset
<1>5. \E g : g = Unfold(f, Small(Cardinality(D)), g)
  <2> HIDE DEF Small
  <2> QED BY <1>2, <1>3, Zenon
<1>6. \E g : g = Unfold(f, SUBSET D, g)
  <2> HIDE DEF Small, D
  <2> QED BY <1>4, <1>5, Zenon
<1> QED BY <1>6, Zenon DEF Total

\* The sums over the subsets of the domain, one element at a time.
LEMMA TotalOf ==
    ASSUME NEW f, IsFiniteSet(DOMAIN f)
    PROVE  /\ Total(f)[{}] = 0
           /\ \A T \in SUBSET DOMAIN f :
                 T # {} => Total(f)[T] = f[Pick(T)] + Total(f)[Rest(T)]
<1> DEFINE it == Total(f)
<1>1. it = Unfold(f, SUBSET DOMAIN f, it)
  BY TotalExists, Zenon
<1> HIDE DEF it
<1>2. \A T \in SUBSET DOMAIN f :
          it[T] = IF T = {} THEN 0 ELSE f[Pick(T)] + it[Rest(T)]
  BY <1>1, Zenon DEF Unfold
<1>3. {} \in SUBSET DOMAIN f
  OBVIOUS
<1> QED BY <1>2, <1>3, Zenon DEF it

\* The functions f and g on D differ in one value at most.
SameBut(D, f, g, a) == \A x \in D \ {a} : g[x] = f[x]

\* Changing one value of a function changes its sum by the difference.
LEMMA SumUpdate ==
    ASSUME NEW D, IsFiniteSet(D), NEW f \in [D -> Int], NEW g \in [D -> Int], NEW a \in D,
           SameBut(D, f, g, a)
    PROVE  SumFunction(f) \in Int /\ SumFunction(g) = SumFunction(f) - f[a] + g[a]
<1> DEFINE F == Total(f)
           G == Total(g)
           Fine(T) == F[T] \in Int /\ G[T] = F[T] + IF a \in T THEN g[a] - f[a] ELSE 0
           Bad == {Cardinality(T) : T \in {T \in SUBSET D : ~ Fine(T)}}
<1>1. \A T \in SUBSET D : IsFiniteSet(T) /\ Cardinality(T) \in Nat
  BY FS_Subset, FS_CardinalityType
<1>2. /\ F[{}] = 0 /\ G[{}] = 0
      /\ \A T \in SUBSET D : T # {} => /\ F[T] = f[Pick(T)] + F[Rest(T)]
                                       /\ G[T] = g[Pick(T)] + G[Rest(T)]
  BY TotalOf, Zenon
<1> HIDE DEF F, G
<1>3. Bad = {}
  <2>1. SUFFICES ASSUME Bad # {} PROVE FALSE
    OBVIOUS
  <2>2. PICK n \in Bad : \A m \in Bad : n <= m
    <3>1. Bad \subseteq Nat
      BY <1>1
    <3> HIDE DEF Bad
    <3> QED BY <2>1, <3>1, LeastNatural
  <2>3. PICK T \in SUBSET D : n = Cardinality(T) /\ ~ Fine(T)
    BY <2>2, Zenon
  <2>4. T # {}
    <3>1. Fine({})
      <4>1. F[{}] = 0 /\ G[{}] = 0 /\ a \notin {}
        BY <1>2
      <4> QED BY <4>1
    <3> HIDE DEF Fine
    <3> QED BY <2>3, <3>1, Zenon
  <2>5. /\ Pick(T) \in T /\ Rest(T) \in SUBSET D
        /\ Cardinality(T) \in Nat /\ Cardinality(Rest(T)) = Cardinality(T) - 1
        /\ Cardinality(Rest(T)) \in Nat
    BY <1>1, <2>4, RestIsSmaller
  <2>6. Fine(Rest(T))
    <3>1. ~ Fine(Rest(T)) => Cardinality(Rest(T)) \in Bad
      BY <2>5, Zenon
    <3>2. Cardinality(Rest(T)) \in Bad => n <= Cardinality(Rest(T))
      BY <2>2, Zenon
    <3> HIDE DEF Bad, Fine
    <3> QED BY <2>3, <2>5, <3>1, <3>2
  <2>7. a \in Rest(T) <=> a \in T /\ a # Pick(T)
    BY DEF Rest
  <2>8. F[T] = f[Pick(T)] + F[Rest(T)] /\ G[T] = g[Pick(T)] + G[Rest(T)]
    BY <1>2, <2>4, Zenon
  <2>9. Pick(T) \in D /\ f[Pick(T)] \in Int /\ g[Pick(T)] \in Int /\ f[a] \in Int /\ g[a] \in Int
    BY <2>5
  <2>10. CASE a = Pick(T)
    BY <2>3, <2>5, <2>6, <2>7, <2>8, <2>9, <2>10
  <2>11. CASE a # Pick(T)
    <3>1. g[Pick(T)] = f[Pick(T)]
      BY <2>9, <2>11 DEF SameBut
    <3> QED BY <2>3, <2>6, <2>7, <2>8, <2>9, <2>11, <3>1
  <2> QED BY <2>10, <2>11
<1>4. Fine(D)
  <2>1. D \in SUBSET D
    OBVIOUS
  <2> HIDE DEF Fine
  <2> QED BY <1>3, <2>1, Zenon
<1>5. SumFunction(f) = F[D] /\ SumFunction(g) = G[D]
  <2>1. DOMAIN f = D /\ DOMAIN g = D
    OBVIOUS
  <2> QED BY <2>1, SumUnfolds, Zenon DEF F, G
<1>6. f[a] \in Int /\ g[a] \in Int
  OBVIOUS
<1> QED BY <1>4, <1>5, <1>6

\* The sum of a function that is zero everywhere.
LEMMA SumZero ==
    ASSUME NEW D, IsFiniteSet(D), NEW f, DOMAIN f = D, \A x \in D : f[x] = 0
    PROVE  SumFunction(f) = 0
<1> DEFINE F == Total(f)
           Bad == {Cardinality(T) : T \in {T \in SUBSET D : F[T] # 0}}
<1>1. \A T \in SUBSET D : IsFiniteSet(T) /\ Cardinality(T) \in Nat
  BY FS_Subset, FS_CardinalityType
<1>2. F[{}] = 0 /\ \A T \in SUBSET D : T # {} => F[T] = f[Pick(T)] + F[Rest(T)]
  BY TotalOf, Zenon
<1> HIDE DEF F
<1>3. Bad = {}
  <2>1. SUFFICES ASSUME Bad # {} PROVE FALSE
    OBVIOUS
  <2>2. PICK n \in Bad : \A m \in Bad : n <= m
    <3>1. Bad \subseteq Nat
      BY <1>1
    <3> HIDE DEF Bad
    <3> QED BY <2>1, <3>1, LeastNatural
  <2>3. PICK T \in SUBSET D : n = Cardinality(T) /\ F[T] # 0
    BY <2>2, Zenon
  <2>4. T # {}
    BY <1>2, <2>3, Zenon
  <2>5. /\ Pick(T) \in T /\ Rest(T) \in SUBSET D
        /\ Cardinality(T) \in Nat /\ Cardinality(Rest(T)) = Cardinality(T) - 1
        /\ Cardinality(Rest(T)) \in Nat
    BY <1>1, <2>4, RestIsSmaller
  <2>6. F[Rest(T)] = 0
    <3>1. F[Rest(T)] # 0 => Cardinality(Rest(T)) \in Bad
      BY <2>5, Zenon
    <3>2. Cardinality(Rest(T)) \in Bad => n <= Cardinality(Rest(T))
      BY <2>2, Zenon
    <3> HIDE DEF Bad
    <3> QED BY <2>3, <2>5, <3>1, <3>2
  <2> QED BY <1>2, <2>3, <2>4, <2>5, <2>6
<1>4. F[D] = 0
  BY <1>3
<1> QED BY <1>4, SumUnfolds, Zenon DEF F

-----------------------------------------------------------------------------
(* Tables of queues. *)

\* In the table Q of queues every member of pend is queued, in one place, and
\* nothing else is.
Only(P, E, Q, pend) == \A p \in P, e \in E : \A j \in 1..Len(Q[p][e]) : Q[p][e][j] \in pend
Distinct(Q, p, e, q, f) ==
    \A j \in 1..Len(Q[p][e]), k \in 1..Len(Q[q][f]) :
        Q[p][e][j] = Q[q][f][k] => p = q /\ e = f /\ j = k
Apart(P, E, Q) == \A p \in P, e \in E, q \in P, f \in E : Distinct(Q, p, e, q, f)
Found(P, E, Q, t) == \E p \in P, e \in E : \E j \in 1..Len(Q[p][e]) : Q[p][e][j] = t

Once(P, E, Q, pend) ==
    Only(P, E, Q, pend) /\ Apart(P, E, Q) /\ \A t \in pend : Found(P, E, Q, t)

\* The tables Q and R differ in one queue at most.
Elsewhere(P, E, Q, R, a, b) == \A p \in P, e \in E : p # a \/ e # b => R[p][e] = Q[p][e]

\* Taking the first element of a queue leaves the others, once each.
LEMMA TakeOnce ==
    ASSUME NEW V, NEW P, NEW E, NEW Q \in [P -> [E -> Seq(V)]], NEW R \in [P -> [E -> Seq(V)]],
           NEW pend, Once(P, E, Q, pend), NEW a \in P, NEW b \in E, Q[a][b] # <<>>,
           R[a][b] = Tail(Q[a][b]), Elsewhere(P, E, Q, R, a, b)
    PROVE  Once(P, E, R, pend \ {Head(Q[a][b])}) /\ Head(Q[a][b]) \in pend
<1> DEFINE t == Head(Q[a][b])
<1>1. Q[a][b] \in Seq(V)
  BY Zenon
<1>2. \A j \in 1..Len(R[a][b]) : j + 1 \in 1..Len(Q[a][b]) /\ R[a][b][j] = Q[a][b][j + 1]
  BY <1>1
<1>3. /\ 1 \in 1..Len(Q[a][b]) /\ t = Q[a][b][1]
      /\ \A k \in 1..Len(Q[a][b]) : k # 1 => k - 1 \in 1..Len(R[a][b]) /\ R[a][b][k - 1] = Q[a][b][k]
  BY <1>1
<1> HIDE DEF t
<1> DEFINE was(p, e, j) == IF p = a /\ e = b THEN j + 1 ELSE j
<1>4. ASSUME NEW p \in P, NEW e \in E, NEW j \in 1..Len(R[p][e])
      PROVE  was(p, e, j) \in 1..Len(Q[p][e]) /\ R[p][e][j] = Q[p][e][was(p, e, j)]
  <2>1. CASE p = a /\ e = b
    BY <1>2, <2>1
  <2>2. CASE p # a \/ e # b
    BY <2>2 DEF Elsewhere
  <2> QED BY <2>1, <2>2
<1>5. Only(P, E, R, pend \ {t})
  <2> SUFFICES ASSUME NEW p \in P, NEW e \in E, NEW j \in 1..Len(R[p][e])
               PROVE  R[p][e][j] \in pend \ {t}
    BY Zenon DEF Only
  <2> DEFINE k == was(p, e, j)
  <2>1. k \in 1..Len(Q[p][e]) /\ R[p][e][j] = Q[p][e][k]
    BY <1>4, Zenon
  <2>2. j \in Nat /\ j # 0 /\ (k = 1 => ~(p = a /\ e = b))
    BY <1>1
  <2> HIDE DEF k, was
  <2>3. R[p][e][j] \in pend
    BY <2>1, Zenon DEF Once, Only
  <2>4. R[p][e][j] # t
    <3>1. Distinct(Q, p, e, a, b)
      BY Zenon DEF Once, Apart
    <3> QED BY <1>3, <2>1, <2>2, <3>1, Zenon DEF Distinct
  <2> QED BY <2>3, <2>4, Zenon
<1>6. Apart(P, E, R)
  <2> SUFFICES ASSUME NEW p \in P, NEW e \in E, NEW q \in P, NEW f \in E
               PROVE  Distinct(R, p, e, q, f)
    BY Zenon DEF Apart
  <2> SUFFICES ASSUME NEW j \in 1..Len(R[p][e]), NEW k \in 1..Len(R[q][f]),
                      R[p][e][j] = R[q][f][k]
               PROVE  p = q /\ e = f /\ j = k
    BY Zenon DEF Distinct
  <2> DEFINE x == was(p, e, j)
             y == was(q, f, k)
  <2>1. x \in 1..Len(Q[p][e]) /\ R[p][e][j] = Q[p][e][x]
    BY <1>4, Zenon
  <2>2. y \in 1..Len(Q[q][f]) /\ R[q][f][k] = Q[q][f][y]
    BY <1>4, Zenon
  <2>3. j \in Int /\ k \in Int /\ (p = q /\ e = f /\ x = y => j = k)
    OBVIOUS
  <2> HIDE DEF x, y, was
  <2>4. p = q /\ e = f /\ x = y
    <3>1. x \in 1..Len(Q[p][e]) /\ y \in 1..Len(Q[q][f]) /\ Q[p][e][x] = Q[q][f][y]
      BY <2>1, <2>2, Zenon
    <3>2. Distinct(Q, p, e, q, f)
      BY Zenon DEF Once, Apart
    <3> QED BY <3>1, <3>2, Zenon DEF Distinct
  <2> QED BY <2>3, <2>4, Zenon
<1>7. ASSUME NEW u \in pend \ {t}
      PROVE  Found(P, E, R, u)
  <2>1. PICK p \in P, e \in E : \E k \in 1..Len(Q[p][e]) : Q[p][e][k] = u
    BY Zenon DEF Once, Found
  <2>2. PICK k \in 1..Len(Q[p][e]) : Q[p][e][k] = u
    BY <2>1, Zenon
  <2>3. CASE p = a /\ e = b
    <3>1. k # 1
      BY <1>3, <2>2, <2>3, Zenon
    <3>2. k - 1 \in 1..Len(R[a][b]) /\ R[a][b][k - 1] = u
      BY <1>3, <2>2, <2>3, <3>1, Zenon
    <3> QED BY <3>2, Zenon DEF Found
  <2>4. CASE p # a \/ e # b
    BY <2>2, <2>4, Zenon DEF Found, Elsewhere
  <2> QED BY <2>3, <2>4, Zenon
<1>8. t \in pend
  BY <1>3, Zenon DEF Once, Only
<1> QED BY <1>5, <1>6, <1>7, <1>8, Zenon DEF t, Once

\* Appending a new element to a queue adds it, once, to the elements queued.
LEMMA PutOnce ==
    ASSUME NEW V, NEW P, NEW E, NEW Q \in [P -> [E -> Seq(V)]], NEW R \in [P -> [E -> Seq(V)]],
           NEW pend, Once(P, E, Q, pend), NEW a \in P, NEW b \in E, NEW t \in V, t \notin pend,
           R[a][b] = Append(Q[a][b], t), Elsewhere(P, E, Q, R, a, b)
    PROVE  Once(P, E, R, pend \cup {t})
<1> DEFINE last == Len(Q[a][b]) + 1
<1>1. Q[a][b] \in Seq(V)
  BY Zenon
<1>2. /\ last \in 1..Len(R[a][b]) /\ R[a][b][last] = t
      /\ \A j \in 1..Len(R[a][b]) : j # last => j \in 1..Len(Q[a][b]) /\ R[a][b][j] = Q[a][b][j]
      /\ \A j \in 1..Len(Q[a][b]) : j \in 1..Len(R[a][b]) /\ R[a][b][j] = Q[a][b][j]
  BY <1>1
<1> HIDE DEF last
<1>3. ASSUME NEW p \in P, NEW e \in E, NEW j \in 1..Len(R[p][e])
      PROVE  \/ p = a /\ e = b /\ j = last /\ R[p][e][j] = t
             \/ j \in 1..Len(Q[p][e]) /\ R[p][e][j] = Q[p][e][j] /\ Q[p][e][j] \in pend
  <2>1. CASE p = a /\ e = b
    BY <1>2, <2>1, Zenon DEF Once, Only
  <2>2. CASE p # a \/ e # b
    <3>1. R[p][e] = Q[p][e]
      BY <2>2, Zenon DEF Elsewhere
    <3> QED BY <3>1, Zenon DEF Once, Only
  <2> QED BY <2>1, <2>2, Zenon
<1>4. Apart(P, E, R)
  <2> SUFFICES ASSUME NEW p \in P, NEW e \in E, NEW q \in P, NEW f \in E
               PROVE  Distinct(R, p, e, q, f)
    BY Zenon DEF Apart
  <2> SUFFICES ASSUME NEW j \in 1..Len(R[p][e]), NEW k \in 1..Len(R[q][f]),
                      R[p][e][j] = R[q][f][k]
               PROVE  p = q /\ e = f /\ j = k
    BY Zenon DEF Distinct
  <2>1. \/ p = a /\ e = b /\ j = last /\ R[p][e][j] = t
        \/ j \in 1..Len(Q[p][e]) /\ R[p][e][j] = Q[p][e][j] /\ Q[p][e][j] \in pend
    BY <1>3, Zenon
  <2>2. \/ q = a /\ f = b /\ k = last /\ R[q][f][k] = t
        \/ k \in 1..Len(Q[q][f]) /\ R[q][f][k] = Q[q][f][k] /\ Q[q][f][k] \in pend
    BY <1>3, Zenon
  <2>3. CASE R[p][e][j] = t
    BY <2>1, <2>2, <2>3, Zenon
  <2>4. CASE R[p][e][j] # t
    <3>1. j \in 1..Len(Q[p][e]) /\ k \in 1..Len(Q[q][f]) /\ Q[p][e][j] = Q[q][f][k]
      BY <2>1, <2>2, <2>4, Zenon
    <3>2. Distinct(Q, p, e, q, f)
      BY Zenon DEF Once, Apart
    <3> QED BY <3>1, <3>2, Zenon DEF Distinct
  <2> QED BY <2>3, <2>4
<1>5. ASSUME NEW u \in pend \cup {t}
      PROVE  Found(P, E, R, u)
  <2>1. CASE u = t
    BY <1>2, <2>1, Zenon DEF Found
  <2>2. CASE u \in pend
    <3>1. PICK p \in P, e \in E : \E k \in 1..Len(Q[p][e]) : Q[p][e][k] = u
      BY <2>2, Zenon DEF Once, Found
    <3>2. PICK k \in 1..Len(Q[p][e]) : Q[p][e][k] = u
      BY <3>1, Zenon
    <3>3. k \in 1..Len(R[p][e]) /\ R[p][e][k] = u
      BY <1>2, <3>2, Zenon DEF Elsewhere
    <3> QED BY <3>3, Zenon DEF Found
  <2> QED BY <2>1, <2>2, Zenon
<1>6. Only(P, E, R, pend \cup {t})
  BY <1>3, Zenon DEF Only
<1> QED BY <1>4, <1>5, <1>6, Zenon DEF Once

\* Moving the first element of a queue to the end of another keeps the elements.
LEMMA MoveOnce ==
    ASSUME NEW V, NEW P, NEW E, NEW Q \in [P -> [E -> Seq(V)]], NEW M \in [P -> [E -> Seq(V)]],
           NEW R \in [P -> [E -> Seq(V)]], NEW pend, Once(P, E, Q, pend),
           NEW a \in P, NEW b \in E, Q[a][b] # <<>>,
           M[a][b] = Tail(Q[a][b]), Elsewhere(P, E, Q, M, a, b),
           NEW c \in P, NEW d \in E,
           R[c][d] = Append(M[c][d], Head(Q[a][b])), Elsewhere(P, E, M, R, c, d)
    PROVE  Once(P, E, R, pend)
<1> DEFINE t == Head(Q[a][b])
           rest == pend \ {t}
<1>1. t \in V
  <2>1. Q[a][b] \in Seq(V)
    BY Zenon
  <2> QED BY <2>1
<1>2. t \in pend /\ Once(P, E, M, rest)
  BY TakeOnce, Zenon
<1>3. t \notin rest /\ rest \cup {t} = pend
  BY <1>2
<1> HIDE DEF t, rest
<1>4. R[c][d] = Append(M[c][d], t)
  BY Zenon DEF t
<1>5. Once(P, E, R, rest \cup {t})
  BY <1>1, <1>2, <1>3, <1>4, PutOnce, Zenon
<1> QED BY <1>3, <1>5, Zenon

-----------------------------------------------------------------------------
(* The invariant. *)

\* The tasks that wait to be forwarded are a row of the table, of no thread.
NoThread == CHOOSE x : x \notin Threads
Producers == Threads \cup {NoThread}
Merge(lanes, waits) == [p \in Producers |-> IF p \in Threads THEN lanes[p] ELSE waits]

SentTasks == {t \in Tasks : t.n \in 1..sent[t.io][t.shard]}

TasksKept ==
    /\ executed \subseteq SentTasks
    /\ Once(Producers, Executors, Merge(lane, stale), SentTasks \ executed)

Lengths(table) == [pe \in Threads \X Executors |-> Len(table[pe[1]][pe[2]])]
WaitLengths(waits) == [e \in Executors |-> Len(waits[e])]

ReleasesKept ==
    SumFunction(borrows) + applied + SumFunction(Lengths(release))
        + SumFunction(WaitLengths(staleRel)) = SumFunction(MaxReleases)

Kept == TasksKept /\ ReleasesKept

-----------------------------------------------------------------------------
(* Tasks. *)

\* The row of the waiting tasks is apart from the rows of the threads.
LEMMA NoThreadIsApart == NoThread \notin Threads /\ NoThread \in Producers
<1>1. \E x : x \notin Threads
  BY NoSetContainsEverything, Zenon
<1> QED BY <1>1, Zenon DEF NoThread, Producers

\* Changing one lane changes one queue of the merged table.
LEMMA MergeLane ==
    ASSUME NEW l \in [Threads -> [Executors -> Seq(Tasks)]], NEW w \in [Executors -> Seq(Tasks)],
           NEW m \in [Threads -> [Executors -> Seq(Tasks)]], NEW p \in Threads, NEW e \in Executors,
           Elsewhere(Threads, Executors, l, m, p, e)
    PROVE  /\ p \in Producers /\ Merge(l, w)[p][e] = l[p][e] /\ Merge(m, w)[p][e] = m[p][e]
           /\ Elsewhere(Producers, Executors, Merge(l, w), Merge(m, w), p, e)
<1>1. p \in Producers
  BY Zenon DEF Producers
<1>2. Merge(l, w)[p][e] = l[p][e] /\ Merge(m, w)[p][e] = m[p][e]
  BY <1>1, Zenon DEF Merge
<1>3. ASSUME NEW q \in Producers, NEW f \in Executors, q # p \/ f # e
      PROVE  Merge(m, w)[q][f] = Merge(l, w)[q][f]
  <2>1. CASE q \in Threads
    BY <1>3, <2>1, Zenon DEF Merge, Elsewhere
  <2>2. CASE q \notin Threads
    BY <2>2, Zenon DEF Merge
  <2> QED BY <2>1, <2>2, Zenon
<1> QED BY <1>1, <1>2, <1>3, Zenon DEF Elsewhere

\* Changing one list of waiting tasks changes one queue of the merged table.
LEMMA MergeWait ==
    ASSUME NEW l \in [Threads -> [Executors -> Seq(Tasks)]], NEW w \in [Executors -> Seq(Tasks)],
           NEW x \in [Executors -> Seq(Tasks)], NEW e \in Executors,
           \A f \in Executors \ {e} : x[f] = w[f]
    PROVE  /\ NoThread \in Producers
           /\ Merge(l, w)[NoThread][e] = w[e] /\ Merge(l, x)[NoThread][e] = x[e]
           /\ Elsewhere(Producers, Executors, Merge(l, w), Merge(l, x), NoThread, e)
<1>1. NoThread \notin Threads /\ NoThread \in Producers
  BY NoThreadIsApart
<1>2. Merge(l, w)[NoThread][e] = w[e] /\ Merge(l, x)[NoThread][e] = x[e]
  BY <1>1, Zenon DEF Merge
<1>3. ASSUME NEW q \in Producers, NEW f \in Executors, q # NoThread \/ f # e
      PROVE  Merge(l, x)[q][f] = Merge(l, w)[q][f]
  <2>1. CASE q \in Threads
    BY <2>1, Zenon DEF Merge
  <2>2. CASE q = NoThread
    <3>1. x[f] = w[f]
      BY <1>3, <2>2, Zenon
    <3> QED BY <1>1, <2>2, <3>1, Zenon DEF Merge
  <2> QED BY <2>1, <2>2, Zenon DEF Producers
<1> QED BY <1>1, <1>2, <1>3, Zenon DEF Elsewhere

\* A table with one queue replaced.
LEMMA TableSet ==
    ASSUME NEW V, NEW P, NEW E, NEW l \in [P -> [E -> Seq(V)]], NEW p \in P, NEW e \in E,
           NEW v \in Seq(V)
    PROVE  /\ [l EXCEPT ![p][e] = v] \in [P -> [E -> Seq(V)]]
           /\ [l EXCEPT ![p][e] = v][p][e] = v
           /\ Elsewhere(P, E, l, [l EXCEPT ![p][e] = v], p, e)
<1> DEFINE m == [l EXCEPT ![p][e] = v]
<1>1. m \in [P -> [E -> Seq(V)]]
  BY Zenon
<1>2. m[p][e] = v /\ \A q \in P, f \in E : q # p \/ f # e => m[q][f] = l[q][f]
  OBVIOUS
<1> QED BY <1>1, <1>2, Zenon DEF Elsewhere

\* The merged table is a table.
LEMMA MergeIsTable ==
    ASSUME NEW l \in [Threads -> [Executors -> Seq(Tasks)]], NEW w \in [Executors -> Seq(Tasks)]
    PROVE  Merge(l, w) \in [Producers -> [Executors -> Seq(Tasks)]]
<1>1. ASSUME NEW p \in Producers
      PROVE  (IF p \in Threads THEN l[p] ELSE w) \in [Executors -> Seq(Tasks)]
  <2>1. CASE p \in Threads
    BY <2>1, Zenon
  <2>2. CASE p \notin Threads
    BY <2>2, Zenon
  <2> QED BY <2>1, <2>2, Zenon
<1> QED BY <1>1, Zenon DEF Merge

\* A posted task is new, and is queued once.
LEMMA PostKeepsTasks ==
    ASSUME Types, TasksKept, NEW i \in IOs, PostTask(i)
    PROVE  TasksKept'
<1> DEFINE s == io[i].shard
           e == io[i].target
           t == Task(i, s, sent[i][s] + 1)
<1>1. /\ s \in Shards /\ e \in Executors /\ i \in Threads
      /\ lane \in [Threads -> [Executors -> Seq(Tasks)]] /\ stale \in [Executors -> Seq(Tasks)]
      /\ sent \in [IOs -> [Shards -> Nat]]
  BY Zenon DEF PostTask, Types, IoTypes, TaskTypes, Threads
<1>2. \/ UNCHANGED <<lane, sent>>
      \/ /\ lane' = [lane EXCEPT ![i][e] = Append(@, t)]
         /\ sent' = [sent EXCEPT ![i][s] = @ + 1]
  BY Zenon DEF PostTask
<1>3. UNCHANGED <<stale, executed>>
  BY Zenon DEF PostTask
<1>4. sent[i][s] \in Nat /\ lane[i][e] \in Seq(Tasks)
  BY <1>1, Zenon
<1>5. t \in Tasks /\ t.io = i /\ t.shard = s /\ t.n = sent[i][s] + 1
  BY <1>1, <1>4 DEF Task, Tasks
<1>6. \A u \in Tasks : u.io \in IOs /\ u.shard \in Shards /\ u.n \in Nat
                       /\ (u.io = i /\ u.shard = s /\ u.n = sent[i][s] + 1 => u = t)
  BY <1>5 DEF Task, Tasks
<1> HIDE DEF s, e, t
<1>7. CASE UNCHANGED <<lane, sent>>
  BY <1>3, <1>7, Zenon DEF TasksKept, SentTasks, Merge
<1>8. CASE /\ lane' = [lane EXCEPT ![i][e] = Append(@, t)]
           /\ sent' = [sent EXCEPT ![i][s] = @ + 1]
  <2>1. t \notin SentTasks
    BY <1>4, <1>5 DEF SentTasks
  <2>2. SentTasks' = SentTasks \cup {t}
    <3>1. ASSUME NEW u \in Tasks
          PROVE  u.n \in 1..sent'[u.io][u.shard] <=> u.n \in 1..sent[u.io][u.shard] \/ u = t
      <4>1. u.io \in IOs /\ u.shard \in Shards /\ u.n \in Nat
        BY <1>6, Zenon
      <4>2. CASE u.io = i /\ u.shard = s
        <5>1. sent'[u.io][u.shard] = sent[i][s] + 1 /\ sent[u.io][u.shard] = sent[i][s]
          BY <1>1, <1>8, <4>2, Zenon
        <5>2. u = t <=> u.n = sent[i][s] + 1
          BY <1>5, <1>6, <4>2, Zenon
        <5> QED BY <1>4, <4>1, <5>1, <5>2
      <4>3. CASE u.io # i \/ u.shard # s
        <5>1. sent'[u.io][u.shard] = sent[u.io][u.shard]
          BY <1>1, <1>8, <4>1, <4>3, Zenon
        <5>2. u # t
          BY <1>5, <4>3, Zenon
        <5> QED BY <5>1, <5>2, Zenon
      <4> QED BY <4>2, <4>3, Zenon
    <3>2. SentTasks' = {u \in Tasks : u.n \in 1..sent'[u.io][u.shard]}
      BY Zenon DEF SentTasks
    <3> QED BY <1>5, <3>1, <3>2, Zenon DEF SentTasks
  <2> DEFINE Q == Merge(lane, stale)
             R == Merge(lane', stale)
  <2>3. Append(lane[i][e], t) \in Seq(Tasks)
    BY <1>4, <1>5
  <2>4. lane' = [lane EXCEPT ![i][e] = Append(lane[i][e], t)]
    BY <1>8, Zenon
  <2>5. /\ lane' \in [Threads -> [Executors -> Seq(Tasks)]] /\ i \in Producers
        /\ R[i][e] = Append(Q[i][e], t) /\ Elsewhere(Producers, Executors, Q, R, i, e)
    <3>1. /\ lane' \in [Threads -> [Executors -> Seq(Tasks)]]
          /\ lane'[i][e] = Append(lane[i][e], t) /\ Elsewhere(Threads, Executors, lane, lane', i, e)
      <4> DEFINE v == Append(lane[i][e], t)
      <4>1. v \in Seq(Tasks) /\ lane' = [lane EXCEPT ![i][e] = v]
        BY <2>3, <2>4, Zenon
      <4> HIDE DEF v
      <4>2. /\ [lane EXCEPT ![i][e] = v] \in [Threads -> [Executors -> Seq(Tasks)]]
            /\ [lane EXCEPT ![i][e] = v][i][e] = v
            /\ Elsewhere(Threads, Executors, lane, [lane EXCEPT ![i][e] = v], i, e)
        BY <1>1, <4>1, TableSet, Zenon
      <4> QED BY <4>1, <4>2, Zenon DEF v
    <3>2. /\ i \in Producers /\ Q[i][e] = lane[i][e] /\ R[i][e] = lane'[i][e]
          /\ Elsewhere(Producers, Executors, Q, R, i, e)
      BY <1>1, <3>1, MergeLane, Zenon
    <3> HIDE DEF Q, R
    <3> QED BY <3>1, <3>2, Zenon
  <2>6. /\ Q \in [Producers -> [Executors -> Seq(Tasks)]]
        /\ R \in [Producers -> [Executors -> Seq(Tasks)]]
    BY <1>1, <2>5, MergeIsTable, Zenon
  <2>7. Once(Producers, Executors, Q, SentTasks \ executed) /\ executed \subseteq SentTasks
    BY Zenon DEF TasksKept
  <2>8. Merge(lane, stale)' = R
    BY <1>3, Zenon DEF Merge
  <2> HIDE DEF Q, R
  <2> DEFINE pend == SentTasks \ executed
  <2>9. t \notin pend /\ SentTasks' \ executed' = pend \cup {t} /\ executed' \subseteq SentTasks'
    BY <1>3, <2>1, <2>2, <2>7
  <2>10. Once(Producers, Executors, Q, pend)
    BY <2>7, Zenon
  <2> HIDE DEF pend
  <2>11. Once(Producers, Executors, R, pend \cup {t})
    BY <1>1, <1>5, <2>5, <2>6, <2>9, <2>10, PutOnce, Zenon
  <2> QED BY <2>8, <2>9, <2>11, Zenon DEF TasksKept
<1> QED BY <1>2, <1>7, <1>8, Zenon

\* A task taken from a lane is executed, forwarded, or set aside.
LEMMA DrainKeepsTasks ==
    ASSUME Types, TasksKept, NEW e \in Executors, NEW p \in Threads, drain_tasks(e, p)
    PROVE  TasksKept'
<1> DEFINE t == Head(lane[p][e])
           d == owner[t.shard]
           ln == [lane EXCEPT ![p][e] = Tail(@)]
           pend == SentTasks \ executed
<1>1. /\ lane \in [Threads -> [Executors -> Seq(Tasks)]] /\ stale \in [Executors -> Seq(Tasks)]
      /\ lane[p][e] # <<>> /\ lane[p][e] \in Seq(Tasks) /\ stale[e] \in Seq(Tasks)
      /\ e \in Threads /\ owner \in [Shards -> Executors] /\ UNCHANGED sent
  BY Zenon DEF drain_tasks, Types, TaskTypes, PlaceTypes, Threads
<1>2. Tail(lane[p][e]) \in Seq(Tasks) /\ t \in Tasks
  BY <1>1
<1>3. d \in Executors
  <2>1. t.shard \in Shards
    BY <1>2 DEF Tasks
  <2> QED BY <1>1, <2>1, Zenon
<1>4. \/ executed' = executed \cup {t} /\ lane' = ln /\ UNCHANGED stale
      \/ UNCHANGED executed /\ lane' = [ln EXCEPT ![e][d] = Append(@, t)] /\ UNCHANGED stale
      \/ UNCHANGED executed /\ lane' = ln /\ stale' = [stale EXCEPT ![e] = Append(@, t)]
  <2>1. RunTask(e, t, ln)
    BY Zenon DEF drain_tasks
  <2> HIDE DEF t, ln
  <2> QED BY <2>1, Zenon DEF RunTask
<1>5. /\ ln \in [Threads -> [Executors -> Seq(Tasks)]] /\ ln[p][e] = Tail(lane[p][e])
      /\ Elsewhere(Threads, Executors, lane, ln, p, e)
  <2> DEFINE v == Tail(lane[p][e])
  <2>1. v \in Seq(Tasks) /\ ln = [lane EXCEPT ![p][e] = v]
    BY <1>2, Zenon
  <2> HIDE DEF v
  <2>2. /\ [lane EXCEPT ![p][e] = v] \in [Threads -> [Executors -> Seq(Tasks)]]
        /\ [lane EXCEPT ![p][e] = v][p][e] = v
        /\ Elsewhere(Threads, Executors, lane, [lane EXCEPT ![p][e] = v], p, e)
    BY <1>1, <2>1, TableSet, Zenon
  <2> HIDE DEF ln
  <2> QED BY <2>1, <2>2, Zenon DEF v
<1>6. /\ t = Head(lane[p][e]) /\ executed \subseteq SentTasks
      /\ Once(Producers, Executors, Merge(lane, stale), pend)
      /\ SentTasks' = SentTasks
  BY <1>1, Zenon DEF TasksKept, SentTasks
<1> HIDE DEF t, d, ln
<1> DEFINE Q == Merge(lane, stale)
           M == Merge(ln, stale)
<1>7. /\ p \in Producers /\ Q[p][e] = lane[p][e] /\ M[p][e] = Tail(Q[p][e])
      /\ Elsewhere(Producers, Executors, Q, M, p, e)
      /\ Q \in [Producers -> [Executors -> Seq(Tasks)]]
      /\ M \in [Producers -> [Executors -> Seq(Tasks)]]
  <2>1. /\ p \in Producers /\ Q[p][e] = lane[p][e] /\ M[p][e] = ln[p][e]
        /\ Elsewhere(Producers, Executors, Q, M, p, e)
    BY <1>1, <1>5, MergeLane, Zenon
  <2>2. /\ Q \in [Producers -> [Executors -> Seq(Tasks)]]
        /\ M \in [Producers -> [Executors -> Seq(Tasks)]]
    BY <1>1, <1>5, MergeIsTable, Zenon
  <2> HIDE DEF Q, M
  <2> QED BY <1>5, <2>1, <2>2, Zenon
<1>8. Once(Producers, Executors, Q, pend) /\ Q[p][e] # <<>> /\ Head(Q[p][e]) = t
  BY <1>1, <1>6, <1>7, Zenon
<1> HIDE DEF Q, M, pend
<1>9. CASE executed' = executed \cup {t} /\ lane' = ln /\ UNCHANGED stale
  <2>1. Once(Producers, Executors, M, pend \ {Head(Q[p][e])}) /\ Head(Q[p][e]) \in pend
    BY <1>7, <1>8, TakeOnce, Zenon
  <2>2. Merge(lane, stale)' = M
    BY <1>9, Zenon DEF Merge, M
  <2>3. executed' \subseteq SentTasks' /\ SentTasks' \ executed' = pend \ {t}
    BY <1>6, <1>8, <1>9, <2>1 DEF pend
  <2> QED BY <1>8, <2>1, <2>2, <2>3, Zenon DEF TasksKept
<1>10. CASE UNCHANGED executed /\ lane' = [ln EXCEPT ![e][d] = Append(@, t)] /\ UNCHANGED stale
  <2> DEFINE R == Merge(lane', stale)
             v == Append(ln[e][d], t)
  <2>1. ln[e][d] \in Seq(Tasks)
    BY <1>1, <1>3, <1>5, Zenon
  <2>2. v \in Seq(Tasks)
    BY <1>2, <2>1
  <2>3. lane' = [ln EXCEPT ![e][d] = v]
    BY <1>10, Zenon
  <2> HIDE DEF v
  <2>4. /\ [ln EXCEPT ![e][d] = v] \in [Threads -> [Executors -> Seq(Tasks)]]
        /\ [ln EXCEPT ![e][d] = v][e][d] = v
        /\ Elsewhere(Threads, Executors, ln, [ln EXCEPT ![e][d] = v], e, d)
    BY <1>1, <1>3, <1>5, <2>2, TableSet, Zenon
  <2>5. /\ lane' \in [Threads -> [Executors -> Seq(Tasks)]] /\ lane'[e][d] = v
        /\ Elsewhere(Threads, Executors, ln, lane', e, d)
    BY <2>3, <2>4, Zenon
  <2>6. /\ e \in Producers /\ M[e][d] = ln[e][d] /\ R[e][d] = lane'[e][d]
        /\ Elsewhere(Producers, Executors, M, R, e, d)
    BY <1>1, <1>3, <1>5, <2>5, MergeLane, Zenon DEF M
  <2>7. R \in [Producers -> [Executors -> Seq(Tasks)]]
    BY <1>1, <2>5, MergeIsTable, Zenon
  <2>8. Merge(lane, stale)' = R
    BY <1>10 DEF Merge
  <2> HIDE DEF R
  <2>9. R[e][d] = Append(M[e][d], Head(Q[p][e]))
    BY <1>8, <2>5, <2>6, Zenon DEF v
  <2>10. Once(Producers, Executors, R, pend)
    BY <1>3, <1>7, <1>8, <2>6, <2>7, <2>9, MoveOnce, Zenon
  <2> QED BY <1>6, <1>10, <2>8, <2>10, Zenon DEF TasksKept, pend
<1>11. CASE UNCHANGED executed /\ lane' = ln /\ stale' = [stale EXCEPT ![e] = Append(@, t)]
  <2> DEFINE R == Merge(ln, stale')
             v == Append(stale[e], t)
  <2>1. v \in Seq(Tasks)
    BY <1>1, <1>2
  <2>2. stale' = [stale EXCEPT ![e] = v]
    BY <1>11, Zenon
  <2> HIDE DEF v
  <2>3. /\ stale' \in [Executors -> Seq(Tasks)] /\ stale'[e] = v
        /\ \A f \in Executors \ {e} : stale'[f] = stale[f]
    BY <1>1, <2>1, <2>2, Zenon
  <2>4. /\ NoThread \in Producers /\ M[NoThread][e] = stale[e] /\ R[NoThread][e] = stale'[e]
        /\ Elsewhere(Producers, Executors, M, R, NoThread, e)
    BY <1>1, <1>5, <2>3, MergeWait, Zenon DEF M
  <2>5. R \in [Producers -> [Executors -> Seq(Tasks)]]
    BY <1>5, <2>3, MergeIsTable, Zenon
  <2>6. Merge(lane, stale)' = R
    BY <1>11, Zenon DEF Merge
  <2> HIDE DEF R
  <2>7. R[NoThread][e] = Append(M[NoThread][e], Head(Q[p][e]))
    BY <1>8, <2>3, <2>4, Zenon DEF v
  <2>8. Once(Producers, Executors, R, pend)
    BY <1>7, <1>8, <2>4, <2>5, <2>7, MoveOnce, Zenon
  <2> QED BY <1>6, <1>11, <2>6, <2>8, Zenon DEF TasksKept, pend
<1> QED BY <1>4, <1>9, <1>10, <1>11, Zenon

\* A task that waited is executed, if the shard is back, or forwarded at last.
LEMMA ServiceKeepsTasks ==
    ASSUME Types, TasksKept, NEW e \in Executors, ServiceStale(e)
    PROVE  TasksKept'
<1> DEFINE t == Head(stale[e])
           d == owner[t.shard]
           rest == [stale EXCEPT ![e] = Tail(@)]
           pend == SentTasks \ executed
<1>1. /\ lane \in [Threads -> [Executors -> Seq(Tasks)]] /\ stale \in [Executors -> Seq(Tasks)]
      /\ stale[e] # <<>> /\ stale[e] \in Seq(Tasks) /\ stale' = rest
      /\ e \in Threads /\ owner \in [Shards -> Executors] /\ UNCHANGED sent
  BY Zenon DEF ServiceStale, Types, TaskTypes, PlaceTypes, Threads
<1>2. Tail(stale[e]) \in Seq(Tasks) /\ t \in Tasks
  BY <1>1
<1>3. d \in Executors
  <2>1. t.shard \in Shards
    BY <1>2 DEF Tasks
  <2> QED BY <1>1, <2>1, Zenon
<1>4. \/ executed' = executed \cup {t} /\ UNCHANGED lane
      \/ UNCHANGED executed /\ lane' = [lane EXCEPT ![e][d] = Append(@, t)]
  BY Zenon DEF ServiceStale
<1>5. /\ rest \in [Executors -> Seq(Tasks)] /\ rest[e] = Tail(stale[e])
      /\ \A f \in Executors \ {e} : rest[f] = stale[f]
  BY <1>1, <1>2, Zenon
<1>6. /\ t = Head(stale[e]) /\ executed \subseteq SentTasks
      /\ Once(Producers, Executors, Merge(lane, stale), pend)
      /\ SentTasks' = SentTasks
  BY <1>1, Zenon DEF TasksKept, SentTasks
<1> HIDE DEF t, d, rest
<1> DEFINE Q == Merge(lane, stale)
           M == Merge(lane, rest)
<1>7. /\ NoThread \in Producers /\ Q[NoThread][e] = stale[e] /\ M[NoThread][e] = Tail(Q[NoThread][e])
      /\ Elsewhere(Producers, Executors, Q, M, NoThread, e)
      /\ Q \in [Producers -> [Executors -> Seq(Tasks)]]
      /\ M \in [Producers -> [Executors -> Seq(Tasks)]]
  <2>1. /\ NoThread \in Producers /\ Q[NoThread][e] = stale[e] /\ M[NoThread][e] = rest[e]
        /\ Elsewhere(Producers, Executors, Q, M, NoThread, e)
    BY <1>1, <1>5, MergeWait, Zenon
  <2>2. /\ Q \in [Producers -> [Executors -> Seq(Tasks)]]
        /\ M \in [Producers -> [Executors -> Seq(Tasks)]]
    BY <1>1, <1>5, MergeIsTable, Zenon
  <2> HIDE DEF Q, M
  <2> QED BY <1>5, <2>1, <2>2, Zenon
<1>8. Once(Producers, Executors, Q, pend) /\ Q[NoThread][e] # <<>> /\ Head(Q[NoThread][e]) = t
  BY <1>1, <1>6, <1>7, Zenon
<1> HIDE DEF Q, M, pend
<1>9. CASE executed' = executed \cup {t} /\ UNCHANGED lane
  <2>1. Once(Producers, Executors, M, pend \ {Head(Q[NoThread][e])}) /\ Head(Q[NoThread][e]) \in pend
    BY <1>7, <1>8, TakeOnce, Zenon
  <2>2. Merge(lane, stale)' = M
    BY <1>1, <1>9, Zenon DEF Merge, M
  <2>3. executed' \subseteq SentTasks' /\ SentTasks' \ executed' = pend \ {t}
    BY <1>6, <1>8, <1>9, <2>1 DEF pend
  <2> QED BY <1>8, <2>1, <2>2, <2>3, Zenon DEF TasksKept
<1>10. CASE UNCHANGED executed /\ lane' = [lane EXCEPT ![e][d] = Append(@, t)]
  <2> DEFINE R == Merge(lane', rest)
             v == Append(lane[e][d], t)
  <2>1. lane[e][d] \in Seq(Tasks)
    BY <1>1, <1>3, Zenon
  <2>2. v \in Seq(Tasks)
    BY <1>2, <2>1
  <2>3. lane' = [lane EXCEPT ![e][d] = v]
    BY <1>10, Zenon
  <2> HIDE DEF v
  <2>4. /\ [lane EXCEPT ![e][d] = v] \in [Threads -> [Executors -> Seq(Tasks)]]
        /\ [lane EXCEPT ![e][d] = v][e][d] = v
        /\ Elsewhere(Threads, Executors, lane, [lane EXCEPT ![e][d] = v], e, d)
    BY <1>1, <1>3, <2>2, TableSet, Zenon
  <2>5. /\ lane' \in [Threads -> [Executors -> Seq(Tasks)]] /\ lane'[e][d] = v
        /\ Elsewhere(Threads, Executors, lane, lane', e, d)
    BY <2>3, <2>4, Zenon
  <2>6. /\ e \in Producers /\ M[e][d] = lane[e][d] /\ R[e][d] = lane'[e][d]
        /\ Elsewhere(Producers, Executors, M, R, e, d)
    BY <1>1, <1>3, <1>5, <2>5, MergeLane, Zenon DEF M
  <2>7. R \in [Producers -> [Executors -> Seq(Tasks)]]
    BY <1>5, <2>5, MergeIsTable, Zenon
  <2>8. Merge(lane, stale)' = R
    BY <1>1, Zenon DEF Merge
  <2> HIDE DEF R
  <2>9. R[e][d] = Append(M[e][d], Head(Q[NoThread][e]))
    BY <1>8, <2>5, <2>6, Zenon DEF v
  <2>10. Once(Producers, Executors, R, pend)
    BY <1>3, <1>7, <1>8, <2>6, <2>7, <2>9, MoveOnce, Zenon
  <2> QED BY <1>6, <1>10, <2>8, <2>10, Zenon DEF TasksKept, pend
<1> QED BY <1>4, <1>9, <1>10, Zenon

\* Every step keeps the tasks.
LEMMA TasksKeptStep ==
    ASSUME Types, TasksKept, [Next]_vars
    PROVE  TasksKept'
<1>1. ASSUME UNCHANGED <<lane, stale, sent, executed>> PROVE TasksKept'
  BY <1>1, Zenon DEF TasksKept, SentTasks, Merge
<1> QED BY <1>1, TaskActions, PostKeepsTasks, DrainKeepsTasks, ServiceKeepsTasks, Zenon

-----------------------------------------------------------------------------
(* Releases. *)

\* The lengths of the queues of a table are numbers, and there are finitely many.
LEMMA LengthsAreNumbers ==
    ASSUME NEW r \in [Threads -> [Executors -> Seq(Shards)]], NEW w \in [Executors -> Seq(Shards)]
    PROVE  /\ IsFiniteSet(Threads \X Executors) /\ IsFiniteSet(Executors)
           /\ Lengths(r) \in [Threads \X Executors -> Int]
           /\ WaitLengths(w) \in [Executors -> Int]
<1>1. IsFiniteSet(Executors) /\ IsFiniteSet(Threads)
  BY MigrationAssumption, FS_Union DEF Threads
<1>2. IsFiniteSet(Threads \X Executors)
  BY <1>1, FS_Product
<1>3. ASSUME NEW p \in Threads, NEW e \in Executors
      PROVE  Len(r[p][e]) \in Int
  <2>1. r[p][e] \in Seq(Shards)
    BY Zenon
  <2> QED BY <2>1
<1>4. Lengths(r) \in [Threads \X Executors -> Int]
  BY <1>3 DEF Lengths
<1>5. ASSUME NEW e \in Executors
      PROVE  Len(w[e]) \in Int
  <2>1. w[e] \in Seq(Shards)
    BY Zenon
  <2> QED BY <2>1
<1>6. WaitLengths(w) \in [Executors -> Int]
  BY <1>5, Zenon DEF WaitLengths
<1> QED BY <1>1, <1>2, <1>4, <1>6, Zenon

\* Changing one queue changes the sum of the lengths by the difference.
LEMMA LengthsUpdate ==
    ASSUME NEW r \in [Threads -> [Executors -> Seq(Shards)]],
           NEW u \in [Threads -> [Executors -> Seq(Shards)]],
           NEW p \in Threads, NEW e \in Executors, Elsewhere(Threads, Executors, r, u, p, e)
    PROVE  /\ SumFunction(Lengths(r)) \in Int
           /\ SumFunction(Lengths(u)) = SumFunction(Lengths(r)) - Len(r[p][e]) + Len(u[p][e])
<1> DEFINE D == Threads \X Executors
           f == Lengths(r)
           g == Lengths(u)
           a == <<p, e>>
<1>1. IsFiniteSet(D) /\ f \in [D -> Int] /\ g \in [D -> Int]
  <2>1. \E w : w \in [Executors -> Seq(Shards)]
    <3>1. r[p] \in [Executors -> Seq(Shards)]
      BY Zenon
    <3> QED BY <3>1, Zenon
  <2> QED BY <2>1, LengthsAreNumbers, Zenon
<1>2. a \in D /\ f[a] = Len(r[p][e]) /\ g[a] = Len(u[p][e])
  BY DEF Lengths
<1>3. \A x \in D \ {a} : g[x] = f[x]
  <2> SUFFICES ASSUME NEW q \in Threads, NEW h \in Executors, <<q, h>> # <<p, e>>
               PROVE  g[<<q, h>>] = f[<<q, h>>]
    OBVIOUS
  <2>1. q # p \/ h # e
    BY Zenon
  <2>2. u[q][h] = r[q][h]
    BY <2>1, Zenon DEF Elsewhere
  <2>3. <<q, h>> \in D
    BY Zenon
  <2> QED BY <2>2, <2>3 DEF Lengths
<1> HIDE DEF D, f, g, a
<1>4. SumFunction(f) \in Int /\ SumFunction(g) = SumFunction(f) - f[a] + g[a]
  <2>1. SameBut(D, f, g, a)
    BY <1>3, Zenon DEF SameBut
  <2>2. a \in D
    BY <1>2, Zenon
  <2> QED BY <1>1, <2>1, <2>2, SumUpdate, Zenon
<1>5. /\ SumFunction(f) \in Int
      /\ SumFunction(g) = SumFunction(f) - Len(r[p][e]) + Len(u[p][e])
  BY <1>2, <1>4, Zenon
<1> QED BY <1>5, Zenon DEF f, g

\* The same for the releases that wait to be forwarded.
LEMMA WaitLengthsUpdate ==
    ASSUME NEW w \in [Executors -> Seq(Shards)], NEW x \in [Executors -> Seq(Shards)],
           NEW e \in Executors, SameBut(Executors, w, x, e)
    PROVE  /\ SumFunction(WaitLengths(w)) \in Int
           /\ SumFunction(WaitLengths(x)) = SumFunction(WaitLengths(w)) - Len(w[e]) + Len(x[e])
<1> DEFINE f == WaitLengths(w)
           g == WaitLengths(x)
<1>1. IsFiniteSet(Executors)
  BY MigrationAssumption, Zenon
<1>2. \A v \in [Executors -> Seq(Shards)] : WaitLengths(v) \in [Executors -> Int]
  <2> SUFFICES ASSUME NEW v \in [Executors -> Seq(Shards)]
               PROVE  WaitLengths(v) \in [Executors -> Int]
    BY Zenon
  <2>1. ASSUME NEW h \in Executors PROVE Len(v[h]) \in Int
    <3>1. v[h] \in Seq(Shards)
      BY Zenon
    <3> QED BY <3>1
  <2> QED BY <2>1, Zenon DEF WaitLengths
<1>3. f[e] = Len(w[e]) /\ g[e] = Len(x[e]) /\ \A h \in Executors \ {e} : g[h] = f[h]
  BY Zenon DEF WaitLengths, SameBut
<1>4. f \in [Executors -> Int] /\ g \in [Executors -> Int]
  BY <1>2, Zenon
<1> HIDE DEF f, g
<1>5. SumFunction(f) \in Int /\ SumFunction(g) = SumFunction(f) - f[e] + g[e]
  <2>1. SameBut(Executors, f, g, e)
    BY <1>3, Zenon DEF SameBut
  <2> QED BY <1>1, <1>4, <2>1, SumUpdate, Zenon
<1> QED BY <1>3, <1>5, Zenon DEF f, g

\* The four terms of the account are numbers.
LEMMA AccountIsNumbers ==
    ASSUME Types, NEW e \in Executors
    PROVE  /\ SumFunction(borrows) \in Int /\ applied \in Int
           /\ SumFunction(Lengths(release)) \in Int /\ SumFunction(WaitLengths(staleRel)) \in Int
<1>1. /\ release \in [Threads -> [Executors -> Seq(Shards)]]
      /\ staleRel \in [Executors -> Seq(Shards)]
      /\ borrows \in [IOs -> Int] /\ applied \in Int
  BY Zenon DEF Types, ReleaseTypes
<1>2. /\ SameBut(IOs, borrows, borrows, Coordinator)
      /\ SameBut(Executors, staleRel, staleRel, e)
      /\ Elsewhere(Threads, Executors, release, release, e, e)
  BY Zenon DEF SameBut, Elsewhere
<1>3. Coordinator \in IOs /\ IsFiniteSet(IOs) /\ e \in Threads
  BY MigrationAssumption, Zenon DEF Threads
<1>4. SumFunction(borrows) \in Int
  BY <1>1, <1>2, <1>3, SumUpdate, Zenon
<1>5. SumFunction(Lengths(release)) \in Int
  BY <1>1, <1>2, <1>3, LengthsUpdate, Zenon
<1>6. SumFunction(WaitLengths(staleRel)) \in Int
  BY <1>1, <1>2, WaitLengthsUpdate, Zenon
<1> QED BY <1>1, <1>4, <1>5, <1>6, Zenon

\* A table of queues with one of them replaced.
With(r, p, e, v) == [r EXCEPT ![p][e] = v]

\* What a step that changes one queue of releases does to their number.
LEMMA SetLength ==
    ASSUME NEW r \in [Threads -> [Executors -> Seq(Shards)]], NEW p \in Threads, NEW e \in Executors,
           NEW v \in Seq(Shards)
    PROVE  /\ With(r, p, e, v) \in [Threads -> [Executors -> Seq(Shards)]]
           /\ SumFunction(Lengths(r)) \in Int
           /\ SumFunction(Lengths(With(r, p, e, v))) = SumFunction(Lengths(r)) - Len(r[p][e]) + Len(v)
<1> DEFINE u == With(r, p, e, v)
<1>1. /\ [r EXCEPT ![p][e] = v] \in [Threads -> [Executors -> Seq(Shards)]]
      /\ [r EXCEPT ![p][e] = v][p][e] = v
      /\ Elsewhere(Threads, Executors, r, [r EXCEPT ![p][e] = v], p, e)
  BY TableSet, Zenon
<1>2. /\ u \in [Threads -> [Executors -> Seq(Shards)]] /\ u[p][e] = v
      /\ Elsewhere(Threads, Executors, r, u, p, e)
  BY <1>1, Zenon DEF With
<1> HIDE DEF u
<1>3. /\ SumFunction(Lengths(r)) \in Int
      /\ SumFunction(Lengths(u)) = SumFunction(Lengths(r)) - Len(r[p][e]) + Len(u[p][e])
  BY <1>2, LengthsUpdate, Zenon
<1>4. SumFunction(Lengths(u)) = SumFunction(Lengths(r)) - Len(r[p][e]) + Len(v)
  BY <1>2, <1>3, Zenon
<1> QED BY <1>2, <1>3, <1>4, Zenon DEF u

\* A posted release leaves the borrows of its thread and enters one queue.
LEMMA PostKeepsReleases ==
    ASSUME Types, ReleasesKept, NEW i \in IOs, PostRelease(i)
    PROVE  ReleasesKept'
<1> DEFINE s == io[i].shard
           e == io[i].target
           v == Append(release[i][e], s)
<1>1. /\ s \in Shards /\ e \in Executors /\ i \in Threads
      /\ release \in [Threads -> [Executors -> Seq(Shards)]] /\ borrows \in [IOs -> Int]
      /\ release[i][e] \in Seq(Shards) /\ borrows[i] \in Int
  BY Zenon DEF PostRelease, Types, IoTypes, ReleaseTypes, Threads
<1>2. /\ UNCHANGED <<staleRel, applied>>
      /\ \/ UNCHANGED <<release, borrows>>
         \/ release' = [release EXCEPT ![i][e] = v] /\ borrows' = [borrows EXCEPT ![i] = @ - 1]
  BY Zenon DEF PostRelease
<1>3. /\ SumFunction(borrows) \in Int /\ applied \in Int
      /\ SumFunction(Lengths(release)) \in Int /\ SumFunction(WaitLengths(staleRel)) \in Int
  BY <1>1, AccountIsNumbers, Zenon
<1>4. v \in Seq(Shards) /\ Len(v) = Len(release[i][e]) + 1 /\ Len(release[i][e]) \in Int
  BY <1>1
<1> HIDE DEF s, e, v
<1>5. CASE UNCHANGED <<release, borrows>>
  BY <1>2, <1>5, Zenon DEF ReleasesKept, Lengths, WaitLengths
<1>6. CASE release' = [release EXCEPT ![i][e] = v] /\ borrows' = [borrows EXCEPT ![i] = @ - 1]
  <2>1. SumFunction(Lengths(release')) = SumFunction(Lengths(release)) + 1
    <3>1. SumFunction(Lengths(With(release, i, e, v)))
            = SumFunction(Lengths(release)) - Len(release[i][e]) + Len(v)
      BY <1>1, <1>4, SetLength, Zenon
    <3>2. SumFunction(Lengths(release'))
            = SumFunction(Lengths(release)) - Len(release[i][e]) + Len(v)
      BY <1>6, <3>1, Zenon DEF With
    <3> QED BY <1>3, <1>4, <3>2
  <2>2. borrows[i] - 1 \in Int
    BY <1>1
  <2>3. borrows' \in [IOs -> Int] /\ borrows'[i] = borrows[i] - 1 /\ SameBut(IOs, borrows, borrows', i)
    BY <1>1, <1>6, <2>2, Zenon DEF SameBut
  <2>4. SumFunction(borrows') = SumFunction(borrows) - borrows[i] + borrows'[i]
    <3>1. IsFiniteSet(IOs)
      BY MigrationAssumption, Zenon
    <3> QED BY <1>1, <2>3, <3>1, SumUpdate, Zenon
  <2>5. SumFunction(borrows') = SumFunction(borrows) - 1
    BY <1>1, <1>3, <2>3, <2>4
  <2>6. /\ Lengths(release)' = Lengths(release') /\ WaitLengths(staleRel)' = WaitLengths(staleRel)
        /\ applied' = applied
    BY <1>2, Zenon DEF Lengths, WaitLengths
  <2>7. ReleasesKept' <=> SumFunction(borrows') + applied + SumFunction(Lengths(release'))
                              + SumFunction(WaitLengths(staleRel)) = SumFunction(MaxReleases)
    BY <2>6, Zenon DEF ReleasesKept
  <2>8. SumFunction(borrows) + applied + SumFunction(Lengths(release))
             + SumFunction(WaitLengths(staleRel)) = SumFunction(MaxReleases)
    BY Zenon DEF ReleasesKept
  <2> QED BY <1>3, <2>1, <2>5, <2>7, <2>8
<1> QED BY <1>2, <1>5, <1>6, Zenon

\* The account with the terms that a step changes.
LEMMA Account ==
    ASSUME ReleasesKept, NEW b \in Int, NEW c \in Int, NEW d \in Int, Types, NEW e \in Executors,
           UNCHANGED borrows, applied' = applied + b,
           SumFunction(Lengths(release')) = SumFunction(Lengths(release)) + c,
           SumFunction(WaitLengths(staleRel')) = SumFunction(WaitLengths(staleRel)) + d,
           b + c + d = 0
    PROVE  ReleasesKept'
<1>1. /\ SumFunction(borrows) \in Int /\ applied \in Int
      /\ SumFunction(Lengths(release)) \in Int /\ SumFunction(WaitLengths(staleRel)) \in Int
  BY AccountIsNumbers, Zenon
<1>2. Lengths(release)' = Lengths(release') /\ WaitLengths(staleRel)' = WaitLengths(staleRel')
  BY Zenon DEF Lengths, WaitLengths
<1>3. ReleasesKept' <=> SumFunction(borrows) + applied' + SumFunction(Lengths(release'))
                          + SumFunction(WaitLengths(staleRel')) = SumFunction(MaxReleases)
  BY <1>2, Zenon DEF ReleasesKept
<1>4. SumFunction(borrows) + applied + SumFunction(Lengths(release))
          + SumFunction(WaitLengths(staleRel)) = SumFunction(MaxReleases)
  BY Zenon DEF ReleasesKept
<1> QED BY <1>1, <1>3, <1>4

\* A release taken from a queue is applied, forwarded, or set aside.
LEMMA DrainKeepsReleases ==
    ASSUME Types, ReleasesKept, NEW e \in Executors, NEW p \in Threads, drain_releases(e, p)
    PROVE  ReleasesKept'
<1> DEFINE s == Head(release[p][e])
           d == owner[s]
           v == Tail(release[p][e])
           rest == With(release, p, e, v)
           w == Append(rest[e][d], s)
<1>1. release[p][e] # <<>> /\ UNCHANGED borrows
  BY Zenon DEF drain_releases
<1>2. /\ release \in [Threads -> [Executors -> Seq(Shards)]]
      /\ staleRel \in [Executors -> Seq(Shards)] /\ staleRel[e] \in Seq(Shards)
      /\ release[p][e] \in Seq(Shards) /\ e \in Threads /\ owner \in [Shards -> Executors]
  BY Zenon DEF Types, ReleaseTypes, PlaceTypes, Threads
<1>3. s \in Shards
  BY <1>1, <1>2
<1>4. d \in Executors
  BY <1>2, <1>3, Zenon
<1>5. \/ release' = rest /\ applied' = applied + 1 /\ UNCHANGED staleRel
      \/ release' = [rest EXCEPT ![e][d] = w] /\ UNCHANGED <<applied, staleRel>>
      \/ release' = rest /\ staleRel' = [staleRel EXCEPT ![e] = Append(@, s)] /\ UNCHANGED applied
  <2> DEFINE old == [release EXCEPT ![p][e] = Tail(@)]
  <2>1. \/ release' = old /\ applied' = applied + 1 /\ UNCHANGED staleRel
        \/ release' = [old EXCEPT ![e][d] = Append(@, s)] /\ UNCHANGED <<applied, staleRel>>
        \/ release' = old /\ staleRel' = [staleRel EXCEPT ![e] = Append(@, s)] /\ UNCHANGED applied
    BY Zenon DEF drain_releases
  <2>2. old = rest
    BY Zenon DEF With
  <2> HIDE DEF old, rest
  <2> QED BY <2>1, <2>2, Zenon
<1>6. /\ rest \in [Threads -> [Executors -> Seq(Shards)]]
      /\ SumFunction(Lengths(release)) \in Int
      /\ SumFunction(Lengths(rest)) = SumFunction(Lengths(release)) - 1
  <2>1. v \in Seq(Shards) /\ Len(v) = Len(release[p][e]) - 1 /\ Len(release[p][e]) \in Int
    BY <1>1, <1>2
  <2> HIDE DEF v
  <2>2. /\ rest \in [Threads -> [Executors -> Seq(Shards)]]
        /\ SumFunction(Lengths(release)) \in Int
        /\ SumFunction(Lengths(rest)) = SumFunction(Lengths(release)) - Len(release[p][e]) + Len(v)
    BY <1>2, <2>1, SetLength, Zenon
  <2> HIDE DEF rest
  <2> QED BY <2>1, <2>2
<1>7. SumFunction(WaitLengths(staleRel)) \in Int /\ applied \in Int
  BY AccountIsNumbers, Zenon
<1>8. w \in Seq(Shards) /\ Len(w) = Len(rest[e][d]) + 1 /\ Len(rest[e][d]) \in Int
  <2> HIDE DEF rest, s, d
  <2>1. rest[e][d] \in Seq(Shards)
    BY <1>2, <1>4, <1>6, Zenon
  <2> QED BY <1>3, <2>1
<1> HIDE DEF s, d, v, w, rest
<1>9. CASE release' = rest /\ applied' = applied + 1 /\ UNCHANGED staleRel
  <2>1. SumFunction(Lengths(release')) = SumFunction(Lengths(release)) + (-1)
    BY <1>6, <1>9
  <2>2. SumFunction(WaitLengths(staleRel')) = SumFunction(WaitLengths(staleRel)) + 0
    BY <1>7, <1>9
  <2>3. 1 + (-1) + 0 = 0 /\ 1 \in Int /\ -1 \in Int /\ 0 \in Int
    OBVIOUS
  <2> QED BY <1>1, <1>2, <1>9, <2>1, <2>2, <2>3, Account
<1>10. CASE release' = [rest EXCEPT ![e][d] = w] /\ UNCHANGED <<applied, staleRel>>
  <2>1. SumFunction(Lengths(release')) = SumFunction(Lengths(rest)) + 1
    <3>1. /\ SumFunction(Lengths(rest)) \in Int
          /\ SumFunction(Lengths(With(rest, e, d, w)))
               = SumFunction(Lengths(rest)) - Len(rest[e][d]) + Len(w)
      BY <1>2, <1>4, <1>6, <1>8, SetLength, Zenon
    <3>2. SumFunction(Lengths(release')) = SumFunction(Lengths(rest)) - Len(rest[e][d]) + Len(w)
      BY <1>10, <3>1, Zenon DEF With
    <3> QED BY <1>8, <3>1, <3>2
  <2>2. SumFunction(Lengths(release')) = SumFunction(Lengths(release)) + 0
    BY <1>6, <2>1
  <2>3. SumFunction(WaitLengths(staleRel')) = SumFunction(WaitLengths(staleRel)) + 0
    BY <1>7, <1>10
  <2>4. applied' = applied + 0 /\ 0 + 0 + 0 = 0 /\ 0 \in Int
    BY <1>7, <1>10
  <2> QED BY <1>1, <1>2, <2>2, <2>3, <2>4, Account
<1>11. CASE release' = rest /\ staleRel' = [staleRel EXCEPT ![e] = Append(@, s)] /\ UNCHANGED applied
  <2>1. SumFunction(Lengths(release')) = SumFunction(Lengths(release)) + (-1)
    BY <1>6, <1>11
  <2>2. /\ Append(staleRel[e], s) \in Seq(Shards)
        /\ Len(Append(staleRel[e], s)) = Len(staleRel[e]) + 1 /\ Len(staleRel[e]) \in Int
    BY <1>2, <1>3
  <2>3. /\ staleRel' \in [Executors -> Seq(Shards)] /\ staleRel'[e] = Append(staleRel[e], s)
        /\ SameBut(Executors, staleRel, staleRel', e)
    BY <1>2, <1>11, <2>2, Zenon DEF SameBut
  <2>4. SumFunction(WaitLengths(staleRel'))
          = SumFunction(WaitLengths(staleRel)) - Len(staleRel[e]) + Len(staleRel'[e])
    BY <1>2, <2>3, WaitLengthsUpdate, Zenon
  <2>5. SumFunction(WaitLengths(staleRel')) = SumFunction(WaitLengths(staleRel)) + 1
    BY <1>7, <2>2, <2>3, <2>4
  <2>6. applied' = applied + 0 /\ 0 + (-1) + 1 = 0 /\ 1 \in Int /\ -1 \in Int /\ 0 \in Int
    BY <1>7, <1>11
  <2> QED BY <1>1, <1>2, <2>1, <2>5, <2>6, Account
<1> QED BY <1>5, <1>9, <1>10, <1>11, Zenon

\* A release that waited is applied, if the shard is back, or forwarded at last.
LEMMA ServiceKeepsReleases ==
    ASSUME Types, ReleasesKept, NEW e \in Executors, ServiceStaleRelease(e)
    PROVE  ReleasesKept'
<1> DEFINE s == Head(staleRel[e])
           d == owner[s]
           w == Append(release[e][d], s)
<1>1. /\ release \in [Threads -> [Executors -> Seq(Shards)]]
      /\ staleRel \in [Executors -> Seq(Shards)] /\ staleRel[e] \in Seq(Shards)
      /\ staleRel[e] # <<>> /\ staleRel' = [staleRel EXCEPT ![e] = Tail(@)]
      /\ e \in Threads /\ owner \in [Shards -> Executors] /\ UNCHANGED borrows
  BY Zenon DEF ServiceStaleRelease, Types, ReleaseTypes, PlaceTypes, Threads
<1>2. /\ s \in Shards /\ Tail(staleRel[e]) \in Seq(Shards)
      /\ Len(Tail(staleRel[e])) = Len(staleRel[e]) - 1 /\ Len(staleRel[e]) \in Int
  BY <1>1
<1>3. d \in Executors
  BY <1>1, <1>2, Zenon
<1>4. \/ applied' = applied + 1 /\ UNCHANGED release
      \/ release' = [release EXCEPT ![e][d] = w] /\ UNCHANGED applied
  BY Zenon DEF ServiceStaleRelease
<1>5. /\ SumFunction(WaitLengths(staleRel)) \in Int /\ applied \in Int
      /\ SumFunction(Lengths(release)) \in Int
  BY AccountIsNumbers, Zenon
<1>6. SumFunction(WaitLengths(staleRel')) = SumFunction(WaitLengths(staleRel)) + (-1)
  <2>1. /\ staleRel' \in [Executors -> Seq(Shards)] /\ staleRel'[e] = Tail(staleRel[e])
        /\ SameBut(Executors, staleRel, staleRel', e)
    BY <1>1, <1>2, Zenon DEF SameBut
  <2>2. SumFunction(WaitLengths(staleRel'))
          = SumFunction(WaitLengths(staleRel)) - Len(staleRel[e]) + Len(staleRel'[e])
    BY <1>1, <2>1, WaitLengthsUpdate, Zenon
  <2> QED BY <1>2, <1>5, <2>1, <2>2
<1>7. w \in Seq(Shards) /\ Len(w) = Len(release[e][d]) + 1 /\ Len(release[e][d]) \in Int
  <2> HIDE DEF s, d
  <2>1. release[e][d] \in Seq(Shards)
    BY <1>1, <1>3, Zenon
  <2> QED BY <1>2, <2>1
<1> HIDE DEF s, d, w
<1>8. CASE applied' = applied + 1 /\ UNCHANGED release
  <2>1. SumFunction(Lengths(release')) = SumFunction(Lengths(release)) + 0
    BY <1>5, <1>8
  <2>2. 1 + 0 + (-1) = 0 /\ 1 \in Int /\ -1 \in Int /\ 0 \in Int
    OBVIOUS
  <2> QED BY <1>1, <1>6, <1>8, <2>1, <2>2, Account
<1>9. CASE release' = [release EXCEPT ![e][d] = w] /\ UNCHANGED applied
  <2>1. SumFunction(Lengths(release')) = SumFunction(Lengths(release)) + 1
    <3>1. SumFunction(Lengths(With(release, e, d, w)))
            = SumFunction(Lengths(release)) - Len(release[e][d]) + Len(w)
      BY <1>1, <1>3, <1>7, SetLength, Zenon
    <3>2. SumFunction(Lengths(release'))
            = SumFunction(Lengths(release)) - Len(release[e][d]) + Len(w)
      BY <1>9, <3>1, Zenon DEF With
    <3> QED BY <1>5, <1>7, <3>2
  <2>2. applied' = applied + 0 /\ 0 + 1 + (-1) = 0 /\ 1 \in Int /\ -1 \in Int /\ 0 \in Int
    BY <1>5, <1>9
  <2> QED BY <1>1, <1>6, <2>1, <2>2, Account
<1> QED BY <1>4, <1>8, <1>9, Zenon

\* Every step keeps the releases.
LEMMA ReleasesKeptStep ==
    ASSUME Types, ReleasesKept, [Next]_vars
    PROVE  ReleasesKept'
<1>1. ASSUME UNCHANGED <<release, staleRel, borrows, applied>> PROVE ReleasesKept'
  BY <1>1, Zenon DEF ReleasesKept, Lengths, WaitLengths
<1> QED BY <1>1, ReleaseActions, PostKeepsReleases, DrainKeepsReleases, ServiceKeepsReleases, Zenon

-----------------------------------------------------------------------------
(* The theorem. *)

\* At the start nothing is queued, nothing is sent and every release is to come.
LEMMA InitIsKept == Init => Kept
<1> SUFFICES ASSUME Init PROVE Kept
  OBVIOUS
<1>1. /\ lane = [p \in Threads |-> [e \in Executors |-> <<>>]]
      /\ release = [p \in Threads |-> [e \in Executors |-> <<>>]]
      /\ stale = [e \in Executors |-> <<>>] /\ staleRel = [e \in Executors |-> <<>>]
      /\ sent = [i \in IOs |-> [s \in Shards |-> 0]] /\ executed = {}
      /\ borrows = MaxReleases /\ applied = 0
  BY Zenon DEF Init
<1>2. TasksKept
  <2>1. \A t \in Tasks : sent[t.io][t.shard] = 0
    BY <1>1 DEF Tasks
  <2>2. SentTasks = {}
    BY <2>1 DEF SentTasks
  <2>3. \A p \in Producers, e \in Executors : Len(Merge(lane, stale)[p][e]) = 0
    <3>1. ASSUME NEW p \in Producers, NEW e \in Executors PROVE Merge(lane, stale)[p][e] = <<>>
      <4>1. CASE p \in Threads
        BY <1>1, <4>1, Zenon DEF Merge
      <4>2. CASE p \notin Threads
        BY <1>1, <4>2, Zenon DEF Merge
      <4> QED BY <4>1, <4>2, Zenon
    <3>2. Len(<<>>) = 0
      OBVIOUS
    <3> QED BY <3>1, <3>2, Zenon
  <2>4. 1..0 = {}
    OBVIOUS
  <2> DEFINE Q == Merge(lane, stale)
  <2> HIDE DEF Q
  <2>5. Only(Producers, Executors, Q, {}) /\ Apart(Producers, Executors, Q)
    BY <2>3, <2>4, Zenon DEF Only, Apart, Distinct, Q
  <2>6. Once(Producers, Executors, Q, {})
    BY <2>5, Zenon DEF Once
  <2>7. SentTasks \ executed = {} /\ executed \subseteq SentTasks
    BY <1>1, <2>2, Zenon
  <2> QED BY <2>6, <2>7, Zenon DEF TasksKept, Q
<1>3. ReleasesKept
  <2>1. IsFiniteSet(IOs) /\ IsFiniteSet(Executors) /\ IsFiniteSet(Threads)
    BY MigrationAssumption, FS_Union DEF Threads
  <2>2. IsFiniteSet(Threads \X Executors)
    BY <2>1, FS_Product
  <2>3. Len(<<>>) = 0
    OBVIOUS
  <2>4. SumFunction(Lengths(release)) = 0
    <3>1. DOMAIN Lengths(release) = Threads \X Executors
      BY Zenon DEF Lengths
    <3>2. \A x \in Threads \X Executors : Lengths(release)[x] = 0
      BY <1>1, <2>3 DEF Lengths
    <3> QED BY <2>2, <3>1, <3>2, SumZero, Zenon
  <2>5. SumFunction(WaitLengths(staleRel)) = 0
    <3>1. DOMAIN WaitLengths(staleRel) = Executors
      BY Zenon DEF WaitLengths
    <3>2. \A x \in Executors : WaitLengths(staleRel)[x] = 0
      BY <1>1, <2>3, Zenon DEF WaitLengths
    <3> QED BY <2>1, <3>1, <3>2, SumZero, Zenon
  <2>6. SumFunction(MaxReleases) \in Int
    <3>1. Coordinator \in IOs /\ MaxReleases \in [IOs -> Int]
      BY MigrationAssumption
    <3>2. SameBut(IOs, MaxReleases, MaxReleases, Coordinator)
      BY Zenon DEF SameBut
    <3> QED BY <2>1, <3>1, <3>2, SumUpdate, Zenon
  <2> QED BY <1>1, <2>4, <2>5, <2>6 DEF ReleasesKept
<1> QED BY <1>2, <1>3, Zenon DEF Kept

\* Kept is an invariant; its steps need the types that IInv fixes.
LEMMA KeptIsInvariant == Spec => []Kept
<1>1. IInv /\ Kept /\ [Next]_vars => Kept'
  BY TasksKeptStep, ReleasesKeptStep, Zenon DEF IInv, Kept
<1> QED BY <1>1, InitIsKept, Invariance, PTL DEF Spec

\* A task that is sent and not executed is in one queue, an executed one in none.
LEMMA TaskInOnePlace ==
    ASSUME Types, TasksKept, NEW i \in IOs, NEW s \in Shards, NEW n \in 1..sent[i][s]
    PROVE  Cardinality({pe \in Threads \X Executors : Task(i, s, n) \in Range(lane[pe[1]][pe[2]])})
             + Cardinality({e \in Executors : Task(i, s, n) \in Range(stale[e])})
           = IF Task(i, s, n) \in executed THEN 0 ELSE 1
<1> DEFINE t == Task(i, s, n)
           Q == Merge(lane, stale)
           lanes == {pe \in Threads \X Executors : t \in Range(lane[pe[1]][pe[2]])}
           waits == {e \in Executors : t \in Range(stale[e])}
<1>1. /\ lane \in [Threads -> [Executors -> Seq(Tasks)]] /\ stale \in [Executors -> Seq(Tasks)]
      /\ sent \in [IOs -> [Shards -> Nat]]
  BY Zenon DEF Types, TaskTypes
<1>2. t \in SentTasks
  <2>1. n \in Nat
    BY <1>1
  <2>2. t \in Tasks /\ t.io = i /\ t.shard = s /\ t.n = n
    BY <2>1 DEF Task, Tasks
  <2> HIDE DEF t
  <2> QED BY <2>2 DEF SentTasks
<1>3. /\ \A p \in Threads, e \in Executors : Q[p][e] = lane[p][e] /\ p \in Producers
      /\ \A e \in Executors : Q[NoThread][e] = stale[e]
      /\ NoThread \in Producers /\ NoThread \notin Threads
  BY NoThreadIsApart, Zenon DEF Merge, Producers
<1>4. /\ \A p \in Threads, e \in Executors :
           t \in Range(lane[p][e]) <=> \E j \in 1..Len(Q[p][e]) : Q[p][e][j] = t
      /\ \A e \in Executors :
           t \in Range(stale[e]) <=> \E j \in 1..Len(Q[NoThread][e]) : Q[NoThread][e][j] = t
  <2> HIDE DEF t, Q
  <2>1. \A x \in Seq(Tasks) : t \in Range(x) <=> \E j \in 1..Len(x) : x[j] = t
    BY DEF Range
  <2> QED BY <1>1, <1>3, <2>1, Zenon
<1>5. /\ Only(Producers, Executors, Q, SentTasks \ executed) /\ Apart(Producers, Executors, Q)
      /\ \A u \in SentTasks \ executed : Found(Producers, Executors, Q, u)
  BY Zenon DEF TasksKept, Once
<1> HIDE DEF t, Q
<1>6. CASE t \in executed
  <2>1. \A p \in Producers, e \in Executors : ~ \E j \in 1..Len(Q[p][e]) : Q[p][e][j] = t
    BY <1>5, <1>6, Zenon DEF Only
  <2>2. lanes = {} /\ waits = {}
    BY <1>3, <1>4, <2>1
  <2>3. Cardinality(lanes) = 0 /\ Cardinality(waits) = 0
    BY <2>2, FS_EmptySet, Zenon
  <2> QED BY <1>6, <2>3 DEF t
<1>7. CASE t \notin executed
  <2>1. Found(Producers, Executors, Q, t)
    BY <1>2, <1>5, <1>7, Zenon
  <2>2. PICK p \in Producers, e \in Executors : \E j \in 1..Len(Q[p][e]) : Q[p][e][j] = t
    BY <2>1, Zenon DEF Found
  <2>3. ASSUME NEW q \in Producers, NEW f \in Executors, \E j \in 1..Len(Q[q][f]) : Q[q][f][j] = t
        PROVE  q = p /\ f = e
    <3>1. Distinct(Q, q, f, p, e)
      BY <1>5, Zenon DEF Apart
    <3> QED BY <2>2, <2>3, <3>1, Zenon DEF Distinct
  <2>4. CASE p \in Threads
    <3>1. lanes = {<<p, e>>}
      BY <1>3, <1>4, <2>2, <2>3, <2>4
    <3>2. waits = {}
      BY <1>3, <1>4, <2>3, <2>4, Zenon
    <3>3. Cardinality(lanes) = 1 /\ Cardinality(waits) = 0
      BY <3>1, <3>2, FS_EmptySet, FS_Singleton, Zenon
    <3> QED BY <1>7, <3>3 DEF t
  <2>5. CASE p = NoThread
    <3>1. lanes = {}
      BY <1>3, <1>4, <2>3, <2>5
    <3>2. waits = {e}
      BY <1>3, <1>4, <2>2, <2>3, <2>5, Zenon
    <3>3. Cardinality(lanes) = 0 /\ Cardinality(waits) = 1
      BY <3>1, <3>2, FS_EmptySet, FS_Singleton, Zenon
    <3> QED BY <1>7, <3>3 DEF t
  <2> QED BY <2>4, <2>5, Zenon DEF Producers
<1> QED BY <1>6, <1>7, Zenon

\* However many threads and shards there are, however often a shard moves and
\* whatever lanes are full when a task or a release is forwarded (drain_tasks,
\* forward_stale_task, drain_releases, forward_stale_release): each task is executed,
\* or is queued exactly once, and no release is lost or applied twice.
THEOREM NothingIsLost == Spec => []NothingLost
<1>1. IInv /\ Kept => NothingLost
  <2> SUFFICES ASSUME Types, TasksKept, ReleasesKept PROVE NothingLost
    BY Zenon DEF IInv, Kept
  <2>1. \A i \in IOs, s \in Shards : \A n \in 1..sent[i][s] :
          Cardinality({pe \in Threads \X Executors : Task(i, s, n) \in Range(lane[pe[1]][pe[2]])})
            + Cardinality({e \in Executors : Task(i, s, n) \in Range(stale[e])})
          = IF Task(i, s, n) \in executed THEN 0 ELSE 1
    BY TaskInOnePlace, Zenon
  <2>2. SumFunction(borrows) + applied
             + SumFunction([pe \in Threads \X Executors |-> Len(release[pe[1]][pe[2]])])
             + SumFunction([e \in Executors |-> Len(staleRel[e])])
           = SumFunction(MaxReleases)
    BY Zenon DEF ReleasesKept, Lengths, WaitLengths
  <2> QED BY <2>1, <2>2, Zenon DEF NothingLost
<1> QED BY <1>1, Invariance, KeptIsInvariant, PTL

=============================================================================
