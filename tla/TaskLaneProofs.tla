--------------------------- MODULE TaskLaneProofs ---------------------------
(***************************************************************************)
(* For every number of producers and every size of the slot array, index   *)
(* range and batch: no lane ever holds more than its block, counting the   *)
(* slots promised to reservations, and the slot array implements one FIFO  *)
(* per producer.                                                           *)
(***************************************************************************)
EXTENDS TaskLaneSteps, FiniteSetTheorems, WellFoundedInduction

-----------------------------------------------------------------------------
(* The partition gives every producer a block that fits the array. *)

Less == {ss \in Nat \X Nat : ss[1] < ss[2]}

\* A set of naturals that is not empty has a least element.
LEMMA LeastNatural ==
    ASSUME NEW T, T \subseteq Nat, T # {}
    PROVE  \E x \in T : \A y \in T : x <= y
<1>1. IsWellFoundedOn(Less, Nat)
  BY NatLessThanWellFounded DEF OpToRel, Less
<1>2. \A x, y \in Nat : y < x => <<y, x>> \in Less
  BY DEF Less
<1> HIDE DEF Less
<1>3. PICK x \in T : \A y \in T : ~(<<y, x>> \in Less)
  BY <1>1, WFMin
<1>4. ASSUME NEW y \in T PROVE x <= y
  <2>1. x \in Nat /\ y \in Nat
    OBVIOUS
  <2>2. ~(y < x)
    BY <1>2, <1>3, <2>1
  <2> QED BY <2>1, <2>2
<1> QED BY <1>4

\* Among the powers of two up to n there is a largest.
LEMMA BitFloorHasTop ==
    ASSUME NEW n \in Nat \ {0}
    PROVE  \E k \in {m \in 1..n : m = 1 \/ \E e \in 1..n : m = 2^e} :
              \A j \in {m \in 1..n : m = 1 \/ \E e \in 1..n : m = 2^e} : j <= k
<1> DEFINE Powers == {k \in 1..n : k = 1 \/ \E e \in 1..n : k = 2^e}
           Gaps == {g \in Nat : n - g \in Powers}
<1>1. n - 1 \in Gaps
  OBVIOUS
<1>2. PICK g \in Gaps : \A h \in Gaps : g <= h
  <2> HIDE DEF Powers
  <2> QED BY <1>1, LeastNatural
<1>3. \A j \in Powers : n - j \in Gaps
  <2> SUFFICES ASSUME NEW j \in Powers PROVE n - j \in Gaps
    OBVIOUS
  <2>1. j \in 1..n
    OBVIOUS
  <2> HIDE DEF Powers
  <2> QED BY <2>1
<1>4. \E k \in Powers : \A j \in Powers : j <= k
  <2>1. n - g \in Powers /\ Powers \subseteq 1..n /\ g \in Nat
    OBVIOUS
  <2> HIDE DEF Powers, Gaps
  <2> QED BY <1>2, <1>3, <2>1
<1> QED BY <1>4, Zenon

\* std::bit_floor rounds down.
LEMMA BitFloorRoundsDown ==
    ASSUME NEW n \in Nat \ {0}
    PROVE  BitFloor(n) \in 1..n
BY BitFloorHasTop DEF BitFloor

\* task_lane_geometry gives every producer at least one slot, and no more than there are.
LEMMA BlocksFit ==
    ASSUME NEW io, Installable(io)
    PROVE  CapOf(io) \in [Producers -> 1..TotalSlots]
<1> DEFINE internal == Cardinality(Producers \ io) * InternalSlots
           share == (TotalSlots - internal) \div Cardinality(io)
<1>1. IsFiniteSet(Producers)
  BY LaneAssumption, FS_Interval DEF LaneAssumption, Producers
<1>2. io \subseteq Producers /\ io # {} /\ io # Producers
  BY DEF Installable
<1>3. IsFiniteSet(io) /\ IsFiniteSet(Producers \ io)
  BY <1>1, <1>2, FS_Subset
<1>4. Cardinality(io) \in Nat \ {0} /\ Cardinality(Producers \ io) \in Nat \ {0}
  BY <1>2, <1>3, FS_CardinalityType, FS_EmptySet
<1>5. internal \in Nat /\ InternalSlots <= internal
  BY <1>4, LaneAssumption DEF LaneAssumption
<1>6. ASSUME internal < TotalSlots PROVE share \in 0..TotalSlots
  <2> HIDE DEF internal
  <2>1. \A a \in Nat, d \in Nat \ {0} : a \div d \in 0..a
    OBVIOUS
  <2>2. TotalSlots - internal \in Nat
    BY <1>5, <1>6, LaneAssumption DEF LaneAssumption
  <2> QED BY <1>4, <1>5, <2>1, <2>2, LaneAssumption DEF LaneAssumption
<1>7. IoCapacity(io) >= InternalSlots
  BY DEF Installable
<1>8. IoCapacity(io) \in 1..TotalSlots
  <2>1. IoCapacity(io) = IF internal >= TotalSlots \/ share = 0 THEN 0 ELSE BitFloor(share)
    BY DEF IoCapacity
  <2> HIDE DEF internal, share
  <2> QED BY <1>5, <1>6, <1>7, <2>1, BitFloorRoundsDown, LaneAssumption DEF LaneAssumption
<1>9. InternalSlots \in 1..TotalSlots
  <2> HIDE DEF internal, share
  <2>1. CASE internal >= TotalSlots
    <3>1. IoCapacity(io) = 0
      BY <2>1 DEF IoCapacity, internal
    <3> QED BY <3>1, <1>8, LaneAssumption DEF LaneAssumption
  <2>2. CASE ~(internal >= TotalSlots)
    BY <2>2, <1>5, LaneAssumption DEF LaneAssumption
  <2> QED BY <2>1, <2>2
<1> QED BY <1>8, <1>9 DEF CapOf

\* So does the geometry of the fused layout.
LEMMA FusedBlocksFit == FusedSlots \in 1..TotalSlots
<1>1. \A a \in Nat, d \in Nat \ {0} : a \div d \in 0..a
  OBVIOUS
<1> QED BY <1>1, LaneAssumption DEF LaneAssumption, FusedSlots

-----------------------------------------------------------------------------
(* Where the blocks of a geometry start. *)

Starts(c, D, f) == [p \in D |-> IF p = 0 THEN 0 ELSE f[p - 1] + c[p - 1]]
StartOf(c) == CHOOSE f : f = Starts(c, Producers, f)

\* The layout loop of remask_quiesced, as an equation between functions.
LEMMA BaseUnfolds == ASSUME NEW c PROVE BaseOf(c) = StartOf(c)
BY Zenon DEF BaseOf, StartOf, Starts

\* That equation has a solution: the loop visits the producers in tid order.
LEMMA StartsExist ==
    ASSUME NEW c
    PROVE  StartOf(c) = Starts(c, Producers, StartOf(c))
<1> DEFINE Bad == {n \in Nat : ~ \E g : g = Starts(c, 0..n, g)}
<1>1. Bad = {}
  <2>1. SUFFICES ASSUME Bad # {} PROVE FALSE
    OBVIOUS
  <2>2. PICK n \in Bad : \A m \in Bad : n <= m
    <3>1. Bad \subseteq Nat
      OBVIOUS
    <3> HIDE DEF Bad
    <3> QED BY <2>1, <3>1, LeastNatural, Zenon
  <2>3. n \in Nat /\ ~ \E g : g = Starts(c, 0..n, g)
    OBVIOUS
  <2>4. CASE n = 0
    <3> DEFINE g == [p \in 0..0 |-> 0]
    <3>1. g = Starts(c, 0..0, g)
      <4>1. \A p \in 0..0 : p = 0
        OBVIOUS
      <4> QED BY <4>1, Zenon DEF Starts
    <3> QED BY <2>3, <2>4, <3>1
  <2>5. CASE n # 0
    <3>1. n - 1 \in Nat /\ n - 1 \notin Bad
      <4> HIDE DEF Bad
      <4> QED BY <2>2, <2>3, <2>5
    <3>2. PICK g : g = Starts(c, 0..(n - 1), g)
      BY <3>1, Zenon
    <3> DEFINE h == Starts(c, 0..n, g)
    <3>3. ASSUME NEW p \in 0..n, p # 0 PROVE h[p - 1] = g[p - 1]
      <4>1. p - 1 \in 0..(n - 1) /\ p - 1 \in 0..n
        BY <2>3, <3>3
      <4> DEFINE q == p - 1
                 v == IF q = 0 THEN 0 ELSE g[q - 1] + c[q - 1]
      <4> HIDE DEF q
      <4>2. q \in 0..(n - 1) /\ q \in 0..n
        BY <4>1 DEF q
      <4>3. g[q] = v
        BY <3>2, <4>2, Zenon DEF Starts
      <4>4. h[q] = v
        BY <4>2, Zenon DEF Starts
      <4> HIDE DEF h, v
      <4> QED BY <4>3, <4>4, Zenon DEF q
    <3>4. h = Starts(c, 0..n, h)
      <4>1. ASSUME NEW p \in 0..n
            PROVE  (IF p = 0 THEN 0 ELSE g[p - 1] + c[p - 1])
                     = (IF p = 0 THEN 0 ELSE h[p - 1] + c[p - 1])
        <5>1. CASE p = 0
          BY <5>1, Zenon
        <5>2. CASE p # 0
          <6>1. h[p - 1] = g[p - 1]
            BY <3>3, <5>2, Zenon
          <6> HIDE DEF h
          <6> QED BY <6>1, Zenon
        <5> QED BY <5>1, <5>2, Zenon
      <4>2. h = [p \in 0..n |-> IF p = 0 THEN 0 ELSE g[p - 1] + c[p - 1]]
        BY Zenon DEF Starts
      <4> HIDE DEF h
      <4> QED BY <4>1, <4>2, Zenon DEF Starts
    <3> HIDE DEF h
    <3> QED BY <2>3, <3>4, Zenon
  <2> QED BY <2>4, <2>5
<1>2. NumProducers - 1 \in Nat /\ Producers = 0..(NumProducers - 1)
  BY LaneAssumption DEF LaneAssumption, Producers
<1>3. \E g : g = Starts(c, Producers, g)
  BY <1>1, <1>2, Zenon
<1> QED BY <1>3, Zenon DEF StartOf

\* Each block starts where the block of the producer before it ends.
LEMMA BaseSteps ==
    ASSUME NEW c \in [Producers -> Nat]
    PROVE  /\ BaseOf(c)[0] = 0
           /\ \A p \in Producers : p # 0 =>
                p - 1 \in Producers /\ BaseOf(c)[p] = BaseOf(c)[p - 1] + c[p - 1]
<1> DEFINE b == BaseOf(c)
<1>1. b = Starts(c, Producers, b)
  BY BaseUnfolds, StartsExist, Zenon
<1> HIDE DEF b
<1>2. \A p \in Producers : b[p] = IF p = 0 THEN 0 ELSE b[p - 1] + c[p - 1]
  BY <1>1, Zenon DEF Starts
<1>3. 0 \in Producers /\ \A p \in Producers : p # 0 => p - 1 \in Producers
  BY LaneAssumption DEF LaneAssumption, Producers
<1> QED BY <1>2, <1>3, Zenon DEF b

\* So a block ends before the block of any later producer starts.
LEMMA BlocksFollow ==
    ASSUME NEW c \in [Producers -> Nat]
    PROVE  /\ BaseOf(c) \in [Producers -> Nat]
           /\ \A p, q \in Producers : p < q => BaseOf(c)[p] + c[p] <= BaseOf(c)[q]
<1> DEFINE b == BaseOf(c)
<1>1. /\ b[0] = 0
      /\ \A p \in Producers : p # 0 => p - 1 \in Producers /\ b[p] = b[p - 1] + c[p - 1]
  BY BaseSteps, Zenon
<1>2. b = [p \in Producers |-> b[p]]
  <2>1. b = Starts(c, Producers, b)
    BY BaseUnfolds, StartsExist, Zenon
  <2> HIDE DEF b
  <2> QED BY <2>1, Zenon DEF Starts
<1> HIDE DEF b
<1>3. Producers \subseteq Nat
  BY DEF Producers
<1>4. \A p \in Producers : b[p] \in Nat
  <2> DEFINE Bad == {p \in Producers : b[p] \notin Nat}
  <2>1. SUFFICES ASSUME Bad # {} PROVE FALSE
    BY Zenon
  <2>2. PICK p \in Bad : \A q \in Bad : p <= q
    <3>1. Bad \subseteq Nat
      BY <1>3, Zenon
    <3> HIDE DEF Bad
    <3> QED BY <2>1, <3>1, LeastNatural, Zenon
  <2>3. p \in Producers /\ b[p] \notin Nat /\ p \in Nat
    BY <1>3
  <2>4. p # 0
    BY <1>1, <2>3
  <2>5. p - 1 \in Producers /\ p - 1 \notin Bad
    <3> HIDE DEF Bad
    <3> QED BY <1>1, <2>2, <2>3, <2>4
  <2>6. b[p - 1] \in Nat /\ c[p - 1] \in Nat
    BY <2>5
  <2> QED BY <1>1, <2>3, <2>4, <2>6
<1>5. ASSUME NEW p \in Producers, NEW q \in Producers, p < q PROVE b[p] + c[p] <= b[q]
  <2> DEFINE Bad == {r \in Producers : p < r /\ ~(b[p] + c[p] <= b[r])}
  <2>1. SUFFICES ASSUME Bad # {} PROVE FALSE
    BY <1>5
  <2>2. PICK r \in Bad : \A s \in Bad : r <= s
    <3>1. Bad \subseteq Nat
      BY <1>3, Zenon
    <3> HIDE DEF Bad
    <3> QED BY <2>1, <3>1, LeastNatural, Zenon
  <2>3. r \in Producers /\ p < r /\ ~(b[p] + c[p] <= b[r]) /\ r \in Nat /\ p \in Nat
    BY <1>3, Zenon
  <2>4. r # 0 /\ r - 1 \in Producers /\ b[r] = b[r - 1] + c[r - 1]
    BY <1>1, <2>3
  <2>5. b[p] \in Nat /\ c[p] \in Nat /\ b[r - 1] \in Nat /\ c[r - 1] \in Nat
    BY <1>4, <2>4, Zenon
  <2>6. CASE r - 1 = p
    BY <2>3, <2>4, <2>5, <2>6
  <2>7. CASE r - 1 # p
    <3>1. r - 1 \notin Bad
      <4> HIDE DEF Bad
      <4> QED BY <2>2, <2>3, <2>4
    <3>2. b[p] + c[p] <= b[r - 1]
      BY <2>3, <2>4, <2>7, <3>1
    <3> QED BY <2>3, <2>4, <2>5, <3>2
  <2> QED BY <2>6, <2>7
<1> QED BY <1>2, <1>4, <1>5 DEF b

-----------------------------------------------------------------------------
(* The blocks fit the array. *)

\* Products grow with their factor.
LEMMA MulMono == ASSUME NEW x \in Nat, NEW y \in Nat, NEW k \in Nat, x <= y
   PROVE x * k <= y * k /\ x * k \in Nat /\ y * k \in Nat
<1>1. PICK d \in Nat : y = x + d
  OBVIOUS
<1>2. y * k = x * k + d * k /\ d * k \in Nat /\ x * k \in Nat
  BY <1>1
<1> QED BY <1>2

\* How many producers of a set come before p.
Before(S, p) == Cardinality(S \cap 0..(p - 1))

\* Counting the producers of one role in tid order.
LEMMA BeforeSteps ==
    ASSUME NEW S \in SUBSET Producers, NEW p \in Producers
    PROVE  /\ Before(S, 0) = 0
           /\ Before(S, p) \in Nat /\ Before(S, p + 1) \in Nat
           /\ Before(S, p + 1) = Before(S, p) + IF p \in S THEN 1 ELSE 0
           /\ Cardinality(S) \in Nat /\ Before(S, p + 1) <= Cardinality(S)
<1>1. IsFiniteSet(Producers) /\ p \in Nat
  BY LaneAssumption, FS_Interval DEF LaneAssumption, Producers
<1>2. IsFiniteSet(S) /\ Cardinality(S) \in Nat
  BY <1>1, FS_Subset, FS_CardinalityType, Zenon
<1> DEFINE X == S \cap 0..(p - 1)
           Y == S \cap 0..((p + 1) - 1)
<1>3. IsFiniteSet(X) /\ Cardinality(X) \in Nat /\ IsFiniteSet(Y) /\ Cardinality(Y) \in Nat
  <2>1. X \subseteq S /\ Y \subseteq S
    BY Zenon
  <2> HIDE DEF X, Y
  <2> QED BY <1>2, <2>1, FS_Subset, FS_CardinalityType
<1>4. Cardinality(Y) <= Cardinality(S)
  <2>1. Y \subseteq S
    BY Zenon
  <2> HIDE DEF Y
  <2> QED BY <1>2, <2>1, FS_Subset, Zenon
<1>5. Cardinality(Y) = Cardinality(X) + IF p \in S THEN 1 ELSE 0
  <2>1. CASE p \in S
    <3>1. Y = X \cup {p} /\ p \notin X
      BY <1>1, <2>1
    <3>2. Cardinality(X \cup {p}) = Cardinality(X) + 1
      <4> HIDE DEF X
      <4> QED BY <1>3, <3>1, FS_AddElement, Zenon
    <3> QED BY <2>1, <3>1, <3>2, Zenon
  <2>2. CASE p \notin S
    <3>1. Y = X
      BY <1>1, <2>2
    <3> HIDE DEF X, Y
    <3> QED BY <1>3, <2>2, <3>1
  <2> QED BY <2>1, <2>2
<1>6. S \cap 0..(0 - 1) = {}
  OBVIOUS
<1>7. Before(S, 0) = 0
  <2>1. Cardinality({}) = 0
    BY FS_EmptySet, Zenon
  <2> QED BY <1>6, <2>1 DEF Before
<1> HIDE DEF X, Y
<1>8. Before(S, p) = Cardinality(X) /\ Before(S, p + 1) = Cardinality(Y)
  BY Zenon DEF Before, X, Y
<1> QED BY <1>2, <1>3, <1>4, <1>5, <1>7, <1>8

\* With one block size per role, the layout ends within the sum of the blocks.
LEMMA TwoSizes ==
    ASSUME NEW S \in SUBSET Producers, NEW I \in Nat, NEW E \in Nat,
           NEW c \in [Producers -> Nat],
           \A p \in Producers : c[p] = IF p \in S THEN I ELSE E,
           NEW p \in Producers
    PROVE  BaseOf(c)[p] + c[p] <= Cardinality(S) * I + Cardinality(Producers \ S) * E
<1> DEFINE b == BaseOf(c)
           O == Producers \ S
           Sum(q) == Before(S, q) * I + Before(O, q) * E
<1>1. /\ b[0] = 0
      /\ \A q \in Producers : q # 0 => q - 1 \in Producers /\ b[q] = b[q - 1] + c[q - 1]
  BY BaseSteps, Zenon
<1>2. Producers \subseteq Nat /\ 0 \in Producers
  BY LaneAssumption DEF LaneAssumption, Producers
<1>3. O \in SUBSET Producers
  BY Zenon
<1>4. ASSUME NEW q \in Producers PROVE Sum(q) \in Nat /\ Sum(q + 1) = Sum(q) + c[q]
  <2>1. /\ Before(S, q) \in Nat /\ Before(O, q) \in Nat
        /\ Before(S, q + 1) = Before(S, q) + IF q \in S THEN 1 ELSE 0
        /\ Before(O, q + 1) = Before(O, q) + IF q \in O THEN 1 ELSE 0
    BY <1>3, BeforeSteps, Zenon
  <2> DEFINE x == Before(S, q)
             y == Before(O, q)
  <2> HIDE DEF x, y
  <2>2. x \in Nat /\ y \in Nat /\ x * I \in Nat /\ y * E \in Nat
    BY <2>1 DEF x, y
  <2>3. CASE q \in S
    <3>1. Before(S, q + 1) = x + 1 /\ Before(O, q + 1) = y /\ c[q] = I
      BY <2>1, <2>2, <2>3 DEF x, y
    <3>2. (x + 1) * I = x * I + I
      BY <2>2
    <3> QED BY <2>2, <3>1, <3>2 DEF x, y
  <2>4. CASE q \notin S
    <3>1. Before(S, q + 1) = x /\ Before(O, q + 1) = y + 1 /\ c[q] = E
      BY <2>1, <2>2, <2>4 DEF x, y
    <3>2. (y + 1) * E = y * E + E
      BY <2>2
    <3> QED BY <2>2, <3>1, <3>2 DEF x, y
  <2> QED BY <2>3, <2>4, Zenon
<1>5. Sum(0) = 0
  <2>1. Before(S, 0) = 0 /\ Before(O, 0) = 0
    BY <1>3, BeforeSteps, Zenon
  <2> QED BY <2>1
<1> HIDE DEF Sum, b
<1>6. \A q \in Producers : b[q] = Sum(q)
  <2> DEFINE Bad == {q \in Producers : b[q] # Sum(q)}
  <2>1. SUFFICES ASSUME Bad # {} PROVE FALSE
    BY Zenon
  <2>2. PICK q \in Bad : \A r \in Bad : q <= r
    <3>1. Bad \subseteq Nat
      BY <1>2, Zenon
    <3> HIDE DEF Bad
    <3> QED BY <2>1, <3>1, LeastNatural, Zenon
  <2>3. q \in Producers /\ b[q] # Sum(q) /\ q \in Nat
    BY <1>2
  <2>4. q # 0
    BY <1>1, <1>5, <2>3, Zenon
  <2>5. q - 1 \in Producers /\ b[q] = b[q - 1] + c[q - 1] /\ q - 1 \notin Bad
    <3> HIDE DEF Bad
    <3> QED BY <1>1, <2>2, <2>3, <2>4
  <2>6. Sum(q - 1 + 1) = Sum(q - 1) + c[q - 1] /\ b[q - 1] = Sum(q - 1)
    BY <1>4, <2>5
  <2>7. q - 1 + 1 = q
    BY <2>3
  <2> QED BY <2>3, <2>5, <2>6, <2>7, Zenon
<1>7. b[p] + c[p] = Sum(p + 1)
  BY <1>4, <1>6, Zenon
<1>8. Sum(p + 1) <= Cardinality(S) * I + Cardinality(O) * E
  <2> DEFINE x == Before(S, p + 1)
             y == Before(O, p + 1)
             u == Cardinality(S)
             v == Cardinality(O)
  <2>1. x \in Nat /\ y \in Nat /\ u \in Nat /\ v \in Nat /\ x <= u /\ y <= v
    BY <1>3, BeforeSteps, Zenon
  <2>2. Sum(p + 1) = x * I + y * E
    BY Zenon DEF Sum
  <2> HIDE DEF x, y, u, v
  <2>3. x * I <= u * I /\ y * E <= v * E /\ x * I \in Nat /\ y * E \in Nat
        /\ u * I \in Nat /\ v * E \in Nat
    BY <2>1, MulMono, Zenon
  <2>4. x * I + y * E <= u * I + v * E
    BY <2>3
  <2> QED BY <2>2, <2>4, Zenon DEF u, v
<1> QED BY <1>7, <1>8, Zenon DEF b

\* bit_floor gives a power of two, which divides the range of the uint32 indices.
LEMMA BitFloorIsPower ==
    ASSUME NEW n \in 1..TotalSlots
    PROVE  BitFloor(n) \in 1..n /\ IndexMod % BitFloor(n) = 0
<1> DEFINE Powers == {k \in 1..n : k = 1 \/ \E e \in 1..n : k = 2^e}
           top == CHOOSE k \in Powers : \A j \in Powers : j <= k
<1>1. TotalSlots \in Nat /\ n \in Nat \ {0}
  BY LaneAssumption DEF LaneAssumption
<1>2. \E k \in Powers : \A j \in Powers : j <= k
  BY <1>1, BitFloorHasTop, Zenon
<1>3. top \in Powers
  <2> HIDE DEF Powers
  <2> QED BY <1>2, Zenon
<1>4. BitFloor(n) = top
  BY Zenon DEF BitFloor
<1> HIDE DEF top
<1>5. top \in 1..n /\ (top = 1 \/ \E e \in 1..n : top = 2^e)
  BY <1>3, Zenon
<1>6. top \in 1..TotalSlots /\ (top = 1 \/ \E e \in 1..TotalSlots : top = 2^e)
  <2>1. \A e \in 1..n : e \in 1..TotalSlots
    BY <1>1
  <2> QED BY <1>5, <2>1, Zenon
<1>7. IndexMod % top = 0
  BY <1>6, LaneAssumption, Zenon DEF LaneAssumption
<1> QED BY <1>4, <1>5, <1>7, Zenon

\* init_local and remask_quiesced lay out blocks that are apart and fit the array.
LEMMA RoleBlocks ==
    ASSUME NEW io, Installable(io)
    PROVE  Blocks(BaseOf(CapOf(io)), CapOf(io))
<1> DEFINE c == CapOf(io)
           I == IoCapacity(io)
           E == InternalSlots
           d == Cardinality(io)
           internal == Cardinality(Producers \ io) * E
           share == (TotalSlots - internal) \div d
<1>1. c \in [Producers -> 1..TotalSlots] /\ io \in SUBSET Producers /\ I >= E
  BY BlocksFit, Zenon DEF Installable
<1>2. \A p \in Producers : c[p] = IF p \in io THEN I ELSE E
  BY Zenon DEF CapOf
<1>3. TotalSlots \in Nat /\ E \in Nat \ {0}
  BY LaneAssumption DEF LaneAssumption
<1>4. IsFiniteSet(io) /\ IsFiniteSet(Producers \ io) /\ io # {} /\ io # Producers
  <2>1. IsFiniteSet(Producers)
    BY LaneAssumption, FS_Interval DEF LaneAssumption, Producers
  <2> QED BY <1>1, <2>1, FS_Subset, Zenon DEF Installable
<1>5. d \in Nat \ {0} /\ Cardinality(Producers \ io) \in Nat
  BY <1>4, FS_CardinalityType, FS_EmptySet
<1>6. internal \in Nat
  BY <1>3, <1>5
<1>7. I = IF internal >= TotalSlots \/ share = 0 THEN 0 ELSE BitFloor(share)
  BY Zenon DEF IoCapacity
<1> HIDE DEF c, I, E, d, internal
<1>8. I \in Nat /\ ~(internal >= TotalSlots) /\ share # 0 /\ I = BitFloor(share)
  BY <1>1, <1>3, <1>7
<1>9. share \in 1..TotalSlots /\ d * share <= TotalSlots - internal
  <2>1. TotalSlots - internal \in Nat
    BY <1>3, <1>6, <1>8
  <2>2. /\ share \in Nat /\ (TotalSlots - internal) % d \in 0..(d - 1)
        /\ TotalSlots - internal = d * share + ((TotalSlots - internal) % d)
    BY <1>5, <2>1, DivMod, Zenon
  <2> DEFINE r == (TotalSlots - internal) % d
  <2> HIDE DEF share, r
  <2>3. r \in Nat /\ d * share \in Nat /\ TotalSlots - internal = d * share + r
    BY <1>5, <2>2 DEF r
  <2>4. d * share >= share
    BY <1>5, <2>2, MulGe
  <2> QED BY <1>3, <1>6, <1>8, <2>2, <2>3, <2>4
<1> HIDE DEF share
<1>10. I \in 1..share /\ IndexMod % I = 0
  BY <1>8, <1>9, BitFloorIsPower, Zenon
<1>11. d * I <= TotalSlots - internal /\ d * I \in Nat
  <2>1. I * d <= share * d /\ I * d \in Nat /\ share \in Nat /\ I \in Nat
    BY <1>5, <1>9, <1>10, MulMono
  <2>2. I * d = d * I /\ share * d = d * share /\ d * share \in Int
    BY <1>5, <2>1
  <2> QED BY <1>3, <1>6, <1>9, <2>1, <2>2
<1>12. ASSUME NEW p \in Producers PROVE BaseOf(c)[p] + c[p] <= TotalSlots
  <2>1. c \in [Producers -> Nat] /\ I \in Nat /\ E \in Nat
    BY <1>1, <1>3, <1>8
  <2>2. BaseOf(c)[p] + c[p] <= d * I + internal
    BY <1>1, <1>2, <2>1, TwoSizes, Zenon DEF d, internal
  <2>3. BaseOf(c)[p] \in Nat /\ c[p] \in Nat
    BY <2>1, BlocksFollow
  <2> QED BY <1>3, <1>6, <1>11, <2>2, <2>3
<1>13. IndexMod % E = 0
  <2>1. E \in 1..TotalSlots
    <3>1. PICK p \in Producers : p \notin io
      BY <1>1, <1>4
    <3> QED BY <1>1, <1>2, <3>1
  <2> QED BY <2>1, LaneAssumption, Zenon DEF LaneAssumption, E
<1>14. \A p \in Producers : IndexMod % c[p] = 0
  BY <1>2, <1>10, <1>13
<1>15. /\ BaseOf(c) \in [Producers -> Nat]
       /\ \A p, q \in Producers : p < q => BaseOf(c)[p] + c[p] <= BaseOf(c)[q]
  <2>1. c \in [Producers -> Nat]
    BY <1>1
  <2> QED BY <2>1, BlocksFollow, Zenon
<1>16. Blocks(BaseOf(c), c)
  BY <1>1, <1>12, <1>14, <1>15, Zenon DEF Blocks
<1> QED BY <1>16, Zenon DEF c

\* So does init_local_fused, with its equal blocks.
LEMMA FusedBlocks ==
    ASSUME NEW c, c = [p \in Producers |-> FusedSlots]
    PROVE  Blocks(BaseOf(c), c)
<1>1. /\ NumProducers \in Nat \ {0, 1} /\ TotalSlots \in Nat
      /\ FusedSlots \in 1..TotalSlots
  BY LaneAssumption, FusedBlocksFit DEF LaneAssumption
<1>2. c \in [Producers -> 1..TotalSlots] /\ c \in [Producers -> Nat]
      /\ \A p \in Producers : c[p] = FusedSlots
  BY <1>1
<1>3. NumProducers * FusedSlots <= TotalSlots
  <2>1. /\ FusedSlots \in Nat /\ TotalSlots % NumProducers \in 0..(NumProducers - 1)
        /\ TotalSlots = NumProducers * FusedSlots + (TotalSlots % NumProducers)
    <3>1. NumProducers \in Nat \ {0}
      BY <1>1
    <3> QED BY <1>1, <3>1, DivMod, Zenon DEF FusedSlots
  <2> DEFINE r == TotalSlots % NumProducers
  <2> HIDE DEF r
  <2>2. r \in Nat /\ TotalSlots = NumProducers * FusedSlots + r
    BY <1>1, <2>1 DEF r
  <2>3. NumProducers * FusedSlots \in Nat
    BY <1>1, <2>1
  <2> QED BY <1>1, <2>2, <2>3
<1>4. ASSUME NEW p \in Producers PROVE BaseOf(c)[p] + c[p] <= TotalSlots
  <2>1. \A q \in Producers : c[q] = IF q \in Producers THEN FusedSlots ELSE 0
    BY <1>2
  <2>2. FusedSlots \in Nat /\ 0 \in Nat /\ Producers \in SUBSET Producers
    BY <1>1
  <2>3. BaseOf(c)[p] + c[p]
          <= Cardinality(Producers) * FusedSlots + Cardinality(Producers \ Producers) * 0
    BY <1>2, <2>1, <2>2, TwoSizes, Zenon
  <2>4. Cardinality(Producers) = NumProducers
    BY <1>1, FS_Interval DEF Producers
  <2>5. Cardinality(Producers \ Producers) = 0
    <3>1. Producers \ Producers = {}
      BY Zenon
    <3> QED BY <3>1, FS_EmptySet, Zenon
  <2>6. NumProducers * FusedSlots \in Nat /\ BaseOf(c)[p] \in Nat /\ c[p] \in Nat
    BY <1>1, <1>2, <2>2, BlocksFollow
  <2> QED BY <1>1, <1>3, <2>3, <2>4, <2>5, <2>6
<1>5. IndexMod % FusedSlots = 0
  BY <1>1, LaneAssumption, Zenon DEF LaneAssumption, FusedSlots
<1>6. /\ BaseOf(c) \in [Producers -> Nat]
      /\ \A p, q \in Producers : p < q => BaseOf(c)[p] + c[p] <= BaseOf(c)[q]
  BY <1>2, BlocksFollow, Zenon
<1> QED BY <1>2, <1>4, <1>5, <1>6, Zenon DEF Blocks

-----------------------------------------------------------------------------
(* The lanes as constructed, and a repartition. *)

\* The lanes as constructed.
LEMMA InitOK == Init => IInv
<1> SUFFICES ASSUME Init PROVE IInv
  OBVIOUS
<1>1. cap \in [Producers -> 1..TotalSlots]
  BY BlocksFit, FusedBlocksFit DEF Init
<1> QED BY <1>1, FreshLanes DEF Init, FreshState

\* The lanes as constructed.
LEMMA InitContent == Init => Content /\ EmptyLanes
<1> SUFFICES ASSUME Init PROVE Content /\ EmptyLanes
  OBVIOUS
<1>1. Blocks(base, cap)
  <2>1. CASE \E io \in SUBSET Producers : Installable(io) /\ cap = CapOf(io)
    BY <2>1, RoleBlocks, Zenon DEF Init
  <2>2. CASE cap = [p \in Producers |-> FusedSlots]
    BY <2>2, FusedBlocks, Zenon DEF Init
  <2> QED BY <2>1, <2>2, Zenon DEF Init
<1>2. slots \in [0..(TotalSlots - 1) -> Values \cup {None}]
  BY DEF Init
<1> QED BY <1>1, <1>2, FreshContent, Zenon DEF Init

\* They start as empty queues.
LEMMA InitRefines == Init => Abstract!Init
<1> SUFFICES ASSUME Init PROVE Abstract!Init
  OBVIOUS
<1>1. EmptyQueues /\ reading = <<>>
  BY InitContent, EmptyLaneIsEmptyQueue DEF Init
<1> QED BY <1>1, Zenon DEF EmptyQueues, Abstract!Init

\* remask_quiesced installs another geometry while every lane is empty.
LEMMA RemaskOK ==
    ASSUME IInv, NEW io \in SUBSET Producers, remask_quiesced(io)
    PROVE  IInv'
<1>1. CapOf(io) \in [Producers -> 1..TotalSlots]
  BY BlocksFit DEF remask_quiesced
<1>2. writing = Fresh
  BY DEF remask_quiesced, IInv, TypeOK, Fresh
<1>3. credit = [p \in Producers |-> FALSE]
  <2>1. \A p \in Producers : ~credit[p]
    BY DEF remask_quiesced, IInv, LaneOK, CreditIsReserved
  <2> QED BY <2>1 DEF IInv, TypeOK
<1>4. FreshState'
  <2>1. /\ head' = Fresh /\ tail' = Fresh /\ headCached' = Fresh /\ tailCached' = Fresh
        /\ retired' = Fresh /\ writing' = Fresh /\ reading' = <<>>
    BY <1>2 DEF remask_quiesced
  <2>2. credit' = [p \in Producers |-> FALSE]
    BY <1>3 DEF remask_quiesced
  <2>3. cap' \in [Producers -> 1..TotalSlots] /\ avail' = cap'
    BY <1>1 DEF remask_quiesced
  <2>4. Fresh' = Fresh
    BY DEF Fresh
  <2> QED BY <2>1, <2>2, <2>3, <2>4 DEF FreshState
<1>5. (FreshState => IInv)'
  BY FreshLanes, PTL
<1> QED BY <1>4, <1>5

\* remask_quiesced installs another geometry while every lane is empty: quiesced lanes
\* have retired, and so popped, everything pushed.
LEMMA RemaskRefines ==
    ASSUME IInv, Content, NEW io \in SUBSET Producers, remask_quiesced(io)
    PROVE  Content' /\ Simulates
<1>1. EmptyLanes
  <2> SUFFICES ASSUME NEW p \in Producers PROVE Dist(head[p], tail[p]) = 0
    BY DEF EmptyLanes, remask_quiesced
  <2>1. retired[p] = tail[p]
    BY Zenon DEF remask_quiesced, all_quiesced, quiesced
  <2>2. retired[p] \in Index /\ head[p] \in Index /\ tail[p] \in Index
    BY LaneFacts, Zenon
  <2>3. /\ Dist(retired[p], head[p]) \in Nat /\ Dist(head[p], tail[p]) \in Nat
        /\ Dist(tail[p], tail[p]) = 0
    <3>1. /\ Dist(retired[p], head[p]) \in Index /\ Dist(head[p], tail[p]) \in Index
          /\ Dist(tail[p], tail[p]) = 0
      BY <2>2, DistInRange, Zenon
    <3> QED BY <3>1, LaneAssumption DEF Index, LaneAssumption
  <2>4. Dist(retired[p], head[p]) + Dist(head[p], tail[p]) = Dist(retired[p], tail[p])
    BY Zenon DEF Content, BatchTrails
  <2> QED BY <2>1, <2>3, <2>4
<1>2. writing = Fresh
  BY DEF remask_quiesced, IInv, TypeOK, Fresh
<1>3. Blocks(base, cap)'
  BY RoleBlocks, Zenon DEF remask_quiesced, Blocks
<1>4. (Content /\ EmptyLanes)'
  <2>1. /\ head' = Fresh /\ retired' = Fresh /\ tail' = Fresh /\ writing' = Fresh
        /\ reading' = <<>> /\ slots' \in [0..(TotalSlots - 1) -> Values \cup {None}]
    BY <1>2, Zenon DEF remask_quiesced, Content
  <2> DEFINE Start == /\ head = Fresh /\ retired = Fresh /\ tail = Fresh /\ writing = Fresh
                      /\ reading = <<>> /\ Blocks(base, cap)
                      /\ slots \in [0..(TotalSlots - 1) -> Values \cup {None}]
  <2>2. (Start => Content /\ EmptyLanes)'
    BY FreshContent, PTL
  <2>3. Start'
    BY <1>3, <2>1, Zenon DEF Fresh
  <2> QED BY <2>2, <2>3, Zenon
<1>5. EmptyQueues /\ EmptyQueues'
  <2>1. (EmptyLanes => EmptyQueues)'
    BY EmptyLaneIsEmptyQueue, PTL
  <2> QED BY <1>1, <1>4, <2>1, EmptyLaneIsEmptyQueue, Zenon
<1>6. \A q \in Producers : QueueOf(q)' = QueueOf(q)
  BY <1>5, Zenon DEF EmptyQueues
<1>7. reading' = reading
  BY DEF remask_quiesced
<1> QED BY <1>4, <1>6, <1>7, IsStutter, Zenon

-----------------------------------------------------------------------------
(* Every step. *)

\* Every step keeps the invariant.
LEMMA NextOK == IInv /\ [Next]_vars => IInv'
<1> SUFFICES ASSUME IInv, [Next]_vars PROVE IInv'
  OBVIOUS
<1>1. ASSUME NEW p \in Producers, NEW v \in Values, PushWrite(p, <<v>>)
      PROVE  IInv'
  <2>1. <<v>> \in Seq(Values) /\ Len(<<v>>) \in 1..2
    OBVIOUS
  <2> QED BY <1>1, <2>1, PushWriteOK
<1>2. ASSUME NEW p \in Producers, NEW v \in Values, NEW w \in Values, PushWrite(p, <<v, w>>)
      PROVE  IInv'
  <2>1. <<v, w>> \in Seq(Values) /\ Len(<<v, w>>) \in 1..2
    OBVIOUS
  <2> QED BY <1>2, <2>1, PushWriteOK
<1>3. CASE UNCHANGED vars
  <2>1. TypeOK'
    BY <1>3 DEF IInv, TypeOK, vars
  <2>2. \A p \in Producers : LaneOK(p)'
    BY <1>3, Untouched DEF IInv, vars
  <2>3. ReadIsPublished'
    BY <1>3 DEF IInv, ReadIsPublished, vars
  <2> QED BY <2>1, <2>2, <2>3 DEF IInv
<1> QED BY <1>1, <1>2, <1>3, PushReservedWriteOK, ReserveOK, CancelOK, PushPublishOK,
           PopReadOK, PopAdvanceOK, RetireOK, RemaskOK DEF Next

\* Every step of the lanes is a step of the queues, or none.
LEMMA StepRefines ==
    ASSUME IInv, Content, [Next]_vars
    PROVE  Content' /\ Simulates
<1>0. IInv'
  BY NextOK
<1> USE DEF consumerVars, producerVars, geometry
<1>1. ASSUME NEW p \in Producers, NEW items \in Seq(Values), Len(items) \in 1..2,
             PushWrite(p, items)
      PROVE  Content' /\ Simulates
  <2>1. CASE HasRoom(p, Len(items))
    <3>1. Writes(p, items)
      BY <1>1, <2>1, Zenon DEF PushWrite, Writes
    <3> QED BY <1>0, <1>1, <3>1, WriteOK
  <2>2. CASE ~HasRoom(p, Len(items))
    BY <1>0, <1>1, <2>2, QuietRefines, Zenon DEF PushWrite
  <2> QED BY <2>1, <2>2
<1>2. ASSUME NEW p \in Producers, NEW v \in Values, PushReservedWrite(p, v)
      PROVE  Content' /\ Simulates
  <2>1. <<v>> \in Seq(Values) /\ Len(<<v>>) \in 1..2 /\ Len(<<v>>) = 1
    OBVIOUS
  <2>2. Writes(p, <<v>>)
    BY <1>2, <2>1, Zenon DEF PushReservedWrite, Writes
  <2> QED BY <1>0, <2>1, <2>2, WriteOK, Zenon
<1>3. ASSUME NEW p \in Producers, NEW n \in 1..TotalSlots, reserve(p, n) \/ cancel_reservation(p, n)
      PROVE  Content' /\ Simulates
  BY <1>0, <1>3, QuietRefines DEF reserve, cancel_reservation
<1>4. ASSUME NEW p \in Producers, PushPublish(p) PROVE Content' /\ Simulates
  BY <1>0, <1>4, PublishOK, Zenon
<1>5. ASSUME NEW p \in Producers, PopRead(p) PROVE Content' /\ Simulates
  <2>1. CASE head[p] = tailCached'[p]
    BY <1>0, <1>5, <2>1, QuietRefines, Zenon DEF PopRead
  <2>2. CASE head[p] # tailCached'[p]
    <3>1. Takes(p)
      BY <1>5, <2>2, Zenon DEF PopRead, Takes
    <3> QED BY <1>0, <3>1, TakeOK
  <2> QED BY <2>1, <2>2
<1>6. ASSUME NEW p \in Producers, NEW n \in 1..MaxHeld, retire_n(p, n) PROVE Content' /\ Simulates
  BY <1>0, <1>6, RetireRefines
<1>7. CASE PopAdvance
  BY <1>0, <1>7, TookOK
<1>8. ASSUME NEW io \in SUBSET Producers, remask_quiesced(io) PROVE Content' /\ Simulates
  BY <1>8, RemaskRefines
<1>9. CASE UNCHANGED vars
  BY <1>0, <1>9, QuietRefines DEF vars
<1>10. \A v, w \in Values : /\ <<v>> \in Seq(Values) /\ Len(<<v>>) \in 1..2
                            /\ <<v, w>> \in Seq(Values) /\ Len(<<v, w>>) \in 1..2
  OBVIOUS
<1> QED BY <1>1, <1>2, <1>3, <1>4, <1>5, <1>6, <1>7, <1>8, <1>9, <1>10, Zenon DEF Next

\* Whatever the producers' and the consumer's stale copies, the wrap-around of
\* the indices, reservations and repartitions do, a lane's tasks, the slots being
\* written and the reserved credits fit its block: push_reserved, which looks at
\* no frontier, never overwrites a task the consumer has not read.
THEOREM LanesNeverOverrun == Spec => [](TypeOK /\ CreditsCoverReservations)
<1>1. Init => IInv
  BY InitOK
<1>2. IInv /\ [Next]_vars => IInv'
  BY NextOK
<1>3. IInv => TypeOK /\ CreditsCoverReservations
  BY ImpliesCover DEF IInv
<1> QED BY <1>1, <1>2, <1>3, PTL DEF Spec

\* Whatever the stale copies of the frontiers, reservations, the wrap-around of the
\* indices and repartitions do, the consumer takes from every producer's lane what was
\* pushed there, in order and once: the slot array of masked_queue.h implements LaneFifo.
THEOREM LanesAreQueues == Spec => ImplementsFifo
<1>1. Init => IInv /\ Content /\ Abstract!Init
  BY InitOK, InitContent, InitRefines
<1>2. (IInv /\ Content) /\ [Next]_vars => (IInv /\ Content)' /\ Simulates
  BY NextOK, StepRefines
<1>3. Simulates => [Abstract!Next]_<<queues, reading>>
  BY DEF Simulates
<1> QED BY <1>1, <1>2, <1>3, PTL DEF Spec, ImplementsFifo, Abstract!Spec, queues
=============================================================================
