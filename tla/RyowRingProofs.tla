--------------------------- MODULE RyowRingProofs ---------------------------
(***************************************************************************)
(* A local read never passes a write of its own connection, for every      *)
(* window, set of hashes, tag and filter width.                            *)
(*                                                                         *)
(* LocalReadsPassNoWrite says nothing of how the parser knows a write.     *)
(* The inductive invariant does: every write in flight is Known, that is   *)
(* at or below the newest id while the connection is not armed, or staged, *)
(* or inside the overflow generation, or a live descriptor of the ring     *)
(* whose slot the filter lets through.  The rest keeps that true: ids grow *)
(* along the ring and stay below the candidate, so a pruned ring always    *)
(* has room for it; and an id newer than every id in flight belongs to a   *)
(* refused write, which is parsed again before any read.                   *)
(***************************************************************************)
EXTENDS RyowRing, WellFoundedInduction, TLAPS

Less == {p \in Nat \X Nat : p[1] < p[2]}

\* A non-empty set of naturals has a least element.
LEMMA LeastNatural ==
    ASSUME NEW T, T \subseteq Nat, T # {}
    PROVE  \E x \in T : \A y \in T : x <= y
<1>1. IsWellFoundedOn(Less, Nat)
  BY NatLessThanWellFounded DEF OpToRel, Less
<1>2. \A x, y \in Nat : y < x => <<y, x>> \in Less
  BY DEF Less
<1> HIDE DEF Less
<1>3. PICK x \in T : \A y \in T : ~(<<y, x>> \in Less)
  BY <1>1, WFMin, Zenon
<1>4. ASSUME NEW y \in T PROVE x <= y
  <2>1. x \in Nat /\ y \in Nat
    OBVIOUS
  <2>2. ~(y < x)
    BY <1>2, <1>3, <2>1, Zenon
  <2> QED BY <2>1, <2>2
<1> QED BY <1>4

-----------------------------------------------------------------------------
(* The invariant. *)

Bits == UNION {keyset_filter(h) : h \in Hashes}
Tags == {Tag(h) : h \in Nat} \cup {0}
Descriptors == [id : Nat \cup {NoId}, hash : Nat \cup {NoId}, filter : SUBSET Bits]

StateType ==
    [arm : {"unarmed", "fence", "armed"}, newest : Nat \cup {NoId},
     sidecar : {None, "inactive", "active"},
     pending : {None, "overflow", "hash", "keyset"},
     pendingId : Nat, hash : Nat, filter : SUBSET Bits,
     overflow : BOOLEAN, through : Nat,
     ring : [Slots -> Descriptors], head : Slots, count : Nat,
     keyset : SUBSET Slots, tags : [Slots -> Tags],
     valid : SUBSET Slots, wide : SUBSET Slots, force : BOOLEAN]

\* The i-th live descriptor.
Entry(s, i) == s.ring[RingSlot(s, i)]
Live(s) == 0..(s.count - 1)

\* The filter lets the hash of a live descriptor through.
Filtered(s, i) ==
    /\ RingSlot(s, i) \in s.valid
    /\ IF RingSlot(s, i) \in s.keyset THEN RingSlot(s, i) \in s.wide
       ELSE s.tags[RingSlot(s, i)] = Tag(Entry(s, i).hash)

RingOK(s) ==
    /\ s.count <= Window
    /\ \A i \in Live(s) : Entry(s, i).id \in Nat /\ Filtered(s, i)
    /\ \A i, j \in Live(s) : i < j => Entry(s, i).id + (j - i) <= Entry(s, j).id

\* The id that every recorded id is below.
Bound(s, d) == IF s.pending = None THEN d ELSE s.pendingId

IdsOK(s, d) ==
    /\ s.pending # None => s.pendingId <= d
    /\ \A i \in Live(s) : Entry(s, i).id < Bound(s, d)
    /\ s.overflow => s.through < Bound(s, d)

ModeOK(s) ==
    /\ s.sidecar # "active" => s.pending = None /\ ~s.overflow /\ s.count = 0
    /\ s.overflow => s.force

Sound(s, d) == s \in StateType /\ RingOK(s) /\ IdsOK(s, d) /\ ModeOK(s)

\* The candidate is staged for id w, and describes the op.
Staged(s, w, op) ==
    /\ s.pending # None /\ s.pendingId = w
    /\ \/ s.pending = "overflow"
       \/ s.pending = "hash" /\ op.keys = {s.hash}
       \/ s.pending = "keyset" /\ s.filter = FilterOf(op.keys)

Describes(s, i, w, op) ==
    /\ Entry(s, i).id = w
    /\ IF RingSlot(s, i) \in s.keyset THEN Entry(s, i).filter = FilterOf(op.keys)
       ELSE op.keys = {Entry(s, i).hash}

Known(s, w, op) ==
    \/ s.arm # "armed" /\ w <= s.newest
    \/ Staged(s, w, op)
    \/ s.overflow /\ w <= s.through
    \/ ~s.overflow /\ \E i \in Live(s) : Describes(s, i, w, op)

\* t knows every write in flight that s knows.
Keeps(s, t, d, f) ==
    \A w \in Nat : \A op : Active(w, d, f) /\ Known(s, w, op) => Known(t, w, op)

\* What the handling of the ring leaves alone.
SameCandidate(s, t) ==
    /\ t.arm = s.arm /\ t.newest = s.newest /\ t.sidecar = s.sidecar
    /\ t.pending = s.pending /\ t.pendingId = s.pendingId
    /\ t.hash = s.hash /\ t.filter = s.filter /\ t.through = s.through

-----------------------------------------------------------------------------
(* The ring. *)

\* Emptying the ring and its filter touches nothing else.
LEMMA EmptyRingFields ==
    ASSUME NEW s \in StateType
    PROVE  /\ EmptyRing(s) \in StateType /\ SameCandidate(s, EmptyRing(s))
           /\ EmptyRing(s).count = 0
           /\ EmptyRing(s).overflow = s.overflow /\ EmptyRing(s).force = s.force
<1>1. 0 \in Slots
  BY RyowAssumption DEF RyowAssumption, Slots
<1> QED BY <1>1, Zenon DEF EmptyRing, StateType, SameCandidate

\* The prefix of retired descriptors that read_local_prune drops exists.
LEMMA PrefixExists ==
    ASSUME NEW s, s.count \in Nat, NEW d, NEW f
    PROVE  LET n == RetiredPrefix(s, d, f)
           IN /\ n \in 0..s.count
              /\ \A i \in 0..(n - 1) : ~Active(Entry(s, i).id, d, f)
              /\ n < s.count => Active(Entry(s, n).id, d, f)
<1> DEFINE A(i) == Active(s.ring[RingSlot(s, i)].id, d, f)
           T == {n \in 0..s.count : n = s.count \/ A(n)}
<1> HIDE DEF A
<1>1. T \subseteq Nat /\ s.count \in T
  OBVIOUS
<1>2. PICK n \in T : \A m \in T : n <= m
  BY <1>1, LeastNatural, Zenon
<1>3. /\ n \in 0..s.count
      /\ \A i \in 0..(n - 1) : ~A(i)
      /\ n < s.count => A(n)
  BY <1>2
<1>4. \E m \in 0..s.count : (\A i \in 0..(m - 1) : ~A(i)) /\ (m < s.count => A(m))
  BY <1>3
<1> QED BY <1>4 DEF A, RetiredPrefix, Entry

\* Live descriptors have slots of their own.
LEMMA SlotsDiffer ==
    ASSUME NEW s \in StateType, NEW i \in 0..Window, NEW j \in 0..Window,
           i < j, j - i < Window
    PROVE  /\ RingSlot(s, i) # RingSlot(s, j)
           /\ RingSlot(s, i) \in Slots
<1>1. s.head \in 0..(Window - 1)
  BY DEF StateType, Slots
<1> QED BY <1>1, RyowAssumption DEF RyowAssumption, RingSlot, Wrap, Slots

\* A pruned state: what read_local_prune returns.
Pruned(s, p, d, f) ==
    /\ Sound(p, d) /\ SameCandidate(s, p) /\ Keeps(s, p, d, f)
    /\ p.overflow => s.overflow
    /\ ~p.overflow /\ p.count > 0 => Active(Entry(p, 0).id, d, f)

\* Pruning drops descriptors and generations that retired, and no others.
LEMMA PruneOK ==
    ASSUME NEW s, NEW d \in Nat, NEW f \in Nat, f <= d, Sound(s, d)
    PROVE  Pruned(s, read_local_prune(s, d, f), d, f)
<1> DEFINE p == read_local_prune(s, d, f)
<1>1. s \in StateType /\ RingOK(s) /\ IdsOK(s, d) /\ ModeOK(s)
  BY DEF Sound
<1>2. Bound(s, d) <= d /\ Bound(s, d) \in Nat
  BY <1>1 DEF Bound, IdsOK, StateType
<1>3. CASE s.overflow /\ Active(s.through, d, f)
  <2>1. p = s
    BY <1>3 DEF read_local_prune
  <2> QED BY <1>1, <1>3, <2>1 DEF Pruned, SameCandidate, Keeps, Sound
<1>4. CASE s.overflow /\ ~Active(s.through, d, f)
  <2>1. p = [EmptyRing(s) EXCEPT !.overflow = FALSE, !.force = FALSE]
    BY <1>4 DEF read_local_prune
  <2>2. /\ p \in StateType /\ SameCandidate(s, p) /\ p.count = 0
        /\ p.overflow = FALSE
    <3> DEFINE e == EmptyRing(s)
    <3>1. e \in StateType /\ SameCandidate(s, e) /\ e.count = 0
      BY <1>1, EmptyRingFields
    <3>2. p = [e EXCEPT !.overflow = FALSE, !.force = FALSE]
      BY <2>1
    <3> HIDE DEF e, p
    <3> QED BY <3>1, <3>2, Zenon DEF StateType, SameCandidate
  <2> HIDE DEF p
  <2>3. Live(p) = {}
    BY <2>2 DEF Live
  <2>4. Sound(p, d)
    BY <1>1, <2>2, <2>3, RyowAssumption
       DEF RyowAssumption, Sound, RingOK, IdsOK, ModeOK, SameCandidate
  <2>5. s.through < f
    BY <1>1, <1>2, <1>4 DEF IdsOK, Active, StateType
  <2>6. Keeps(s, p, d, f)
    <3> SUFFICES ASSUME NEW w \in Nat, NEW op, Active(w, d, f), Known(s, w, op)
                 PROVE  Known(p, w, op)
      BY DEF Keeps
    <3>1. ~(w <= s.through)
      BY <1>1, <2>5 DEF Active, StateType
    <3>2. (s.arm # "armed" /\ w <= s.newest) \/ Staged(s, w, op)
      BY <1>4, <3>1 DEF Known
    <3> QED BY <2>2, <3>2 DEF Known, Staged, SameCandidate
  <2> QED BY <2>2, <2>4, <2>6 DEF Pruned, p
<1>5. CASE ~s.overflow
  <2> DEFINE n == RetiredPrefix(s, d, f)
             gone == {RingSlot(s, i) : i \in 0..(n - 1)}
  <2>1. /\ n \in 0..s.count
        /\ \A i \in 0..(n - 1) : ~Active(Entry(s, i).id, d, f)
        /\ n < s.count => Active(Entry(s, n).id, d, f)
    <3>1. s.count \in Nat
      BY <1>1 DEF StateType
    <3> QED BY <3>1, PrefixExists
  <2>2. CASE n = s.count
    <3>1. p = EmptyRing(s)
      BY <1>5, <2>2 DEF read_local_prune
    <3>2. /\ p \in StateType /\ SameCandidate(s, p) /\ p.count = 0
          /\ p.overflow = s.overflow /\ p.force = s.force
      BY <1>1, <3>1, EmptyRingFields
    <3> HIDE DEF p, n
    <3>3. Live(p) = {} /\ Live(s) = 0..(n - 1)
      BY <2>2, <3>2 DEF Live
    <3>4. Sound(p, d)
      BY <1>1, <1>5, <3>2, <3>3, RyowAssumption
         DEF RyowAssumption, Sound, RingOK, IdsOK, ModeOK, SameCandidate
    <3>5. Keeps(s, p, d, f)
      <4> SUFFICES ASSUME NEW w \in Nat, NEW op, Active(w, d, f), Known(s, w, op)
                   PROVE  Known(p, w, op)
        BY DEF Keeps
      <4>1. ~ \E i \in Live(s) : Describes(s, i, w, op)
        BY <2>1, <3>3 DEF Describes
      <4>2. (s.arm # "armed" /\ w <= s.newest) \/ Staged(s, w, op)
        BY <1>5, <4>1 DEF Known
      <4> QED BY <3>2, <4>2 DEF Known, Staged, SameCandidate
    <3> QED BY <1>5, <3>2, <3>4, <3>5 DEF Pruned, p
  <2>3. CASE n < s.count
    <3>1. p = [s EXCEPT !.head = RingSlot(s, n), !.count = @ - n,
                        !.keyset = @ \ gone, !.valid = @ \ gone, !.wide = @ \ gone]
      BY <1>5, <2>1, <2>3 DEF read_local_prune
    <3>2. n \in 0..(Window - 1) /\ n \in Nat /\ s.count - n \in Nat
      BY <1>1, <2>1, <2>3, RyowAssumption DEF RingOK, StateType, RyowAssumption
    <3>3. RingSlot(s, n) \in Slots
      BY <1>1, <3>2, RyowAssumption DEF RyowAssumption, RingSlot, Wrap, Slots, StateType
    <3> HIDE DEF p, n, gone
    <3>4. /\ p \in StateType /\ SameCandidate(s, p) /\ p.count = s.count - n
          /\ p.overflow = s.overflow /\ p.force = s.force /\ p.head = RingSlot(s, n)
          /\ p.keyset = s.keyset \ gone /\ p.valid = s.valid \ gone
          /\ p.wide = s.wide \ gone /\ p.ring = s.ring /\ p.tags = s.tags
      BY <1>1, <3>1, <3>2, <3>3, Zenon DEF StateType, SameCandidate
    <3>5. ASSUME NEW i \in Live(p)
          PROVE  /\ n + i \in Live(s) /\ i \in Nat
                 /\ RingSlot(p, i) = RingSlot(s, n + i)
                 /\ RingSlot(s, n + i) \notin gone
      <4>1. i \in Nat /\ i < s.count - n /\ n + i \in 0..(Window - 1) /\ n + i < s.count
        BY <1>1, <3>2, <3>4, RyowAssumption DEF Live, RingOK, StateType, RyowAssumption
      <4>2. RingSlot(p, i) = RingSlot(s, n + i)
        <5>1. s.head \in 0..(Window - 1)
          BY <1>1 DEF StateType, Slots
        <5>2. RingSlot(p, i) = Wrap(Wrap(s.head + n) + i)
          BY <3>4 DEF RingSlot
        <5>3. Wrap(Wrap(s.head + n) + i) = Wrap(s.head + (n + i))
          BY <3>2, <4>1, <5>1, RyowAssumption DEF RyowAssumption, Wrap
        <5> QED BY <5>2, <5>3 DEF RingSlot
      <4>3. \A k \in 0..(n - 1) : RingSlot(s, k) # RingSlot(s, n + i)
        BY <1>1, <3>2, <4>1, SlotsDiffer, RyowAssumption DEF RyowAssumption
      <4>4. n + i \in Live(s)
        BY <1>1, <3>2, <4>1 DEF Live, StateType
      <4>5. RingSlot(s, n + i) \notin gone
        BY <4>3 DEF gone
      <4> QED BY <4>1, <4>2, <4>4, <4>5
    <3>6. ASSUME NEW i \in Live(p)
          PROVE  /\ Entry(p, i) = Entry(s, n + i)
                 /\ RingSlot(p, i) \in p.keyset <=> RingSlot(s, n + i) \in s.keyset
                 /\ Filtered(s, n + i) => Filtered(p, i)
      BY <3>4, <3>5 DEF Entry, Filtered
    <3>7. RingOK(p)
      <4>1. p.count <= Window
        BY <1>1, <3>2, <3>4, RyowAssumption DEF RingOK, StateType, RyowAssumption
      <4>2. \A i \in Live(p) : Entry(p, i).id \in Nat /\ Filtered(p, i)
        BY <1>1, <3>5, <3>6 DEF RingOK
      <4>3. ASSUME NEW i \in Live(p), NEW j \in Live(p), i < j
            PROVE  Entry(p, i).id + (j - i) <= Entry(p, j).id
        <5>1. n + i < n + j /\ (n + j) - (n + i) = j - i
          BY <3>2, <3>5, <4>3
        <5>2. Entry(s, n + i).id + ((n + j) - (n + i)) <= Entry(s, n + j).id
          BY <1>1, <3>5, <5>1 DEF RingOK
        <5> QED BY <3>6, <5>1, <5>2
      <4> QED BY <4>1, <4>2, <4>3 DEF RingOK
    <3>8. IdsOK(p, d)
      <4>1. Bound(p, d) = Bound(s, d)
        BY <3>4 DEF Bound, SameCandidate
      <4>2. \A i \in Live(p) : Entry(p, i).id < Bound(s, d)
        BY <1>1, <3>5, <3>6 DEF IdsOK
      <4> QED BY <1>1, <3>4, <4>1, <4>2 DEF IdsOK, SameCandidate
    <3>9. ModeOK(p)
      BY <1>1, <1>5, <2>3, <3>2, <3>4 DEF ModeOK, SameCandidate, StateType
    <3>10. Keeps(s, p, d, f)
      <4> SUFFICES ASSUME NEW w \in Nat, NEW op, Active(w, d, f), Known(s, w, op)
                   PROVE  Known(p, w, op)
        BY DEF Keeps
      <4>1. CASE \E i \in Live(s) : Describes(s, i, w, op)
        <5>1. PICK i \in Live(s) : Describes(s, i, w, op)
          BY <4>1
        <5>2. i \in Nat /\ i >= n
          <6>1. i \notin 0..(n - 1)
            BY <2>1, <5>1 DEF Describes
          <6> QED BY <3>2, <6>1 DEF Live
        <5>3. i - n \in Live(p) /\ n + (i - n) = i
          BY <1>1, <3>2, <3>4, <5>2 DEF Live, StateType
        <5>4. Describes(p, i - n, w, op)
          BY <3>6, <5>1, <5>3 DEF Describes
        <5> QED BY <1>5, <3>4, <5>3, <5>4 DEF Known
      <4>2. CASE ~ \E i \in Live(s) : Describes(s, i, w, op)
        <5>1. (s.arm # "armed" /\ w <= s.newest) \/ Staged(s, w, op)
          BY <1>5, <4>2 DEF Known
        <5> QED BY <3>4, <5>1 DEF Known, Staged, SameCandidate
      <4> QED BY <4>1, <4>2
    <3>11. Active(Entry(p, 0).id, d, f)
      <4>1. 0 \in Live(p) /\ n + 0 = n
        BY <1>1, <2>3, <3>2, <3>4 DEF Live, StateType
      <4>2. Entry(p, 0) = Entry(s, n)
        BY <3>6, <4>1
      <4> QED BY <2>1, <2>3, <4>2 DEF n
    <3>12. Pruned(s, p, d, f)
      BY <1>5, <3>4, <3>7, <3>8, <3>9, <3>10, <3>11 DEF Pruned, Sound
    <3> QED BY <3>12 DEF p
  <2>4. s.count \in Nat
    BY <1>1 DEF StateType
  <2> HIDE DEF n
  <2> QED BY <2>1, <2>2, <2>3, <2>4
<1> QED BY <1>3, <1>4, <1>5

\* A resolved state: the candidate is recorded or forgotten.
Resolved(s, t, d, f) ==
    /\ Sound(t, d) /\ Keeps(s, t, d, f)
    /\ t.pending = None /\ t.arm = s.arm /\ t.newest = s.newest

\* A pruned ring has room for the candidate: its ids are in flight, they grow
\* by one at least, and they are below the candidate's.
LEMMA RoomLeft ==
    ASSUME NEW s, NEW d \in Nat, NEW f \in Nat, d <= f + Window, Sound(s, d),
           s.pending # None, Active(s.pendingId, d, f),
           s.count > 0 => Active(Entry(s, 0).id, d, f)
    PROVE  s.count < Window
<1>1. s.count \in Nat /\ s.pendingId \in Nat /\ s.pendingId < d
  BY DEF Sound, StateType, Active
<1>2. CASE s.count = 0
  BY <1>2, RyowAssumption DEF RyowAssumption
<1>3. CASE s.count > 0
  <2> DEFINE last == s.count - 1
  <2>1. 0 \in Live(s) /\ last \in Live(s) /\ last \in Nat
    BY <1>1, <1>3 DEF Live
  <2>2. /\ Entry(s, 0).id \in Nat /\ Entry(s, last).id \in Nat
        /\ 0 < last => Entry(s, 0).id + (last - 0) <= Entry(s, last).id
    BY <2>1 DEF Sound, RingOK
  <2>3. Entry(s, last).id < s.pendingId
    BY <2>1 DEF Sound, IdsOK, Bound
  <2>4. f <= Entry(s, 0).id
    BY <1>3 DEF Active
  <2> QED BY <1>1, <1>3, <2>1, <2>2, <2>3, <2>4, RyowAssumption DEF RyowAssumption
<1> QED BY <1>1, <1>2, <1>3

\* The descriptor that records a published candidate overwrites no live one.
LEMMA RecordOK ==
    ASSUME NEW s, NEW d \in Nat, NEW f \in Nat, Sound(s, d), ~s.overflow,
           s.pending \in {"hash", "keyset"}, s.pendingId < d, s.count < Window
    PROVE  Resolved(s, [Record(s, s.pendingId) EXCEPT !.pending = None], d, f)
<1> DEFINE t == [Record(s, s.pendingId) EXCEPT !.pending = None]
           tail == RingSlot(s, s.count)
           new == [id |-> s.pendingId, hash |-> s.hash, filter |-> s.filter]
<1>1. s \in StateType /\ RingOK(s) /\ IdsOK(s, d) /\ ModeOK(s)
  BY DEF Sound
<1>2. s.count \in Nat /\ s.head \in 0..(Window - 1) /\ s.pendingId \in Nat
  BY <1>1 DEF StateType, Slots
<1>3. tail \in Slots
  BY <1>2, RyowAssumption DEF RyowAssumption, RingSlot, Wrap, Slots
<1>4. new \in Descriptors /\ Tag(s.hash) \in Tags
  BY <1>1 DEF Descriptors, Tags, StateType
<1>5. /\ t \in StateType
      /\ t.pending = None /\ t.arm = s.arm /\ t.newest = s.newest
      /\ t.sidecar = s.sidecar /\ t.overflow = s.overflow /\ t.force = s.force
      /\ t.head = s.head /\ t.count = s.count + 1
      /\ t.ring = [s.ring EXCEPT ![tail] = new]
      /\ t.tags = [s.tags EXCEPT ![tail] = Tag(s.hash)]
      /\ t.valid = s.valid \cup {tail}
      /\ s.pending = "keyset" => /\ t.keyset = s.keyset \cup {tail}
                                 /\ t.wide = s.wide \cup {tail}
      /\ s.pending # "keyset" => /\ t.keyset = s.keyset \ {tail}
                                 /\ t.wide = s.wide \ {tail}
  <2> HIDE DEF tail, new
  <2>1. t = [s EXCEPT !.ring[tail] = new, !.tags[tail] = Tag(s.hash),
                 !.valid = @ \cup {tail},
                 !.keyset = IF s.pending = "keyset" THEN @ \cup {tail} ELSE @ \ {tail},
                 !.wide = IF s.pending = "keyset" THEN @ \cup {tail} ELSE @ \ {tail},
                 !.count = @ + 1, !.pending = None]
    BY <1>1 DEF Record, tail, new, StateType
  <2> HIDE DEF t
  <2>2. s.count + 1 \in Nat /\ None \in {None, "overflow", "hash", "keyset"}
    BY <1>2
  <2>3. /\ [s.ring EXCEPT ![tail] = new] \in [Slots -> Descriptors]
        /\ [s.tags EXCEPT ![tail] = Tag(s.hash)] \in [Slots -> Tags]
        /\ s.valid \cup {tail} \in SUBSET Slots
        /\ s.keyset \cup {tail} \in SUBSET Slots /\ s.keyset \ {tail} \in SUBSET Slots
        /\ s.wide \cup {tail} \in SUBSET Slots /\ s.wide \ {tail} \in SUBSET Slots
    BY <1>1, <1>3, <1>4 DEF StateType
  <2> QED BY <1>1, <2>1, <2>2, <2>3, Zenon DEF StateType
<1> HIDE DEF t
<1>6. \A i \in Live(t) : RingSlot(t, i) = RingSlot(s, i)
  BY <1>5 DEF RingSlot
<1>7. s.count \in Live(t) /\ Live(t) = Live(s) \cup {s.count} /\ s.count \notin Live(s)
  BY <1>2, <1>5 DEF Live
<1>8. \A i \in Live(s) : RingSlot(s, i) # tail /\ RingSlot(s, i) \in Slots /\ i \in Nat
  <2> SUFFICES ASSUME NEW i \in Live(s) 
               PROVE  RingSlot(s, i) # tail /\ RingSlot(s, i) \in Slots /\ i \in Nat
    OBVIOUS
  <2>1. i \in 0..Window /\ i \in Nat /\ s.count \in 0..Window /\ i < s.count /\ s.count - i < Window + 1
    BY <1>2, RyowAssumption DEF Live, RyowAssumption
  <2>2. s.count - i < Window
    BY <1>2, <2>1, RyowAssumption DEF RyowAssumption
  <2> QED BY <1>1, <2>1, <2>2, SlotsDiffer
<1>9. ASSUME NEW i \in Live(s)
      PROVE  /\ Entry(t, i) = Entry(s, i)
             /\ RingSlot(t, i) \in t.keyset <=> RingSlot(s, i) \in s.keyset
             /\ Filtered(s, i) => Filtered(t, i)
  <2> HIDE DEF tail, new
  <2>1. /\ t.ring[RingSlot(s, i)] = s.ring[RingSlot(s, i)]
        /\ t.tags[RingSlot(s, i)] = s.tags[RingSlot(s, i)]
    BY <1>1, <1>5, <1>8 DEF StateType
  <2>2. RingSlot(t, i) = RingSlot(s, i)
    BY <1>6, <1>7
  <2>3. /\ RingSlot(s, i) \in t.keyset <=> RingSlot(s, i) \in s.keyset
        /\ RingSlot(s, i) \in t.wide <=> RingSlot(s, i) \in s.wide
        /\ RingSlot(s, i) \in t.valid <=> RingSlot(s, i) \in s.valid
    BY <1>5, <1>8
  <2> QED BY <2>1, <2>2, <2>3 DEF Entry, Filtered
<1>10. /\ Entry(t, s.count) = new /\ Filtered(t, s.count)
       /\ RingSlot(t, s.count) \in t.keyset <=> s.pending = "keyset"
  <2>1. RingSlot(t, s.count) = tail
    BY <1>6, <1>7
  <2> HIDE DEF tail
  <2>2. t.ring[tail] = new /\ t.tags[tail] = Tag(s.hash)
    BY <1>1, <1>3, <1>5 DEF StateType
  <2> QED BY <1>5, <2>1, <2>2 DEF Entry, Filtered
<1>11. \A i \in Live(s) : Entry(s, i).id < s.pendingId /\ Entry(s, i).id \in Nat
  BY <1>1 DEF IdsOK, Bound, RingOK, None
<1>12. RingOK(t)
  <2>1. t.count <= Window
    BY <1>2, <1>5, RyowAssumption DEF RyowAssumption
  <2>2. \A i \in Live(t) : Entry(t, i).id \in Nat /\ Filtered(t, i)
    BY <1>1, <1>2, <1>7, <1>9, <1>10 DEF RingOK
  <2>3. ASSUME NEW i \in Live(t), NEW j \in Live(t), i < j
        PROVE  Entry(t, i).id + (j - i) <= Entry(t, j).id
    <3>1. i \in Live(s)
      BY <1>2, <1>7, <2>3 DEF Live
    <3>2. CASE j \in Live(s)
      BY <1>1, <1>9, <2>3, <3>1, <3>2 DEF RingOK
    <3>3. CASE j = s.count
      <4> DEFINE last == s.count - 1
      <4>1. last \in Live(s) /\ i \in Nat /\ last \in Nat
        BY <1>2, <3>1 DEF Live
      <4>2. /\ i < last => Entry(s, i).id + (last - i) <= Entry(s, last).id
            /\ i = last \/ i < last
        BY <1>1, <1>2, <3>1, <4>1 DEF RingOK, Live
      <4>3. /\ Entry(s, last).id < s.pendingId /\ Entry(s, last).id \in Nat
            /\ Entry(s, i).id \in Nat
        BY <1>11, <3>1, <4>1
      <4>4. Entry(s, i).id + (j - i) <= s.pendingId
        BY <1>2, <3>3, <4>1, <4>2, <4>3
      <4> QED BY <1>9, <1>10, <3>1, <3>3, <4>4
    <3> QED BY <1>7, <3>2, <3>3
  <2> QED BY <2>1, <2>2, <2>3 DEF RingOK
<1>13. IdsOK(t, d)
  <2>1. \A i \in Live(t) : Entry(t, i).id < d
    BY <1>2, <1>7, <1>9, <1>10, <1>11
  <2> QED BY <1>5, <2>1 DEF IdsOK, Bound
<1>14. ModeOK(t)
  BY <1>1, <1>5 DEF ModeOK, None
<1>15. Keeps(s, t, d, f)
  <2> SUFFICES ASSUME NEW w \in Nat, NEW op, Active(w, d, f), Known(s, w, op)
               PROVE  Known(t, w, op)
    BY DEF Keeps
  <2>1. CASE s.arm # "armed" /\ w <= s.newest
    BY <1>5, <2>1 DEF Known
  <2>2. CASE Staged(s, w, op)
    <3>1. Describes(t, s.count, w, op)
      BY <1>10, <2>2 DEF Staged, Describes
    <3> QED BY <1>5, <1>7, <3>1 DEF Known
  <2>3. CASE \E i \in Live(s) : Describes(s, i, w, op)
    <3>1. PICK i \in Live(s) : Describes(s, i, w, op)
      BY <2>3
    <3>2. Describes(t, i, w, op)
      BY <1>9, <3>1 DEF Describes
    <3> QED BY <1>5, <1>7, <3>2 DEF Known
  <2> QED BY <2>1, <2>2, <2>3 DEF Known
<1>16. Resolved(s, t, d, f)
  BY <1>5, <1>12, <1>13, <1>14, <1>15 DEF Resolved, Sound
<1> QED BY <1>16 DEF t

\* A published candidate that enters the overflow generation covers every id
\* the ring and the generation covered.
LEMMA ExtendOK ==
    ASSUME NEW s, NEW d \in Nat, NEW f \in Nat, Sound(s, d),
           s.pending # None, s.pendingId < d
    PROVE  Resolved(s, [ExtendOverflow(s, s.pendingId) EXCEPT !.pending = None], d, f)
<1> DEFINE t == [ExtendOverflow(s, s.pendingId) EXCEPT !.pending = None]
           e == EmptyRing(s)
<1>1. s \in StateType /\ RingOK(s) /\ IdsOK(s, d) /\ ModeOK(s) /\ s.pendingId \in Nat
  BY DEF Sound, StateType
<1>2. e \in StateType /\ SameCandidate(s, e) /\ e.count = 0
  BY <1>1, EmptyRingFields
<1>3. t = [[e EXCEPT !.overflow = TRUE, !.through = s.pendingId, !.force = TRUE]
             EXCEPT !.pending = None]
  BY DEF ExtendOverflow
<1> HIDE DEF t, e
<1>4. /\ t \in StateType /\ t.pending = None /\ t.overflow = TRUE /\ t.force = TRUE
      /\ t.through = s.pendingId /\ t.count = 0
      /\ t.arm = s.arm /\ t.newest = s.newest /\ t.sidecar = s.sidecar
  BY <1>1, <1>2, <1>3, Zenon DEF StateType, SameCandidate
<1>5. Live(t) = {}
  BY <1>4 DEF Live
<1>6. Sound(t, d)
  BY <1>1, <1>4, <1>5, RyowAssumption
     DEF RyowAssumption, Sound, RingOK, IdsOK, ModeOK, Bound
<1>7. Keeps(s, t, d, f)
  <2> SUFFICES ASSUME NEW w \in Nat, NEW op, Active(w, d, f), Known(s, w, op)
               PROVE  Known(t, w, op)
    BY DEF Keeps
  <2>1. CASE s.arm # "armed" /\ w <= s.newest
    BY <1>4, <2>1 DEF Known
  <2>2. CASE Staged(s, w, op)
    BY <1>1, <1>4, <2>2 DEF Known, Staged
  <2>3. CASE s.overflow /\ w <= s.through
    <3>1. s.through < s.pendingId /\ s.through \in Nat
      BY <1>1, <2>3 DEF IdsOK, Bound, StateType
    <3>2. w <= s.pendingId
      BY <1>1, <2>3, <3>1
    <3> QED BY <1>4, <3>2 DEF Known
  <2>4. CASE \E i \in Live(s) : Describes(s, i, w, op)
    <3>1. w < s.pendingId
      BY <1>1, <2>4 DEF IdsOK, Bound, Describes
    <3>2. w <= s.pendingId
      BY <1>1, <3>1
    <3> QED BY <1>4, <3>2 DEF Known
  <2> QED BY <2>1, <2>2, <2>3, <2>4 DEF Known
<1>8. Resolved(s, t, d, f)
  BY <1>4, <1>6, <1>7 DEF Resolved
<1> QED BY <1>8 DEF t

\* read_local_resolve_pending loses no write in flight.
LEMMA ResolveOK ==
    ASSUME NEW s, NEW d \in Nat, NEW f \in Nat, f <= d, d <= f + Window, Sound(s, d)
    PROVE  Resolved(s, Resolve(s, d, f), d, f)
<1>1. CASE s.pending = None
  BY <1>1 DEF Resolve, Resolved, Keeps
<1>2. CASE s.pending # None /\ ~Active(s.pendingId, d, f)
  <2> DEFINE t == [s EXCEPT !.pending = None]
  <2>1. s \in StateType /\ s.pendingId \in Nat /\ s.pendingId <= d
    BY <1>2 DEF Sound, IdsOK, StateType
  <2>2. /\ t \in StateType /\ t.pending = None
        /\ t.arm = s.arm /\ t.newest = s.newest /\ t.sidecar = s.sidecar
        /\ t.overflow = s.overflow /\ t.through = s.through /\ t.force = s.force
        /\ t.ring = s.ring /\ t.tags = s.tags /\ t.head = s.head /\ t.count = s.count
        /\ t.keyset = s.keyset /\ t.valid = s.valid /\ t.wide = s.wide
    BY <2>1 DEF StateType
  <2> HIDE DEF t
  <2>3. /\ Live(t) = Live(s)
        /\ \A i : RingSlot(t, i) = RingSlot(s, i) /\ Entry(t, i) = Entry(s, i)
        /\ \A i : Filtered(t, i) <=> Filtered(s, i)
    BY <2>2 DEF Live, RingSlot, Entry, Filtered
  <2>4. RingOK(t) /\ ModeOK(t)
    BY <2>2, <2>3 DEF Sound, RingOK, ModeOK
  <2>5. IdsOK(t, d)
    <3>1. \A i \in Live(s) : Entry(s, i).id < d
      <4>1. \A i \in Live(s) : Entry(s, i).id \in Nat /\ Entry(s, i).id < s.pendingId
        BY <1>2 DEF Sound, RingOK, IdsOK, Bound
      <4> QED BY <2>1, <4>1
    <3>2. s.overflow => s.through < d
      <4>1. s.overflow => s.through \in Nat /\ s.through < s.pendingId
        BY <1>2, <2>1 DEF Sound, IdsOK, Bound, StateType
      <4> QED BY <2>1, <4>1
    <3> QED BY <2>2, <2>3, <3>1, <3>2 DEF IdsOK, Bound
  <2>6. Keeps(s, t, d, f)
    <3> SUFFICES ASSUME NEW w \in Nat, NEW op, Active(w, d, f), Known(s, w, op)
                 PROVE  Known(t, w, op)
      BY DEF Keeps
    <3>1. ~Staged(s, w, op)
      BY <1>2 DEF Staged
    <3>2. \A i : Describes(s, i, w, op) => Describes(t, i, w, op)
      BY <2>2, <2>3 DEF Describes
    <3> QED BY <2>2, <2>3, <3>1, <3>2 DEF Known
  <2>7. Resolve(s, d, f) = t
    BY <1>2 DEF Resolve, t
  <2> QED BY <2>2, <2>4, <2>5, <2>6, <2>7 DEF Resolved, Sound
<1>3. CASE s.pending # None /\ Active(s.pendingId, d, f)
  <2> DEFINE p == read_local_prune(s, d, f)
  <2>1. Pruned(s, p, d, f)
    BY PruneOK
  <2>2. Resolve(s, d, f) = [IF p.overflow \/ s.pending = "overflow"
                            THEN ExtendOverflow(p, s.pendingId)
                            ELSE Record(p, s.pendingId) EXCEPT !.pending = None]
    BY <1>3 DEF Resolve
  <2> HIDE DEF p
  <2>3. /\ Sound(p, d) /\ p.pending = s.pending /\ p.pendingId = s.pendingId
        /\ p.arm = s.arm /\ p.newest = s.newest /\ Keeps(s, p, d, f)
        /\ p.pendingId < d
    BY <1>3, <2>1 DEF Pruned, SameCandidate, Active
  <2>4. CASE p.overflow \/ s.pending = "overflow"
    <3>1. Resolved(p, [ExtendOverflow(p, p.pendingId) EXCEPT !.pending = None], d, f)
      BY <1>3, <2>3, ExtendOK
    <3>2. Resolved(p, Resolve(s, d, f), d, f)
      BY <2>2, <2>3, <2>4, <3>1
    <3> QED BY <2>3, <3>2 DEF Resolved, Keeps
  <2>5. CASE ~(p.overflow \/ s.pending = "overflow")
    <3>1. p.pending \in {"hash", "keyset"}
      BY <1>3, <2>3, <2>5 DEF Sound, StateType
    <3>2. p.count < Window
      BY <1>3, <2>1, <2>3, <2>5, RoomLeft DEF Pruned, Sound, StateType
    <3>3. Resolved(p, [Record(p, p.pendingId) EXCEPT !.pending = None], d, f)
      BY <2>3, <2>5, <3>1, <3>2, RecordOK
    <3>4. Resolved(p, Resolve(s, d, f), d, f)
      BY <2>2, <2>3, <2>5, <3>3
    <3> QED BY <2>3, <3>4 DEF Resolved, Keeps
  <2> QED BY <2>4, <2>5
<1> QED BY <1>1, <1>2, <1>3

-----------------------------------------------------------------------------
(* Staging a write. *)

\* What a staged write of op leaves behind, under the id d it would publish.
StagedOK(s, t, op, d, f) ==
    /\ Sound(t, d) /\ Keeps(s, t, d, f) /\ Known(t, d, op)
    /\ t.newest = d \/ (t.arm = s.arm /\ t.newest = s.newest)

\* A point write has one key; every filter is a set of filter bits.
LEMMA FrameKeys ==
    ASSUME NEW op \in Frames
    PROVE  /\ op.keys \subseteq Hashes /\ FilterOf(op.keys) \in SUBSET Bits
           /\ op.kind = "point" => \E h \in Nat : op.keys = {h}
           /\ op.kind \in {"point", "keyset", "read", "broad", "other"}
<1>1. op.keys \subseteq Hashes
  BY DEF Frames
<1>2. FilterOf(op.keys) \in SUBSET Bits
  <2> HIDE DEF keyset_filter
  <2> QED BY <1>1 DEF FilterOf, Bits
<1> QED BY <1>1, <1>2, RyowAssumption, Zenon DEF RyowAssumption, Frames

\* An unarmed connection, or one that cannot get its sidecar, keeps the newest
\* id, which covers the frame and every write in flight.
LEMMA UnarmOK ==
    ASSUME NEW s, NEW d \in Nat, NEW f \in Nat, NEW op, Sound(s, d)
    PROVE  StagedOK(s, Unarm(s, d), op, d, f) /\ Unarm(s, d).arm = "unarmed"
<1> DEFINE t == Unarm(s, d)
<1>1. s \in StateType
  BY DEF Sound
<1>2. /\ t \in StateType /\ t.pending = s.pending /\ t.pendingId = s.pendingId
      /\ t.arm = "unarmed" /\ t.newest = d /\ t.sidecar = s.sidecar
      /\ t.overflow = s.overflow /\ t.through = s.through /\ t.force = s.force
      /\ t.ring = s.ring /\ t.tags = s.tags /\ t.head = s.head /\ t.count = s.count
      /\ t.keyset = s.keyset /\ t.valid = s.valid /\ t.wide = s.wide
  BY <1>1, Zenon DEF Unarm, StateType
<1> HIDE DEF t
<1>3. /\ Live(t) = Live(s) /\ Bound(t, d) = Bound(s, d)
      /\ \A i : Entry(t, i) = Entry(s, i)
      /\ \A i : Filtered(t, i) <=> Filtered(s, i)
  BY <1>2 DEF Live, RingSlot, Entry, Filtered, Bound
<1>4. Sound(t, d)
  BY <1>2, <1>3 DEF Sound, RingOK, IdsOK, ModeOK
<1>5. \A w \in Nat : w <= d => \A o : Known(t, w, o)
  BY <1>2 DEF Known
<1>6. Keeps(s, t, d, f)
  BY <1>5 DEF Keeps, Active
<1>7. Known(t, d, op)
  BY <1>5
<1>8. StagedOK(s, t, op, d, f)
  BY <1>2, <1>4, <1>6, <1>7 DEF StagedOK
<1> QED BY <1>2, <1>8 DEF t

\* A candidate staged over a resolved and pruned state, whatever it says of
\* its keys, covers the frame if it describes it.
LEMMA CandidateOK ==
    ASSUME NEW s, NEW p, NEW t \in StateType, NEW d \in Nat, NEW f \in Nat, NEW op,
           Pruned(s, p, d, f), s.pending = None,
           t.arm = s.arm, t.newest = s.newest, t.sidecar = "active", t.pendingId = d,
           t.pending # None, Staged(t, d, op),
           t.overflow = p.overflow, t.through = p.through, t.force = p.force,
           t.ring = p.ring, t.tags = p.tags, t.head = p.head, t.count = p.count,
           t.keyset = p.keyset, t.valid = p.valid, t.wide = p.wide
    PROVE  StagedOK(s, t, op, d, f)
<1>1. Sound(p, d) /\ SameCandidate(s, p) /\ Keeps(s, p, d, f)
  BY DEF Pruned
<1>2. /\ Live(t) = Live(p) /\ Bound(t, d) = d /\ Bound(p, d) = d
      /\ \A i : RingSlot(t, i) = RingSlot(p, i) /\ Entry(t, i) = Entry(p, i)
      /\ \A i : Filtered(t, i) <=> Filtered(p, i)
  BY <1>1 DEF Live, RingSlot, Entry, Filtered, Bound, SameCandidate
<1>3. Sound(t, d)
  BY <1>1, <1>2 DEF Sound, RingOK, IdsOK, ModeOK
<1>4. Keeps(p, t, d, f)
  <2> SUFFICES ASSUME NEW w \in Nat, NEW o, Active(w, d, f), Known(p, w, o)
               PROVE  Known(t, w, o)
    BY DEF Keeps
  <2>1. ~Staged(p, w, o)
    BY <1>1 DEF Staged, SameCandidate
  <2>2. \A i : Describes(p, i, w, o) => Describes(t, i, w, o)
    BY <1>2 DEF Describes
  <2> QED BY <1>1, <1>2, <2>1, <2>2 DEF Known, SameCandidate
<1>5. Keeps(s, t, d, f)
  BY <1>1, <1>4 DEF Keeps
<1>6. Known(t, d, op)
  BY DEF Known
<1> QED BY <1>3, <1>5, <1>6 DEF StagedOK

\* mark_current_write and the refinement stage a write that its connection
\* then knows, and forget none.
LEMMA StageOK ==
    ASSUME NEW s, NEW d \in Nat, NEW f \in Nat, f <= d, Sound(s, d), s.pending = None,
           NEW op \in Frames, NEW got \in BOOLEAN
    PROVE  StagedOK(s, refine(mark_current_write(s, d, f, got), op), op, d, f)
<1> DEFINE m == mark_current_write(s, d, f, got)
           t == refine(m, op)
<1>1. CASE s.arm = "unarmed" \/ (s.sidecar = None /\ ~got)
  <2>1. m = Unarm(s, d)
    BY <1>1 DEF mark_current_write
  <2>2. m.arm = "unarmed" /\ StagedOK(s, m, op, d, f)
    BY <2>1, UnarmOK
  <2> HIDE DEF m
  <2>3. t = m
    BY <2>2 DEF refine
  <2> QED BY <2>2, <2>3 DEF m
<1>2. CASE ~(s.arm = "unarmed" \/ (s.sidecar = None /\ ~got))
  <2> DEFINE p == IF ~s.overflow /\ s.count = 0 THEN s ELSE read_local_prune(s, d, f)
  <2>1. Pruned(s, p, d, f)
    <3>1. CASE ~s.overflow /\ s.count = 0
      BY <3>1 DEF Pruned, SameCandidate, Keeps, Sound, StateType
    <3>2. CASE ~(~s.overflow /\ s.count = 0)
      BY <3>2, PruneOK
    <3> QED BY <3>1, <3>2
  <2>2. m = [p EXCEPT !.sidecar = "active", !.pending = "overflow",
                      !.pendingId = d, !.hash = 0, !.filter = {}]
    BY <1>2 DEF mark_current_write
  <2> HIDE DEF p, m
  <2>3. p \in StateType /\ p.arm = s.arm /\ p.newest = s.newest /\ s.arm # "unarmed"
    BY <1>2, <2>1 DEF Pruned, Sound, SameCandidate
  <2>4. /\ m \in StateType /\ m.arm = s.arm /\ m.newest = s.newest
        /\ m.sidecar = "active" /\ m.pendingId = d /\ m.pending = "overflow"
        /\ m.overflow = p.overflow /\ m.through = p.through /\ m.force = p.force
        /\ m.ring = p.ring /\ m.tags = p.tags /\ m.head = p.head /\ m.count = p.count
        /\ m.keyset = p.keyset /\ m.valid = p.valid /\ m.wide = p.wide
    BY <2>2, <2>3, Zenon DEF StateType
  <2>5. CASE t = m
    <3>1. Staged(m, d, op) /\ m.pending # None
      BY <2>4 DEF Staged, None
    <3> QED BY <2>1, <2>4, <2>5, <3>1, CandidateOK DEF m
  <2>6. CASE op.kind = "point" /\ t # m
    <3> DEFINE h == CHOOSE h \in op.keys : TRUE
    <3>1. t = [m EXCEPT !.pending = "hash", !.hash = h]
      BY <2>6 DEF refine
    <3>2. h \in Nat /\ op.keys = {h}
      <4>1. PICK k \in Nat : op.keys = {k}
        BY <2>6, FrameKeys
      <4> QED BY <4>1
    <3> HIDE DEF h, t
    <3>3. /\ t \in StateType /\ t.arm = m.arm /\ t.newest = m.newest
          /\ t.sidecar = "active" /\ t.pendingId = d /\ t.pending = "hash" /\ t.hash = h
          /\ t.overflow = p.overflow /\ t.through = p.through /\ t.force = p.force
          /\ t.ring = p.ring /\ t.tags = p.tags /\ t.head = p.head /\ t.count = p.count
          /\ t.keyset = p.keyset /\ t.valid = p.valid /\ t.wide = p.wide
      BY <2>4, <3>1, <3>2, Zenon DEF StateType
    <3>4. Staged(t, d, op) /\ t.pending # None
      BY <3>2, <3>3 DEF Staged, None
    <3>5. StagedOK(s, t, op, d, f)
      BY <2>1, <2>4, <3>3, <3>4, CandidateOK
    <3> QED BY <3>5 DEF t, m
  <2>7. CASE op.kind # "point" /\ t # m
    <3>1. t = [m EXCEPT !.pending = "keyset", !.filter = FilterOf(op.keys)]
      BY <2>7 DEF refine
    <3>2. FilterOf(op.keys) \in SUBSET Bits
      BY FrameKeys
    <3> HIDE DEF t
    <3>3. /\ t \in StateType /\ t.arm = m.arm /\ t.newest = m.newest
          /\ t.sidecar = "active" /\ t.pendingId = d /\ t.pending = "keyset"
          /\ t.filter = FilterOf(op.keys)
          /\ t.overflow = p.overflow /\ t.through = p.through /\ t.force = p.force
          /\ t.ring = p.ring /\ t.tags = p.tags /\ t.head = p.head /\ t.count = p.count
          /\ t.keyset = p.keyset /\ t.valid = p.valid /\ t.wide = p.wide
      BY <2>4, <3>1, <3>2, Zenon DEF StateType
    <3>4. Staged(t, d, op) /\ t.pending # None
      BY <3>3 DEF Staged, None
    <3>5. StagedOK(s, t, op, d, f)
      BY <2>1, <2>4, <3>3, <3>4, CandidateOK
    <3> QED BY <3>5 DEF t, m
  <2> QED BY <2>5, <2>6, <2>7
<1> QED BY <1>1, <1>2

-----------------------------------------------------------------------------
(* The probe of a read. *)

\* Arming loses no write in flight when the newest id is one of the published.
LEMMA ArmOK ==
    ASSUME NEW s, NEW d \in Nat, NEW f \in Nat, Sound(s, d),
           s.arm # "armed" => s.newest < d
    PROVE  LET a == read_local_arm(s, d, f)
           IN /\ Sound(a, d) /\ Keeps(s, a, d, f) /\ a.pending = s.pending
              /\ a.arm \in {"armed", "fence"} /\ (a.arm # "armed" => a.newest < d)
<1> DEFINE a == read_local_arm(s, d, f)
<1>1. s \in StateType /\ s.newest \in Int
  BY DEF Sound, StateType, NoId
<1>2. CASE s.arm = "armed"
  BY <1>2 DEF read_local_arm, Keeps
<1>3. CASE s.arm # "armed"
  <2>1. \/ a = [s EXCEPT !.arm = "fence"] /\ Active(s.newest, d, f)
        \/ a = [s EXCEPT !.arm = "armed", !.newest = NoId] /\ ~Active(s.newest, d, f)
    BY <1>3 DEF read_local_arm
  <2> HIDE DEF a
  <2>2. /\ a \in StateType /\ a.pending = s.pending /\ a.pendingId = s.pendingId
        /\ a.hash = s.hash /\ a.filter = s.filter /\ a.sidecar = s.sidecar
        /\ a.overflow = s.overflow /\ a.through = s.through /\ a.force = s.force
        /\ a.ring = s.ring /\ a.tags = s.tags /\ a.head = s.head /\ a.count = s.count
        /\ a.keyset = s.keyset /\ a.valid = s.valid /\ a.wide = s.wide
        /\ \/ a.arm = "fence" /\ a.newest = s.newest
           \/ a.arm = "armed" /\ ~Active(s.newest, d, f)
    BY <1>1, <2>1, Zenon DEF StateType
  <2>3. /\ Live(a) = Live(s) /\ Bound(a, d) = Bound(s, d)
        /\ \A i : RingSlot(a, i) = RingSlot(s, i) /\ Entry(a, i) = Entry(s, i)
        /\ \A i : Filtered(a, i) <=> Filtered(s, i)
    BY <2>2 DEF Live, RingSlot, Entry, Filtered, Bound
  <2>4. Sound(a, d)
    BY <2>2, <2>3 DEF Sound, RingOK, IdsOK, ModeOK
  <2>5. Keeps(s, a, d, f)
    <3> SUFFICES ASSUME NEW w \in Nat, NEW op, Active(w, d, f), Known(s, w, op)
                 PROVE  Known(a, w, op)
      BY DEF Keeps
    <3>1. CASE w <= s.newest
      <4>1. Active(s.newest, d, f)
        BY <1>1, <1>3, <3>1 DEF Active
      <4> QED BY <2>2, <3>1, <4>1 DEF Known
    <3>2. CASE ~(w <= s.newest)
      <4>1. Staged(s, w, op) <=> Staged(a, w, op)
        BY <2>2 DEF Staged
      <4>2. \A i : Describes(s, i, w, op) => Describes(a, i, w, op)
        BY <2>2, <2>3 DEF Describes
      <4> QED BY <2>2, <2>3, <3>2, <4>1, <4>2 DEF Known
    <3> QED BY <3>1, <3>2
  <2> QED BY <1>3, <2>2, <2>4, <2>5 DEF a
<1> QED BY <1>2, <1>3

\* What the probes of a read leave behind still knows every write in flight.
LEMMA ProbedOK ==
    ASSUME NEW s, NEW d \in Nat, NEW f \in Nat, f <= d, Sound(s, d),
           s.arm # "armed" => s.newest < d, NEW keys
    PROVE  LET t == Probed(s, keys, d, f)
           IN Sound(t, d) /\ Keeps(s, t, d, f) /\ (t.arm # "armed" => t.newest < d)
<1> DEFINE a == read_local_arm(s, d, f)
           p == read_local_prune(a, d, f)
           t == Probed(s, keys, d, f)
<1>1. Sound(a, d) /\ Keeps(s, a, d, f) /\ (a.arm # "armed" => a.newest < d)
  BY ArmOK
<1> HIDE DEF a
<1>2. Pruned(a, p, d, f)
  BY <1>1, PruneOK
<1>3. \/ t = a
      \/ t = p
      \/ t = [p EXCEPT !.sidecar = "inactive"] /\ ~p.overflow /\ p.count = 0 /\ p.pending = None
  BY DEF Probed, a
<1> HIDE DEF p, t
<1>4. Sound(p, d) /\ Keeps(s, p, d, f) /\ (p.arm # "armed" => p.newest < d)
  BY <1>1, <1>2 DEF Pruned, SameCandidate, Keeps
<1>5. CASE t = a \/ t = p
  BY <1>1, <1>4, <1>5 DEF t
<1>6. CASE t = [p EXCEPT !.sidecar = "inactive"] /\ ~p.overflow /\ p.count = 0 /\ p.pending = None
  <2>1. /\ t \in StateType /\ t.pending = None
        /\ t.arm = p.arm /\ t.newest = p.newest
        /\ t.overflow = FALSE /\ t.through = p.through /\ t.count = 0
    BY <1>4, <1>6 DEF Sound, StateType
  <2>2. Live(t) = {} /\ Live(p) = {}
    BY <1>6, <2>1 DEF Live
  <2>3. Sound(t, d)
    BY <2>1, <2>2, RyowAssumption
       DEF RyowAssumption, Sound, RingOK, IdsOK, ModeOK
  <2>4. Keeps(p, t, d, f)
    BY <1>6, <2>1, <2>2 DEF Keeps, Known, Staged
  <2>5. Keeps(s, t, d, f)
    BY <1>4, <2>4 DEF Keeps
  <2> QED BY <1>4, <2>1, <2>3, <2>5 DEF t
<1> QED BY <1>3, <1>5, <1>6

\* No false negative: the probe of a hash that a known write in flight names
\* finds a conflict.
LEMMA ProbeFindsWrites ==
    ASSUME NEW s, NEW d \in Nat, NEW f \in Nat, f <= d, Sound(s, d),
           s.arm # "armed" => s.newest < d,
           NEW w \in Nat, Active(w, d, f), Known(s, w, at(w)), NEW h \in at(w).keys
    PROVE  Conflicts(s, h, d, f)
<1> DEFINE a == read_local_arm(s, d, f)
           p == read_local_prune(a, d, f)
<1>1. Sound(a, d) /\ Keeps(s, a, d, f) /\ a.arm \in {"armed", "fence"}
  BY ArmOK
<1>2. SUFFICES ASSUME a.arm = "armed"
               PROVE  /\ Walks(a, h)
                      /\ PendingConflicts(a, h) \/ p.overflow \/ Walk(p, h)
  BY <1>1 DEF Conflicts
<1> HIDE DEF a
<1>3. Pruned(a, p, d, f)
  BY <1>1, PruneOK
<1> HIDE DEF p
<1>4. /\ p.pending = a.pending /\ p.arm = "armed" /\ Known(a, w, at(w)) /\ Known(p, w, at(w))
      /\ \A o : Staged(p, w, o) <=> Staged(a, w, o)
  BY <1>1, <1>2, <1>3 DEF Pruned, SameCandidate, Keeps, Staged
<1>5. keyset_filter(h) \subseteq FilterOf(at(w).keys)
  BY DEF FilterOf
<1> HIDE DEF at
<1>6. CASE Staged(a, w, at(w))
  <2>1. a.sidecar = "active" /\ a.pending # None
    BY <1>1, <1>6 DEF Sound, ModeOK, Staged
  <2>2. PendingConflicts(a, h)
    BY <1>5, <1>6 DEF Staged, PendingConflicts
  <2> QED BY <2>1, <2>2 DEF Walks
<1>7. CASE ~Staged(a, w, at(w))
  <2>1. a.sidecar = "active" /\ read_local_write_tag_may_match(a, h)
    <3>1. CASE a.overflow
      BY <1>1, <3>1 DEF Sound, ModeOK, read_local_write_tag_may_match
    <3>2. CASE ~a.overflow
      <4>1. PICK i \in Live(a) : Describes(a, i, w, at(w))
        BY <1>2, <1>4, <1>7, <3>2 DEF Known
      <4>2. Filtered(a, i)
        BY <1>1 DEF Sound, RingOK
      <4>3. a.sidecar = "active"
        BY <1>1, <4>1 DEF Sound, ModeOK, Live
      <4>4. CASE RingSlot(a, i) \in a.keyset
        BY <4>2, <4>3, <4>4 DEF Filtered, read_local_write_tag_may_match
      <4>5. CASE RingSlot(a, i) \notin a.keyset
        <5>1. Entry(a, i).hash = h
          BY <4>1, <4>5 DEF Describes
        <5> QED BY <4>2, <4>3, <4>5, <5>1 DEF Filtered, read_local_write_tag_may_match
      <4> QED BY <4>4, <4>5
    <3> QED BY <3>1, <3>2
  <2>2. p.overflow \/ Walk(p, h)
    <3> SUFFICES ASSUME ~p.overflow PROVE Walk(p, h)
      OBVIOUS
    <3>1. PICK i \in Live(p) : Describes(p, i, w, at(w))
      BY <1>4, <1>7 DEF Known
    <3> QED BY <1>5, <3>1 DEF Walk, Describes, Entry, Live
  <2> QED BY <2>1, <2>2 DEF Walks
<1> QED BY <1>6, <1>7

-----------------------------------------------------------------------------
(* The steps. *)

\* The window, the positions and the refused frame.
WindowOK ==
    /\ dispatch \in Nat /\ flush \in Nat
    /\ flush <= dispatch /\ dispatch <= flush + Window
    /\ DOMAIN rob = Slots
    /\ frame \in Frames \cup {NoFrame}

\* Only a refused write leaves an id behind that no op in flight has.
NewestOK ==
    state.arm # "armed" =>
        /\ state.newest <= dispatch
        /\ state.newest = dispatch => IsWrite(frame)

WritesAreKnown == \A w \in InFlight : IsWrite(at(w)) => Known(state, w, at(w))

IInv ==
    /\ WindowOK /\ Sound(state, dispatch) /\ NewestOK
    /\ WritesAreKnown
    /\ LocalReadsPassNoWrite

\* Ids closer than the window have positions of their own.
LEMMA PositionsDiffer ==
    ASSUME NEW a \in Nat, NEW b \in Nat, a < b, b - a < Window
    PROVE  a % Window # b % Window /\ a % Window \in Slots /\ b % Window \in Slots
<1> DEFINE qa == a \div Window
           qb == b \div Window
           ra == a % Window
           rb == b % Window
<1>1. /\ qa \in Int /\ qb \in Int /\ ra \in 0..(Window - 1) /\ rb \in 0..(Window - 1)
      /\ a = Window * qa + ra /\ b = Window * qb + rb
  BY RyowAssumption DEF RyowAssumption
<1> HIDE DEF qa, qb, ra, rb
<1>2. ra # rb
  <2> SUFFICES ASSUME ra = rb PROVE FALSE
    OBVIOUS
  <2>1. b - a = Window * (qb - qa) /\ Window \in Nat \ {0}
    BY <1>1, RyowAssumption DEF RyowAssumption
  <2>2. CASE qb - qa <= 0
    BY <1>1, <2>1, <2>2
  <2>3. CASE qb - qa >= 1
    BY <1>1, <2>1, <2>3
  <2> QED BY <1>1, <2>2, <2>3
<1> QED BY <1>1, <1>2 DEF ra, rb, Slots

\* What was below d is below any later id.
LEMMA SoundLater ==
    ASSUME NEW s, NEW d \in Nat, Sound(s, d)
    PROVE  Sound(s, d + 1)
<1>1. s \in StateType /\ RingOK(s) /\ ModeOK(s) /\ IdsOK(s, d)
  BY DEF Sound
<1>2. \A x \in Nat : x < Bound(s, d) => x < Bound(s, d + 1)
  BY <1>1 DEF Bound, StateType
<1>3. IdsOK(s, d + 1)
  BY <1>1, <1>2 DEF IdsOK, RingOK, StateType
<1> QED BY <1>1, <1>3 DEF Sound

\* Only the keys of an op matter to what is known of it.
LEMMA KnownByKeys ==
    ASSUME NEW s, NEW w, NEW o, NEW op, o.keys = op.keys, Known(s, w, op)
    PROVE  Known(s, w, o)
BY DEF Known, Staged, Describes

\* What the handlers of a frame leave to its publication or refusal.
Handled(op) ==
    /\ CanAcquire /\ op \in Frames /\ UNCHANGED flush
    /\ Sound(state', dispatch) /\ Keeps(state, state', dispatch, flush)
    /\ state'.arm # "armed" =>
          state'.newest < dispatch \/ (state'.newest = dispatch /\ IsWrite(op))
    /\ IsWrite(op) => Known(state', dispatch, op)

\* The position a frame takes is none of the ids in flight.
LEMMA PositionIsFree ==
    ASSUME WindowOK, CanAcquire, NEW e, rob' = [rob EXCEPT ![dispatch % Window] = e]
    PROVE  /\ \A w \in InFlight : at(w)' = at(w)
           /\ \A w : w = dispatch => at(w)' = e
           /\ DOMAIN rob' = Slots
<1>1. dispatch % Window \in Slots
  BY RyowAssumption DEF RyowAssumption, WindowOK, Slots
<1>2. ASSUME NEW w \in InFlight PROVE rob'[w % Window] = rob[w % Window]
  <2>1. w \in Nat /\ w < dispatch /\ dispatch - w < Window
    BY RyowAssumption DEF RyowAssumption, WindowOK, CanAcquire, InFlight
  <2>2. w % Window # dispatch % Window /\ w % Window \in Slots
    BY <2>1, PositionsDiffer DEF WindowOK
  <2> QED BY <2>2 DEF WindowOK
<1>3. rob'[dispatch % Window] = e
  BY <1>1 DEF WindowOK
<1> QED BY <1>2, <1>3 DEF at, WindowOK

\* A frame that is refused leaves the ids in flight as they were.
LEMMA RefuseOK ==
    ASSUME IInv, NEW op, Handled(op), Refuse(op)
    PROVE  IInv'
<1>1. \A w \in InFlight : at(w)' = at(w)
  BY PositionIsFree, Zenon DEF IInv, Handled, Refuse
<1>2. dispatch' = dispatch /\ flush' = flush /\ frame' = op /\ InFlight' = InFlight
  BY DEF Refuse, Handled, InFlight
<1>3. WindowOK'
  <2>1. DOMAIN rob' = Slots
    BY PositionIsFree, Zenon DEF IInv, Handled, Refuse
  <2> QED BY <1>2, <2>1 DEF IInv, WindowOK, Handled, Slots
<1>4. Sound(state, dispatch)'
  BY <1>2 DEF Handled
<1>5. NewestOK'
  <2>1. state'.newest \in Int /\ dispatch \in Int
    BY DEF Handled, Sound, StateType, NoId, IInv, WindowOK
  <2> QED BY <1>2, <2>1 DEF NewestOK, Handled
<1>6. WritesAreKnown'
  <2> SUFFICES ASSUME NEW w \in InFlight, IsWrite(at(w)) PROVE Known(state', w, at(w))
    BY <1>1, <1>2 DEF WritesAreKnown
  <2>1. w \in Nat /\ Active(w, dispatch, flush)
    BY DEF InFlight, Active, IInv, WindowOK
  <2> QED BY <2>1 DEF IInv, WritesAreKnown, Handled, Keeps
<1>7. LocalReadsPassNoWrite'
  BY <1>1, <1>2 DEF IInv, LocalReadsPassNoWrite
<1> QED BY <1>3, <1>4, <1>5, <1>6, <1>7 DEF IInv

\* A frame that publishes is known if it is a write; if it is a local read it
\* touches no key of a write in flight.
LEMMA PublishOK ==
    ASSUME IInv, NEW op, Handled(op), NEW local \in BOOLEAN, Publish(op, local),
           local => \A w \in InFlight : IsWrite(at(w)) => at(w).keys \cap op.keys = {}
    PROVE  IInv'
<1> DEFINE e == [kind |-> op.kind, keys |-> op.keys, local |-> local]
<1>1. /\ \A w \in InFlight : at(w)' = at(w)
      /\ \A w : w = dispatch => at(w)' = e
      /\ DOMAIN rob' = Slots
  BY PositionIsFree, Zenon DEF IInv, Handled, Publish
<1> HIDE DEF e
<1>2. dispatch' = dispatch + 1 /\ flush' = flush /\ frame' = NoFrame
  BY DEF Publish, Handled
<1>3. dispatch \in Nat /\ flush \in Nat /\ flush <= dispatch /\ dispatch - flush < Window
  BY DEF IInv, WindowOK, Handled, CanAcquire
<1>4. InFlight' = InFlight \cup {dispatch} /\ \A w \in InFlight : w \in Nat /\ w < dispatch
  BY <1>2, <1>3 DEF InFlight
<1>5. WindowOK'
  BY <1>1, <1>2, <1>3, RyowAssumption DEF WindowOK, Slots, RyowAssumption
<1>6. Sound(state, dispatch)'
  BY <1>2, <1>3, SoundLater DEF Handled
<1>7. NewestOK'
  <2>1. state'.newest \in Int
    BY DEF Handled, Sound, StateType, NoId
  <2> QED BY <1>2, <1>3, <2>1 DEF NewestOK, Handled
<1>8. WritesAreKnown'
  <2> SUFFICES ASSUME NEW w \in InFlight', IsWrite(at(w)') PROVE Known(state', w, at(w)')
    BY DEF WritesAreKnown
  <2>1. CASE w \in InFlight
    <3>1. w \in Nat /\ Active(w, dispatch, flush) /\ at(w)' = at(w)
      BY <1>1, <1>3, <2>1 DEF InFlight, Active
    <3>2. Known(state, w, at(w))
      BY <2>1, <3>1 DEF IInv, WritesAreKnown
    <3> QED BY <3>1, <3>2 DEF Handled, Keeps
  <2>2. CASE w = dispatch
    <3>1. at(w)' = e /\ e.kind = op.kind /\ e.keys = op.keys
      BY <1>1, <2>2 DEF e
    <3>2. Known(state', w, op)
      BY <2>2, <3>1 DEF Handled, IsWrite
    <3> QED BY <3>1, <3>2, KnownByKeys
  <2> QED BY <1>4, <2>1, <2>2
<1>9. LocalReadsPassNoWrite'
  <2> SUFFICES ASSUME NEW r \in InFlight', at(r)'.local, NEW w \in InFlight', w < r,
                      IsWrite(at(w)')
               PROVE  at(w)'.keys \cap at(r)'.keys = {}
    BY DEF LocalReadsPassNoWrite
  <2>1. w \in InFlight /\ at(w)' = at(w)
    BY <1>1, <1>3, <1>4
  <2>2. CASE r \in InFlight
    BY <1>1, <2>1, <2>2 DEF IInv, LocalReadsPassNoWrite
  <2>3. CASE r = dispatch
    <3>1. at(r)' = e /\ e.local = local /\ e.keys = op.keys
      BY <1>1, <2>3 DEF e
    <3> QED BY <2>1, <3>1
  <2> QED BY <1>4, <2>2, <2>3
<1> QED BY <1>5, <1>6, <1>7, <1>8, <1>9 DEF IInv

\* What the first thing every frame does leaves: the candidate is resolved.
LEMMA ResolveStep ==
    ASSUME IInv
    PROVE  LET r == Resolve(state, dispatch, flush)
           IN /\ Resolved(state, r, dispatch, flush)
              /\ r.newest \in Int /\ dispatch \in Nat /\ flush \in Nat
              /\ flush <= dispatch /\ dispatch <= flush + Window
              /\ r.arm # "armed" =>
                    r.newest < dispatch \/ (r.newest = dispatch /\ IsWrite(frame))
<1> DEFINE r == Resolve(state, dispatch, flush)
<1>1. /\ dispatch \in Nat /\ flush \in Nat
      /\ flush <= dispatch /\ dispatch <= flush + Window
      /\ Sound(state, dispatch)
  BY DEF IInv, WindowOK
<1>2. Resolved(state, r, dispatch, flush)
  BY <1>1, ResolveOK
<1> HIDE DEF r
<1>3. r.newest \in Int
  BY <1>2 DEF Resolved, Sound, StateType, NoId
<1>4. r.arm # "armed" => r.newest < dispatch \/ (r.newest = dispatch /\ IsWrite(frame))
  BY <1>1, <1>2, <1>3 DEF Resolved, IInv, NewestOK
<1> QED BY <1>1, <1>2, <1>3, <1>4 DEF r

\* Only a frame like the refused one is parsed next.
LEMMA RefusedAgain ==
    ASSUME NEW op, Next_frame(op), IsWrite(frame)
    PROVE  IsWrite(op)
BY DEF Next_frame, NoFrame, IsWrite

\* A write, published or refused.
LEMMA ParseWriteOK ==
    ASSUME IInv, NEW op \in Frames, ParseWrite(op)
    PROVE  IInv'
<1> DEFINE r == Resolve(state, dispatch, flush)
<1>1. /\ Resolved(state, r, dispatch, flush) /\ dispatch \in Nat /\ flush \in Nat
      /\ flush <= dispatch /\ r.newest \in Int
      /\ r.arm # "armed" =>
            r.newest < dispatch \/ (r.newest = dispatch /\ IsWrite(frame))
  BY ResolveStep
<1>2. PICK got \in BOOLEAN :
          state' = refine(mark_current_write(r, dispatch, flush, got), op)
  BY DEF ParseWrite
<1> HIDE DEF r
<1>3. StagedOK(r, state', op, dispatch, flush)
  BY <1>1, <1>2, StageOK DEF Resolved
<1>4. Keeps(state, state', dispatch, flush)
  BY <1>1, <1>3 DEF Resolved, StagedOK, Keeps
<1>5. Handled(op)
  BY <1>1, <1>3, <1>4 DEF Handled, StagedOK, ParseWrite
<1>6. CASE Publish(op, FALSE)
  BY <1>5, <1>6, PublishOK, Zenon
<1>7. CASE Refuse(op)
  BY <1>5, <1>7, RefuseOK
<1> QED BY <1>6, <1>7, Zenon DEF ParseWrite

\* A read: served locally only if no probe finds a conflict.
LEMMA ParseReadOK ==
    ASSUME IInv, NEW op \in Frames, ParseRead(op)
    PROVE  IInv'
<1> DEFINE r == Resolve(state, dispatch, flush)
           conflict == \E h \in op.keys : Conflicts(r, h, dispatch, flush)
<1>1. /\ Resolved(state, r, dispatch, flush) /\ dispatch \in Nat /\ flush \in Nat
      /\ flush <= dispatch /\ r.newest \in Int
      /\ r.arm # "armed" =>
            r.newest < dispatch \/ (r.newest = dispatch /\ IsWrite(frame))
  BY ResolveStep
<1>2. /\ Next_frame(op) /\ op.kind = "read" /\ CanAcquire /\ UNCHANGED flush
      /\ state' = Probed(r, op.keys, dispatch, flush)
      /\ Publish(op, FALSE) \/ (~conflict /\ Publish(op, TRUE)) \/ Refuse(op)
  BY Zenon DEF ParseRead
<1> HIDE DEF r
<1>3. ~IsWrite(op) /\ ~IsWrite(frame)
  BY <1>2, RefusedAgain DEF IsWrite
<1>4. r.arm # "armed" => r.newest < dispatch
  BY <1>1, <1>3
<1>5. /\ Sound(state', dispatch) /\ Keeps(r, state', dispatch, flush)
      /\ state'.arm # "armed" => state'.newest < dispatch
  BY <1>1, <1>2, <1>4, ProbedOK DEF Resolved
<1>6. Handled(op)
  BY <1>1, <1>2, <1>3, <1>5 DEF Handled, Resolved, Keeps
<1>7. CASE Publish(op, FALSE)
  BY <1>6, <1>7, PublishOK, Zenon
<1>8. CASE ~conflict /\ Publish(op, TRUE)
  <2>1. ASSUME NEW w \in InFlight, IsWrite(at(w)), NEW h \in at(w).keys
        PROVE  Conflicts(r, h, dispatch, flush)
    <3>1. w \in Nat /\ Active(w, dispatch, flush)
      BY <1>1 DEF InFlight, Active
    <3>2. Known(r, w, at(w))
      BY <1>1, <2>1, <3>1 DEF IInv, WritesAreKnown, Resolved, Keeps
    <3> QED BY <1>1, <1>4, <3>1, <3>2, ProbeFindsWrites DEF Resolved
  <2>2. \A w \in InFlight : IsWrite(at(w)) => at(w).keys \cap op.keys = {}
    BY <1>8, <2>1
  <2> QED BY <1>6, <1>8, <2>2, PublishOK, Zenon
<1>9. CASE Refuse(op)
  BY <1>6, <1>9, RefuseOK
<1> QED BY <1>2, <1>7, <1>8, <1>9, Zenon

\* Any other command only resolves the candidate.
LEMMA ParseOtherOK ==
    ASSUME IInv, NEW op \in Frames, ParseOther(op)
    PROVE  IInv'
<1>1. ~IsWrite(op) /\ ~IsWrite(frame)
  BY RefusedAgain DEF ParseOther, IsWrite
<1>2. Handled(op)
  BY <1>1, ResolveStep DEF Handled, ParseOther, Resolved
<1>3. CASE Publish(op, FALSE)
  BY <1>2, <1>3, PublishOK, Zenon
<1>4. CASE Refuse(op)
  BY <1>2, <1>4, RefuseOK
<1> QED BY <1>3, <1>4, Zenon DEF ParseOther

\* So does a parse that finds the window full.
LEMMA ParseFullOK == IInv /\ ParseFull => IInv'
<1> SUFFICES ASSUME IInv, ParseFull PROVE IInv'
  OBVIOUS
<1>1. UNCHANGED <<dispatch, flush, rob, frame>> /\ Resolved(state, state', dispatch, flush)
  BY ResolveStep DEF ParseFull
<1>2. InFlight' = InFlight /\ \A w : at(w)' = at(w)
  BY <1>1 DEF InFlight, at
<1>3. WindowOK' /\ Sound(state, dispatch)' /\ NewestOK'
  BY <1>1 DEF IInv, WindowOK, Slots, NewestOK, Resolved
<1>4. WritesAreKnown'
  <2> SUFFICES ASSUME NEW w \in InFlight, IsWrite(at(w)) PROVE Known(state', w, at(w))
    BY <1>2 DEF WritesAreKnown
  <2>1. w \in Nat /\ Active(w, dispatch, flush)
    BY DEF InFlight, Active, IInv, WindowOK
  <2> QED BY <1>1, <2>1 DEF IInv, WritesAreKnown, Resolved, Keeps
<1>5. LocalReadsPassNoWrite'
  BY <1>2 DEF IInv, LocalReadsPassNoWrite
<1> QED BY <1>3, <1>4, <1>5 DEF IInv

\* Retirement takes ids from the old end of the window.
LEMMA RetireOK == IInv /\ Retire => IInv'
<1> SUFFICES ASSUME IInv, Retire PROVE IInv'
  OBVIOUS
<1>1. PICK n \in 1..(dispatch - flush) : flush' = flush + n
  BY DEF Retire
<1>2. UNCHANGED <<dispatch, rob, state, frame>>
  BY DEF Retire
<1>3. WindowOK'
  BY <1>1, <1>2, RyowAssumption DEF IInv, WindowOK, Slots, RyowAssumption
<1>4. InFlight' \subseteq InFlight /\ \A w : at(w)' = at(w)
  BY <1>1, <1>2 DEF InFlight, at, IInv, WindowOK
<1>5. Sound(state, dispatch)' /\ NewestOK'
  BY <1>2 DEF IInv, NewestOK
<1>6. WritesAreKnown'
  BY <1>2, <1>4 DEF IInv, WritesAreKnown
<1>7. LocalReadsPassNoWrite'
  BY <1>4 DEF IInv, LocalReadsPassNoWrite
<1> QED BY <1>3, <1>5, <1>6, <1>7 DEF IInv

\* A connection starts unarmed, with nothing in flight.
LEMMA InitOK == Init => IInv
<1> SUFFICES ASSUME Init PROVE IInv
  OBVIOUS
<1>1. WindowOK
  BY RyowAssumption DEF RyowAssumption, Init, WindowOK
<1>2. InFlight = {}
  BY DEF Init, InFlight
<1>3. Live(state) = {} /\ state.count = 0
  BY DEF Init, Live
<1>4. state \in StateType
  <2>1. [i \in Slots |-> NoEntry] \in [Slots -> Descriptors]
    BY DEF NoEntry, Descriptors
  <2>2. [i \in Slots |-> 0] \in [Slots -> Tags] /\ 0 \in Slots
    BY RyowAssumption DEF RyowAssumption, Tags, Slots
  <2> QED BY <2>1, <2>2 DEF Init, StateType
<1>5. Sound(state, dispatch)
  <2>1. state.pending = None /\ ~state.overflow /\ 0 <= Window
    BY RyowAssumption DEF RyowAssumption, Init
  <2> QED BY <1>3, <1>4, <2>1 DEF Sound, RingOK, IdsOK, ModeOK
<1>6. NewestOK
  BY DEF Init, NewestOK, NoId
<1> QED BY <1>1, <1>2, <1>5, <1>6 DEF IInv, WritesAreKnown, LocalReadsPassNoWrite

\* Every step of the connection keeps the invariant.
LEMMA NextOK == IInv /\ [Next]_vars => IInv'
<1> SUFFICES ASSUME IInv, [Next]_vars PROVE IInv'
  OBVIOUS
<1>1. CASE Next
  BY <1>1, ParseWriteOK, ParseReadOK, ParseOtherOK, ParseFullOK, RetireOK DEF Next
<1>2. CASE UNCHANGED vars
  <2>1. InFlight' = InFlight /\ \A w : at(w)' = at(w)
    BY <1>2 DEF vars, InFlight, at
  <2>2. WindowOK' /\ Sound(state, dispatch)' /\ NewestOK'
    BY <1>2 DEF vars, IInv, WindowOK, NewestOK
  <2>3. WritesAreKnown' /\ LocalReadsPassNoWrite'
    BY <1>2, <2>1 DEF vars, IInv, WritesAreKnown, LocalReadsPassNoWrite
  <2> QED BY <2>2, <2>3 DEF IInv
<1> QED BY <1>1, <1>2

\* Read your own writes, for every window and set of hashes: a read that the
\* parser serves locally touches no key that an older write of its connection
\* still in flight touches.
THEOREM ReadsPassNoWrite == Spec => []LocalReadsPassNoWrite
<1>1. IInv => LocalReadsPassNoWrite
  BY DEF IInv
<1> QED BY <1>1, InitOK, NextOK, PTL DEF Spec
=============================================================================
