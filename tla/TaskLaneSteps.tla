--------------------------- MODULE TaskLaneSteps ---------------------------
(***************************************************************************)
(* What each step of the lanes of TaskLane preserves, and which step of    *)
(* the queues of LaneFifo it is.                                           *)
(*                                                                         *)
(* IInv bounds what is queued, promised and reserved in a lane even by the *)
(* stale copy of its head.  Content adds what the slots hold: blocks never *)
(* overlap and their sizes divide the range of the indices (Blocks), so    *)
(* that indices closer than a block's size have slots of their own, also   *)
(* across the wrap-around (SlotsApart), and lanes never share a slot       *)
(* (LanesApart).  A slot written behind the tail is therefore none of      *)
(* those the consumer may still read: the queue of a lane is a window of   *)
(* slots behind its head (QueueView), which a write leaves alone, a tail   *)
(* store extends, a slot read shortens and a head store only renumbers.    *)
(***************************************************************************)
EXTENDS TaskLane, Integers, TLAPS

-----------------------------------------------------------------------------
(* Wrap-around arithmetic. *)

\* The distance between two 32-bit indices is an index, and zero from an index to itself.
LEMMA DistInRange ==
    ASSUME NEW i \in Index, NEW j \in Index
    PROVE  Dist(i, j) \in Index /\ Dist(i, i) = 0
BY LaneAssumption DEF LaneAssumption, Index, Dist

\* So is an index advanced with wrap-around.
LEMMA PlusInRange ==
    ASSUME NEW i \in Index, NEW n \in Index
    PROVE  Plus(i, n) \in Index
BY LaneAssumption DEF LaneAssumption, Index, Plus

\* Advancing the far end of a window lengthens it.
LEMMA DistOfPlus ==
    ASSUME NEW i \in Index, NEW j \in Index, NEW n \in Nat, Dist(i, j) + n < IndexMod
    PROVE  Plus(j, n) \in Index /\ Dist(i, Plus(j, n)) = Dist(i, j) + n
BY LaneAssumption DEF LaneAssumption, Index, Plus, Dist

\* Advancing the near end shortens it.
LEMMA DistFromPlus ==
    ASSUME NEW i \in Index, NEW j \in Index, NEW n \in Nat, n <= Dist(i, j)
    PROVE  Plus(i, n) \in Index /\ Dist(Plus(i, n), j) = Dist(i, j) - n
BY LaneAssumption DEF LaneAssumption, Index, Plus, Dist

\* Advancing an index twice advances it by the sum.
LEMMA PlusOfPlus ==
    ASSUME NEW i \in Index, NEW m \in Nat, NEW n \in Nat, m + n < IndexMod
    PROVE  Plus(Plus(i, m), n) = Plus(i, m + n)
BY LaneAssumption DEF LaneAssumption, Index, Plus

\* Advancing an index by the distance to another reaches it.
LEMMA PlusOfDist ==
    ASSUME NEW i \in Index, NEW j \in Index
    PROVE  Plus(i, Dist(i, j)) = j /\ Plus(i, 0) = i
BY LaneAssumption DEF LaneAssumption, Index, Plus, Dist

\* An index advanced by n is at distance n.
LEMMA DistOfOwn ==
    ASSUME NEW i \in Index, NEW n \in Nat, n < IndexMod
    PROVE  Plus(i, n) \in Index /\ Dist(i, Plus(i, n)) = n
BY LaneAssumption DEF LaneAssumption, Index, Plus, Dist

-----------------------------------------------------------------------------
(* The invariant of the credits. *)

\* Slots being written that no reservation paid for.
Unpaid(p) == IF credit[p] THEN 0 ELSE writing[p]

\* The producer's copy of the head trails the head, which trails the tail.
HeadCopyTrails(p) ==
    Dist(headCached[p], head[p]) + Dist(head[p], tail[p]) = Dist(headCached[p], tail[p])

\* The consumer's copy of the tail is between the head and the tail.
TailCopyTrails(p) ==
    Dist(head[p], tailCached[p]) + Dist(tailCached[p], tail[p]) = Dist(head[p], tail[p])

\* Even by the producer's stale copy the lane fits the credits left.
WithinCredits(p) == Dist(headCached[p], tail[p]) + Unpaid(p) <= avail[p]

\* A reserved write is one slot, of a reservation that is outstanding.
CreditIsReserved(p) == credit[p] => writing[p] = 1 /\ avail[p] < cap[p]

\* The consumer reads behind its copy of the tail.
ReadIsPublished ==
    reading # <<>> =>
        /\ reading[1] \in Producers
        /\ Dist(head[reading[1]], tailCached[reading[1]]) >= 1

LaneOK(p) ==
    /\ HeadCopyTrails(p)
    /\ TailCopyTrails(p)
    /\ WithinCredits(p)
    /\ CreditIsReserved(p)

IInv ==
    /\ TypeOK
    /\ \A p \in Producers : LaneOK(p)
    /\ ReadIsPublished

USE DEF HeadCopyTrails, TailCopyTrails, WithinCredits, CreditIsReserved, Unpaid

\* The invariant of one lane bounds what is queued, promised and reserved in it.
LEMMA ImpliesCover == IInv => CreditsCoverReservations
<1> SUFFICES ASSUME IInv, NEW p \in Producers
    PROVE Dist(head[p], tail[p]) + Unpaid(p) + (cap[p] - avail[p]) <= cap[p]
  BY DEF CreditsCoverReservations
<1>1. LaneOK(p) /\ TypeOK
  BY DEF IInv
<1>2. Dist(headCached[p], head[p]) \in Nat /\ Dist(head[p], tail[p]) \in Nat
  BY <1>1, DistInRange, LaneAssumption DEF TypeOK, Index, LaneAssumption
<1> QED BY <1>1, <1>2 DEF LaneOK, TypeOK

\* What init_local and remask_quiesced leave behind.
FreshState ==
    /\ head = Fresh /\ tail = Fresh /\ headCached = Fresh /\ tailCached = Fresh
    /\ retired = Fresh /\ writing = Fresh
    /\ credit = [p \in Producers |-> FALSE]
    /\ cap \in [Producers -> 1..TotalSlots] /\ avail = cap
    /\ reading = <<>>

\* Lanes with every index at zero, as constructed or remasked, satisfy the invariant.
LEMMA FreshLanes == FreshState => IInv
<1> SUFFICES ASSUME FreshState PROVE IInv
  OBVIOUS
<1> USE DEF FreshState
<1>1. 0 \in Index /\ 0 \in 0..TotalSlots
  BY LaneAssumption DEF LaneAssumption, Index
<1>2. Fresh \in [Producers -> Index] /\ Fresh \in [Producers -> 0..TotalSlots]
  BY <1>1 DEF Fresh
<1>3. cap \in [Producers -> 0..TotalSlots] /\ \A p \in Producers : cap[p] <= cap[p]
  BY LaneAssumption DEF LaneAssumption
<1>4. credit \in [Producers -> BOOLEAN]
  OBVIOUS
<1>5. TypeOK
  BY <1>2, <1>3, <1>4 DEF TypeOK
<1>6. \A p \in Producers : LaneOK(p)
  <2> SUFFICES ASSUME NEW p \in Producers PROVE LaneOK(p)
    OBVIOUS
  <2>1. /\ head[p] = 0 /\ tail[p] = 0 /\ headCached[p] = 0 /\ tailCached[p] = 0
        /\ writing[p] = 0
    BY DEF Fresh
  <2>2. credit[p] = FALSE
    OBVIOUS
  <2>3. Dist(0, 0) = 0
    BY DEF Dist
  <2> QED BY <2>1, <2>2, <2>3, <1>3, <1>5 DEF LaneOK, TypeOK
<1> QED BY <1>5, <1>6 DEF IInv, ReadIsPublished

-----------------------------------------------------------------------------
(* Every step within a geometry preserves it. *)

\* The facts about one lane in the form the provers use them.
LEMMA LaneFacts ==
    ASSUME IInv, NEW p \in Producers
    PROVE  /\ head[p] \in Index /\ tail[p] \in Index /\ retired[p] \in Index
           /\ headCached[p] \in Index /\ tailCached[p] \in Index
           /\ cap[p] \in 1..TotalSlots /\ avail[p] \in 0..cap[p]
           /\ writing[p] \in 0..TotalSlots
           /\ Dist(head[p], tail[p]) \in Nat /\ Dist(headCached[p], head[p]) \in Nat
           /\ Dist(headCached[p], tail[p]) \in Nat /\ Dist(head[p], tailCached[p]) \in Nat
           /\ Dist(tailCached[p], tail[p]) \in Nat
           /\ TotalSlots \in Nat /\ IndexMod \in Nat /\ TotalSlots < IndexMod
BY DistInRange, LaneAssumption DEF IInv, TypeOK, Index, LaneAssumption

\* A lane whose own state is unchanged keeps what holds of it.
LEMMA Untouched ==
    ASSUME NEW p \in Producers, LaneOK(p),
           head'[p] = head[p], tail'[p] = tail[p], headCached'[p] = headCached[p],
           tailCached'[p] = tailCached[p], avail'[p] = avail[p], cap'[p] = cap[p],
           writing'[p] = writing[p], credit'[p] = credit[p]
    PROVE  LaneOK(p)'
BY DEF LaneOK

\* push: the items are written into slots the indices do not reach yet.
LEMMA PushWriteOK ==
    ASSUME IInv, NEW p \in Producers, NEW items \in Seq(Values), PushWrite(p, items),
           Len(items) \in 1..2
    PROVE  IInv'
<1> DEFINE n == Len(items)
<1> USE DEF consumerVars, geometry
<1>1. n \in Nat
  OBVIOUS
<1> HIDE DEF n
<1>2. HeadSeen(p, n) \in {head[p], headCached[p]}
  BY DEF HeadSeen
<1>3. /\ UNCHANGED <<head, retired, tailCached, reading, cap, tail, avail, credit>>
      /\ headCached' = [headCached EXCEPT ![p] = HeadSeen(p, n)]
      /\ \/ HasRoom(p, n) /\ writing' = [writing EXCEPT ![p] = n]
         \/ UNCHANGED writing
  BY DEF PushWrite, n
<1>4. writing[p] = 0
  BY DEF PushWrite
<1>5. Dist(head[p], head[p]) = 0
  BY LaneFacts, DistInRange
<1>6. Dist(HeadSeen(p, n), tail[p]) <= avail[p]
  <2>1. LaneOK(p)
    BY DEF IInv
  <2>2. Dist(headCached[p], tail[p]) <= avail[p]
    BY <2>1, <1>4, LaneFacts DEF LaneOK
  <2>3. Dist(head[p], tail[p]) <= avail[p]
    BY <2>1, <2>2, LaneFacts DEF LaneOK
  <2> QED BY <1>2, <2>2, <2>3
<1>7. HasRoom(p, n) => n <= avail[p]
  BY <1>1, <1>2, LaneFacts DEF HasRoom
<1>8. TypeOK'
  <2>1. TypeOK
    BY DEF IInv
  <2>2. headCached' \in [Producers -> Index]
    BY <1>2, <1>3, <2>1, LaneFacts DEF TypeOK
  <2>3. writing' \in [Producers -> 0..TotalSlots]
    <3>1. HasRoom(p, n) => n \in 0..TotalSlots
      BY <1>1, <1>7, LaneFacts
    <3> QED BY <3>1, <1>3, <2>1 DEF TypeOK
  <2> QED BY <1>3, <2>1, <2>2, <2>3 DEF TypeOK
<1>9. ASSUME NEW q \in Producers PROVE LaneOK(q)'
  <2>1. CASE q # p
    BY <2>1, <1>3, Untouched DEF IInv, TypeOK
  <2>2. CASE q = p
    <3>1. LaneOK(p)
      BY DEF IInv
    <3>2. headCached'[p] = HeadSeen(p, n)
      BY <1>3 DEF IInv, TypeOK
    <3>3. credit[p] = FALSE
      BY <3>1, <1>4, LaneFacts DEF LaneOK, IInv, TypeOK
    <3>4. HeadCopyTrails(p)'
      BY <1>2, <1>3, <1>5, <3>1, <3>2, LaneFacts DEF LaneOK
    <3>5. TailCopyTrails(p)'
      BY <1>3, <3>1 DEF LaneOK
    <3>6. WithinCredits(p)'
      <4>1. CASE HasRoom(p, n) /\ writing' = [writing EXCEPT ![p] = n]
        <5>1. writing'[p] = n
          BY <4>1 DEF IInv, TypeOK
        <5> QED BY <1>3, <3>2, <3>3, <4>1, <5>1 DEF HasRoom
      <4>2. CASE UNCHANGED writing
        <5>1. Dist(HeadSeen(p, n), tail[p]) \in Nat
          BY <1>2, LaneFacts
        <5>2. writing'[p] = 0 /\ credit'[p] = FALSE
          BY <1>3, <1>4, <3>3, <4>2
        <5> QED BY <1>3, <1>6, <3>2, <5>1, <5>2
      <4> QED BY <1>3, <4>1, <4>2
    <3>7. CreditIsReserved(p)'
      BY <1>3, <3>3
    <3> QED BY <2>2, <3>4, <3>5, <3>6, <3>7 DEF LaneOK
  <2> QED BY <2>1, <2>2
<1>10. ReadIsPublished'
  BY <1>3 DEF IInv, ReadIsPublished
<1> QED BY <1>8, <1>9, <1>10 DEF IInv

\* push_reserved: one item is written, paid with a reserved credit.
LEMMA PushReservedWriteOK ==
    ASSUME IInv, NEW p \in Producers, NEW v \in Values, PushReservedWrite(p, v)
    PROVE  IInv'
<1> USE DEF consumerVars, geometry
<1>1. /\ UNCHANGED <<head, retired, tailCached, reading, cap, tail, avail, headCached>>
      /\ writing' = [writing EXCEPT ![p] = 1]
      /\ credit' = [credit EXCEPT ![p] = TRUE]
      /\ avail[p] # cap[p] /\ writing[p] = 0
  BY DEF PushReservedWrite
<1>2. TypeOK'
  <2>1. TypeOK
    BY DEF IInv
  <2>2. writing' \in [Producers -> 0..TotalSlots]
    BY <1>1, <2>1, LaneAssumption DEF TypeOK, LaneAssumption
  <2>3. credit' \in [Producers -> BOOLEAN]
    BY <1>1, <2>1 DEF TypeOK
  <2> QED BY <1>1, <2>1, <2>2, <2>3 DEF TypeOK
<1>3. ASSUME NEW q \in Producers PROVE LaneOK(q)'
  <2>1. CASE q # p
    BY <2>1, <1>1, Untouched DEF IInv, TypeOK
  <2>2. CASE q = p
    <3>1. LaneOK(p) /\ writing'[p] = 1
      BY <1>1 DEF IInv, TypeOK
    <3>2. credit'[p] = TRUE
      BY <1>1 DEF IInv, TypeOK
    <3>3. Dist(headCached[p], tail[p]) <= avail[p]
      BY <1>1, <3>1, LaneFacts DEF LaneOK
    <3> QED BY <1>1, <2>2, <3>1, <3>2, <3>3, LaneFacts DEF LaneOK
  <2> QED BY <2>1, <2>2
<1>4. ReadIsPublished'
  BY <1>1 DEF IInv, ReadIsPublished
<1> QED BY <1>2, <1>3, <1>4 DEF IInv

\* reserve: credits are taken from what the consumer has retired.
LEMMA ReserveOK ==
    ASSUME IInv, NEW p \in Producers, NEW n \in 1..TotalSlots, reserve(p, n)
    PROVE  IInv'
<1> USE DEF consumerVars, geometry
<1>1. /\ UNCHANGED <<head, retired, tailCached, reading, cap, tail, writing, credit>>
      /\ headCached' = [headCached EXCEPT ![p] = head[p]]
      /\ \/ /\ Dist(head[p], tail[p]) + n <= avail[p]
            /\ avail' = [avail EXCEPT ![p] = avail[p] - n]
         \/ avail' = avail
      /\ writing[p] = 0
  BY DEF reserve, IInv, TypeOK
<1>2. n \in Nat /\ TypeOK /\ LaneOK(p)
  BY DEF IInv
<1>3. /\ headCached'[p] = head[p]
      /\ avail'[p] \in 0..avail[p]
      /\ Dist(head[p], tail[p]) <= avail'[p]
  <2>1. Dist(head[p], tail[p]) <= avail[p]
    BY <1>1, <1>2, LaneFacts DEF LaneOK
  <2> QED BY <1>1, <1>2, <2>1, LaneFacts DEF TypeOK
<1>4. TypeOK'
  <2>1. headCached' \in [Producers -> Index]
    BY <1>1, <1>2, LaneFacts DEF TypeOK
  <2>2. /\ avail' \in [Producers -> 0..TotalSlots]
        /\ \A q \in Producers : avail'[q] <= cap[q]
    <3>1. avail'[p] \in 0..TotalSlots /\ avail'[p] <= cap[p]
      BY <1>3, LaneFacts
    <3> QED BY <1>1, <1>2, <3>1 DEF TypeOK
  <2> QED BY <1>1, <1>2, <2>1, <2>2 DEF TypeOK
<1>5. ASSUME NEW q \in Producers PROVE LaneOK(q)'
  <2>1. CASE q # p
    BY <2>1, <1>1, Untouched DEF IInv, TypeOK
  <2>2. CASE q = p
    <3>1. credit[p] = FALSE
      BY <1>1, <1>2 DEF LaneOK, TypeOK
    <3>2. Dist(head[p], head[p]) = 0
      BY LaneFacts, DistInRange
    <3> QED BY <1>1, <1>2, <1>3, <2>2, <3>1, <3>2, LaneFacts DEF LaneOK
  <2> QED BY <2>1, <2>2
<1>6. ReadIsPublished'
  BY <1>1 DEF IInv, ReadIsPublished
<1> QED BY <1>4, <1>5, <1>6 DEF IInv

\* cancel_reservation: unused credits go back.
LEMMA CancelOK ==
    ASSUME IInv, NEW p \in Producers, NEW n \in 1..TotalSlots, cancel_reservation(p, n)
    PROVE  IInv'
<1> USE DEF consumerVars, geometry
<1>1. /\ UNCHANGED <<head, retired, tailCached, reading, cap, tail, writing, credit, headCached>>
      /\ n <= cap[p] - avail[p]
      /\ avail' = [avail EXCEPT ![p] = avail[p] + n]
      /\ writing[p] = 0
  BY DEF cancel_reservation, IInv, TypeOK
<1>2. n \in Nat /\ TypeOK /\ LaneOK(p)
  BY DEF IInv
<1>3. avail'[p] \in avail[p]..cap[p]
  BY <1>1, <1>2, LaneFacts DEF TypeOK
<1>4. TypeOK'
  <2>1. /\ avail' \in [Producers -> 0..TotalSlots]
        /\ \A q \in Producers : avail'[q] <= cap[q]
    <3>1. avail'[p] \in 0..TotalSlots /\ avail'[p] <= cap[p]
      BY <1>3, LaneFacts
    <3> QED BY <1>1, <1>2, <3>1 DEF TypeOK
  <2> QED BY <1>1, <1>2, <2>1 DEF TypeOK
<1>5. ASSUME NEW q \in Producers PROVE LaneOK(q)'
  <2>1. CASE q # p
    BY <2>1, <1>1, Untouched DEF IInv, TypeOK
  <2>2. CASE q = p
    <3>1. credit[p] = FALSE
      BY <1>1, <1>2 DEF LaneOK, TypeOK
    <3> QED BY <1>1, <1>2, <1>3, <2>2, <3>1, LaneFacts DEF LaneOK
  <2> QED BY <2>1, <2>2
<1>6. ReadIsPublished'
  BY <1>1 DEF IInv, ReadIsPublished
<1> QED BY <1>4, <1>5, <1>6 DEF IInv

\* The release store of tail, with which a push ends.
LEMMA PushPublishOK ==
    ASSUME IInv, NEW p \in Producers, PushPublish(p)
    PROVE  IInv'
<1> USE DEF consumerVars, geometry
<1>1. /\ UNCHANGED <<head, retired, tailCached, reading, cap, headCached>>
      /\ tail' = [tail EXCEPT ![p] = Plus(tail[p], writing[p])]
      /\ writing' = [writing EXCEPT ![p] = 0]
      /\ credit' = [credit EXCEPT ![p] = FALSE]
      /\ writing[p] > 0
  BY DEF PushPublish, IInv, TypeOK
<1>2. avail' = [avail EXCEPT ![p] = IF credit[p] THEN avail[p] + 1 ELSE avail[p]]
  BY DEF PushPublish, IInv, TypeOK
<1>3. TypeOK /\ LaneOK(p)
  BY DEF IInv
<1>4. /\ avail'[p] \in 0..cap[p]
      /\ Dist(headCached[p], tail[p]) + writing[p] <= avail'[p]
  <2>1. CASE credit[p]
    BY <1>2, <1>3, <2>1, LaneFacts DEF LaneOK, TypeOK
  <2>2. CASE ~credit[p]
    BY <1>2, <1>3, <2>2, LaneFacts DEF LaneOK, TypeOK
  <2> QED BY <2>1, <2>2
<1>5. Dist(headCached[p], tail[p]) + writing[p] < IndexMod
  BY <1>4, LaneFacts
<1>6. /\ tail'[p] = Plus(tail[p], writing[p]) /\ tail'[p] \in Index
      /\ Dist(headCached[p], tail'[p]) = Dist(headCached[p], tail[p]) + writing[p]
  BY <1>1, <1>3, <1>5, DistOfPlus, LaneFacts DEF TypeOK
<1>7. Dist(head[p], tail'[p]) = Dist(head[p], tail[p]) + writing[p]
  <2>1. Dist(head[p], tail[p]) + writing[p] < IndexMod
    BY <1>3, <1>5, LaneFacts DEF LaneOK
  <2> QED BY <1>6, <2>1, DistOfPlus, LaneFacts
<1>8. Dist(tailCached[p], tail'[p]) = Dist(tailCached[p], tail[p]) + writing[p]
  <2>1. Dist(tailCached[p], tail[p]) + writing[p] < IndexMod
    BY <1>3, <1>5, LaneFacts DEF LaneOK
  <2> QED BY <1>6, <2>1, DistOfPlus, LaneFacts
<1>9. TypeOK'
  <2>1. /\ avail' \in [Producers -> 0..TotalSlots]
        /\ \A q \in Producers : avail'[q] <= cap[q]
    <3>1. avail'[p] \in 0..TotalSlots /\ avail'[p] <= cap[p]
      BY <1>4, LaneFacts
    <3> QED BY <1>2, <1>3, <3>1 DEF TypeOK
  <2>2. tail' \in [Producers -> Index]
    BY <1>1, <1>3, <1>6 DEF TypeOK
  <2>3. writing' \in [Producers -> 0..TotalSlots]
    BY <1>1, <1>3, LaneFacts DEF TypeOK
  <2>4. credit' \in [Producers -> BOOLEAN]
    BY <1>1, <1>3 DEF TypeOK
  <2> QED BY <1>1, <1>3, <2>1, <2>2, <2>3, <2>4 DEF TypeOK
<1>10. ASSUME NEW q \in Producers PROVE LaneOK(q)'
  <2>1. CASE q # p
    BY <2>1, <1>1, <1>2, Untouched DEF IInv, TypeOK
  <2>2. CASE q = p
    <3>1. writing'[p] = 0
      BY <1>1, <1>3 DEF TypeOK
    <3>2. credit'[p] = FALSE
      BY <1>1, <1>3 DEF TypeOK
    <3>3. HeadCopyTrails(p)' /\ TailCopyTrails(p)'
      BY <1>1, <1>3, <1>6, <1>7, <1>8, LaneFacts DEF LaneOK
    <3>4. WithinCredits(p)'
      BY <1>1, <1>4, <1>6, <3>1, <3>2, LaneFacts
    <3> QED BY <2>2, <3>2, <3>3, <3>4 DEF LaneOK
  <2> QED BY <2>1, <2>2
<1>11. ReadIsPublished'
  BY <1>1 DEF IInv, ReadIsPublished
<1> QED BY <1>9, <1>10, <1>11 DEF IInv

\* pop reads the slot at head, after it has refreshed its copy of tail.
LEMMA PopReadOK ==
    ASSUME IInv, NEW p \in Producers, PopRead(p)
    PROVE  IInv'
<1> USE DEF producerVars, geometry
<1>1. /\ UNCHANGED <<head, retired, cap, headCached, tail, avail, writing, credit>>
      /\ tailCached' = [tailCached EXCEPT ![p] =
                           IF head[p] = tailCached[p] THEN tail[p] ELSE tailCached[p]]
      /\ reading = <<>>
      /\ \/ reading' = reading
         \/ /\ head[p] # tailCached'[p]
            /\ reading' = <<p, slots[SlotOf(p, head[p])]>>
  BY DEF PopRead, IInv, TypeOK
<1>2. TypeOK /\ LaneOK(p)
  BY DEF IInv
<1>3. tailCached'[p] \in {tail[p], tailCached[p]}
  BY <1>1, <1>2 DEF TypeOK
<1>4. TypeOK'
  <2>1. tailCached' \in [Producers -> Index]
    BY <1>1, <1>2, LaneFacts DEF TypeOK
  <2> QED BY <1>1, <1>2, <2>1 DEF TypeOK
<1>5. ASSUME NEW q \in Producers PROVE LaneOK(q)'
  <2>1. CASE q # p
    BY <2>1, <1>1, Untouched DEF IInv, TypeOK
  <2>2. CASE q = p
    <3>1. Dist(tail[p], tail[p]) = 0
      BY LaneFacts, DistInRange
    <3>2. TailCopyTrails(p)'
      BY <1>1, <1>2, <1>3, <3>1, LaneFacts DEF LaneOK
    <3> QED BY <1>1, <1>2, <2>2, <3>2 DEF LaneOK
  <2> QED BY <2>1, <2>2
<1>6. ReadIsPublished'
  <2>1. CASE reading' = reading
    BY <1>1, <2>1 DEF ReadIsPublished
  <2>2. CASE head[p] # tailCached'[p] /\ reading' = <<p, slots[SlotOf(p, head[p])]>>
    <3>1. Dist(head[p], tailCached'[p]) >= 1
      BY <1>3, <2>2, LaneFacts DEF Dist, Index
    <3>2. reading'[1] = p
      BY <2>2
    <3> QED BY <1>1, <3>1, <3>2 DEF ReadIsPublished
  <2> QED BY <1>1, <2>1, <2>2
<1> QED BY <1>4, <1>5, <1>6 DEF IInv

\* pop advances head past what it has read.
LEMMA PopAdvanceOK ==
    ASSUME IInv, PopAdvance
    PROVE  IInv'
<1> USE DEF producerVars, geometry
<1>1. PICK p \in Producers : p = reading[1] /\ Dist(head[p], tailCached[p]) >= 1
  BY DEF IInv, ReadIsPublished, PopAdvance
<1>2. /\ UNCHANGED <<tailCached, retired, cap, headCached, tail, avail, writing, credit>>
      /\ head' = [head EXCEPT ![p] = Plus(head[p], 1)]
      /\ reading' = <<>>
  BY <1>1 DEF PopAdvance, IInv, TypeOK
<1>3. TypeOK /\ LaneOK(p)
  BY <1>1 DEF IInv
<1>4. head'[p] = Plus(head[p], 1)
  BY <1>1, <1>2, <1>3 DEF TypeOK
<1>5. /\ head'[p] \in Index
      /\ Dist(head'[p], tailCached[p]) = Dist(head[p], tailCached[p]) - 1
  BY <1>1, <1>4, DistFromPlus, LaneFacts
<1>6. Dist(head'[p], tail[p]) = Dist(head[p], tail[p]) - 1
  <2>1. 1 <= Dist(head[p], tail[p])
    BY <1>1, <1>3, LaneFacts DEF LaneOK
  <2> QED BY <1>1, <1>4, <2>1, DistFromPlus, LaneFacts
<1>7. Dist(headCached[p], head'[p]) = Dist(headCached[p], head[p]) + 1
  <2>1. Dist(headCached[p], head[p]) + 1 < IndexMod
    <3>1. Dist(headCached[p], tail[p]) <= avail[p]
      BY <1>1, <1>3, LaneFacts DEF LaneOK
    <3>2. 1 <= Dist(head[p], tail[p])
      BY <1>1, <1>3, LaneFacts DEF LaneOK
    <3> QED BY <1>1, <1>3, <3>1, <3>2, LaneFacts DEF LaneOK
  <2>2. headCached[p] \in Index /\ head[p] \in Index /\ 1 \in Nat
    BY <1>3, LaneFacts
  <2>3. Dist(headCached[p], Plus(head[p], 1)) = Dist(headCached[p], head[p]) + 1
    BY <2>1, <2>2, DistOfPlus
  <2> QED BY <1>4, <2>3
<1>8. TypeOK'
  <2>1. head' \in [Producers -> Index]
    BY <1>2, <1>3, <1>4, <1>5 DEF TypeOK
  <2> QED BY <1>2, <1>3, <2>1 DEF TypeOK
<1>9. ASSUME NEW q \in Producers PROVE LaneOK(q)'
  <2>1. CASE q # p
    BY <2>1, <1>2, Untouched DEF IInv, TypeOK
  <2>2. CASE q = p
    <3> DEFINE h == head'[p]
    <3>1. /\ tail'[p] = tail[p] /\ headCached'[p] = headCached[p]
          /\ tailCached'[p] = tailCached[p]
      BY <1>2
    <3>2. /\ Dist(headCached[p], h) + Dist(h, tail[p]) = Dist(headCached[p], tail[p])
          /\ Dist(h, tailCached[p]) + Dist(tailCached[p], tail[p]) = Dist(h, tail[p])
      <4> HIDE DEF h
      <4>1. /\ Dist(h, tailCached[p]) = Dist(head[p], tailCached[p]) - 1
            /\ Dist(h, tail[p]) = Dist(head[p], tail[p]) - 1
            /\ Dist(headCached[p], h) = Dist(headCached[p], head[p]) + 1
        BY <1>5, <1>6, <1>7 DEF h
      <4> QED BY <4>1, <1>3, LaneFacts DEF LaneOK
    <3>3. HeadCopyTrails(p)'
      BY <3>1, <3>2
    <3>4. TailCopyTrails(p)'
      BY <3>1, <3>2
    <3> QED BY <1>2, <1>3, <2>2, <3>3, <3>4 DEF LaneOK
  <2> QED BY <2>1, <2>2
<1>10. ReadIsPublished'
  BY <1>2 DEF ReadIsPublished
<1> QED BY <1>8, <1>9, <1>10 DEF IInv

\* retire_n gives slots back to the producer.
LEMMA RetireOK ==
    ASSUME IInv, NEW p \in Producers, NEW n \in 1..MaxHeld, retire_n(p, n)
    PROVE  IInv'
<1> USE DEF producerVars, geometry
<1>1. /\ UNCHANGED <<head, tailCached, reading, cap, headCached, tail, avail, writing, credit>>
      /\ retired' = [retired EXCEPT ![p] = Plus(retired[p], n)]
      /\ n <= Dist(retired[p], head[p])
  BY DEF retire_n, IInv, TypeOK
<1>2. Plus(retired[p], n) \in Index
  BY <1>1, DistFromPlus, LaneFacts, LaneAssumption DEF LaneAssumption
<1>3. TypeOK'
  <2>1. retired' \in [Producers -> Index]
    BY <1>1, <1>2 DEF IInv, TypeOK
  <2> QED BY <1>1, <2>1 DEF IInv, TypeOK
<1>4. ASSUME NEW q \in Producers PROVE LaneOK(q)'
  BY <1>1, Untouched DEF IInv
<1>5. ReadIsPublished'
  BY <1>1 DEF IInv, ReadIsPublished
<1> QED BY <1>3, <1>4, <1>5 DEF IInv

-----------------------------------------------------------------------------
(* Division, for masks of indices. *)

\* A product is at least its first factor.
LEMMA MulGe == ASSUME NEW c \in Nat, NEW d \in Nat, d >= 1 PROVE c * d >= c /\ c * d \in Nat
OBVIOUS

\* Quotient and remainder, as the slot masks of masked_queue.h use them.
LEMMA DivMod == ASSUME NEW a \in Nat, NEW c \in Nat \ {0}
  PROVE /\ a \div c \in Nat /\ a % c \in 0..(c - 1) /\ a = c * (a \div c) + (a % c)
<1> DEFINE q == a \div c
           r == a % c
<1>1. q \in Nat
  OBVIOUS
<1>2. r \in 0..(c - 1)
  OBVIOUS
<1>3. a - r = q * c
  OBVIOUS
<1> HIDE DEF q, r
<1>4. q * c = c * q /\ c * q \in Int
  BY <1>1
<1>5. a = c * q + r
  BY <1>1, <1>2, <1>3, <1>4
<1> QED BY <1>1, <1>2, <1>5, Zenon DEF q, r

\* Two numbers closer than c with the same remainder are equal.
LEMMA SameRest == ASSUME NEW a \in Nat, NEW b \in Nat, NEW c \in Nat \ {0}, a % c = b % c, a <= b, b - a < c
  PROVE a = b
<1> DEFINE q == a \div c
           r == b \div c
<1>0. q \in Nat /\ r \in Nat /\ a = c * q + (a % c) /\ b = c * r + (a % c) /\ a % c \in 0..(c - 1)
  BY DivMod, Zenon
<1>1. q \in Nat /\ r \in Nat /\ a = c * q + (a % c) /\ b = c * r + (a % c) /\ a % c \in Nat
  <2> HIDE DEF q, r
  <2> QED BY <1>0
<1> HIDE DEF q, r
<1>2. CASE r <= q
  <2>1. PICK d \in Nat : q = r + d
    BY <1>1, <1>2
  <2>2. c * q = c * r + c * d /\ c * d \in Nat
    BY <1>1, <2>1
  <2> QED BY <1>1, <2>2
<1>3. CASE r > q
  <2>1. PICK d \in Nat : r = q + d /\ d >= 1
    BY <1>1, <1>3
  <2>2. c * r = c * q + c * d /\ c * d >= c /\ c * d \in Nat
    BY <1>1, <2>1, MulGe
  <2> QED BY <1>1, <2>2
<1> QED BY <1>1, <1>2, <1>3

\* A remainder is what is left of a multiple.
LEMMA RestOf == ASSUME NEW q \in Nat, NEW c \in Nat \ {0}, NEW r \in 0..(c - 1)
  PROVE (c * q + r) % c = r
<1> DEFINE a == c * q + r
<1>0. a \in Nat
  OBVIOUS
<1>1. a \in Nat /\ a % c \in 0..(c - 1) /\ a = c * (a \div c) + (a % c) /\ a \div c \in Nat
  BY <1>0, DivMod, Zenon
<1> DEFINE p == a \div c
           s == a % c
<1>2. c * q + r = c * p + s /\ p \in Nat /\ s \in 0..(c - 1)
  BY <1>1, Zenon
<1> HIDE DEF p, s
<1>3. CASE p = q
  <2>1. c * p = c * q /\ c * q \in Int
    BY <1>2, <1>3
  <2>2. s = r
    BY <1>2, <2>1
  <2> QED BY <2>2 DEF s
<1>4. CASE p > q
  <2>1. PICK d \in Nat : p = q + d /\ d >= 1
    BY <1>2, <1>4
  <2>2. c * p = c * q + c * d /\ c * d >= c /\ c * d \in Nat /\ c * q \in Nat
    BY <1>2, <2>1, MulGe
  <2> QED BY <1>2, <2>2
<1>5. CASE p < q
  <2>1. PICK d \in Nat : q = p + d /\ d >= 1
    BY <1>2, <1>5
  <2>2. c * q = c * p + c * d /\ c * d >= c /\ c * d \in Nat /\ c * p \in Nat
    BY <1>2, <2>1, MulGe
  <2> QED BY <1>2, <2>2
<1> QED BY <1>2, <1>3, <1>4, <1>5

\* Taking away a multiple of c, as the wrap-around of an index does, keeps the remainder.
LEMMA Multiple == ASSUME NEW m \in Nat, NEW c \in Nat \ {0}, m % c = 0, NEW a \in Nat, a >= m
  PROVE (a - m) % c = a % c
<1> DEFINE n == m \div c
           x == (a - m) \div c
           y == (a - m) % c
<1>1. n \in Nat /\ m = c * n
  <2>1. n \in Nat /\ m = c * n + (m % c)
    BY DivMod
  <2>2. c * n \in Nat
    BY <2>1
  <2> HIDE DEF n
  <2> QED BY <2>1, <2>2
<1>2. x \in Nat /\ y \in 0..(c - 1) /\ a - m = c * x + y
  <2>1. a - m \in Nat
    OBVIOUS
  <2> QED BY <2>1, DivMod, Zenon
<1> HIDE DEF n, x, y
<1>3. a = c * (n + x) + y
  <2>1. c * (n + x) = c * n + c * x /\ c * n \in Nat /\ c * x \in Nat
    BY <1>1, <1>2
  <2> QED BY <1>1, <1>2, <2>1
<1>4. (c * (n + x) + y) % c = y
  <2>1. n + x \in Nat
    BY <1>1, <1>2
  <2> QED BY <1>2, <2>1, RestOf
<1> QED BY <1>3, <1>4 DEF y

-----------------------------------------------------------------------------
(* The slots of the lanes. *)

\* What a geometry promises: blocks apart from each other and inside the array, whose
\* sizes divide the range of the indices.
Blocks(b, c) ==
    /\ b \in [Producers -> Nat] /\ c \in [Producers -> 1..TotalSlots]
    /\ \A p \in Producers : b[p] + c[p] <= TotalSlots /\ IndexMod % c[p] = 0
    /\ \A p, q \in Producers : p < q => b[p] + c[p] <= b[q]

\* Within a block, indices closer than its size have slots of their own, whatever the
\* wrap-around of uint32_t does to them.
LEMMA SlotsApart ==
    ASSUME Blocks(base, cap), NEW p \in Producers, NEW i \in Index,
           NEW k \in Nat, NEW l \in Nat, k < cap[p], l < cap[p],
           SlotOf(p, Plus(i, k)) = SlotOf(p, Plus(i, l))
    PROVE  k = l
<1> DEFINE c == cap[p]
           u == Plus(i, k)
           v == Plus(i, l)
<1>1. /\ IndexMod \in Nat /\ c \in Nat \ {0} /\ IndexMod % c = 0 /\ base[p] \in Nat
      /\ i \in Nat /\ i < IndexMod /\ c < IndexMod
  BY LaneAssumption DEF LaneAssumption, Blocks, Index
<1>2. u \in Nat /\ (u = i + k \/ (i + k >= IndexMod /\ u = (i + k) - IndexMod))
  BY <1>1 DEF Plus
<1>3. v \in Nat /\ (v = i + l \/ (i + l >= IndexMod /\ v = (i + l) - IndexMod))
  BY <1>1 DEF Plus
<1>4. SlotOf(p, u) = base[p] + (u % c) /\ SlotOf(p, v) = base[p] + (v % c)
  BY Zenon DEF SlotOf
<1>5. SlotOf(p, u) = SlotOf(p, v)
  BY Zenon
<1> HIDE DEF c, u, v
<1>6. u % c = v % c
  <2>1. u % c \in Int /\ v % c \in Int
    BY <1>1, <1>2, <1>3
  <2> DEFINE x == u % c
             y == v % c
  <2> HIDE DEF x, y
  <2>2. x \in Int /\ y \in Int /\ base[p] + x = base[p] + y
    BY <1>4, <1>5, <2>1, Zenon DEF x, y
  <2>3. x = y
    BY <1>1, <2>2
  <2> QED BY <2>3 DEF x, y
<1>7. u % c = (i + k) % c
  <2>1. CASE u = i + k
    BY <2>1, Zenon
  <2>2. CASE i + k >= IndexMod /\ u = (i + k) - IndexMod
    <3>1. i + k \in Nat
      BY <1>1
    <3>2. ((i + k) - IndexMod) % c = (i + k) % c
      BY <1>1, <2>2, <3>1, Multiple, Zenon
    <3> QED BY <2>2, <3>2, Zenon
  <2> QED BY <1>2, <2>1, <2>2
<1>8. v % c = (i + l) % c
  <2>1. CASE v = i + l
    BY <2>1, Zenon
  <2>2. CASE i + l >= IndexMod /\ v = (i + l) - IndexMod
    <3>1. i + l \in Nat
      BY <1>1
    <3>2. ((i + l) - IndexMod) % c = (i + l) % c
      BY <1>1, <2>2, <3>1, Multiple, Zenon
    <3> QED BY <2>2, <3>2, Zenon
  <2> QED BY <1>3, <2>1, <2>2, Zenon
<1>9. i + k \in Nat /\ i + l \in Nat /\ (i + k) % c = (i + l) % c /\ k < c /\ l < c
  <2>1. i + k \in Nat /\ i + l \in Nat
    BY <1>1
  <2>2. k < c /\ l < c
    BY Zenon DEF c
  <2> QED BY <1>6, <1>7, <1>8, <2>1, <2>2, Zenon
<1>10. CASE k <= l
  <2>1. i + k <= i + l /\ (i + l) - (i + k) < c
    BY <1>1, <1>9, <1>10
  <2>2. i + k = i + l
    BY <1>1, <1>9, <2>1, SameRest, Zenon
  <2> QED BY <1>1, <2>2
<1>11. CASE l <= k
  <2>1. i + l <= i + k /\ (i + k) - (i + l) < c
    BY <1>1, <1>9, <1>11
  <2>2. i + l = i + k
    BY <1>1, <1>9, <2>1, SameRest, Zenon
  <2> QED BY <1>1, <2>2
<1> QED BY <1>10, <1>11

\* A slot index is inside the array, and producers never share a slot.
LEMMA LanesApart ==
    ASSUME Blocks(base, cap), NEW p \in Producers, NEW i \in Index
    PROVE  /\ SlotOf(p, i) \in 0..(TotalSlots - 1)
           /\ \A q \in Producers, j \in Index : SlotOf(p, i) = SlotOf(q, j) => p = q
<1>1. \A q \in Producers, j \in Index :
          SlotOf(q, j) \in Nat /\ base[q] <= SlotOf(q, j) /\ SlotOf(q, j) < base[q] + cap[q]
  <2> SUFFICES ASSUME NEW q \in Producers, NEW j \in Index
               PROVE  SlotOf(q, j) \in Nat /\ base[q] <= SlotOf(q, j)
                      /\ SlotOf(q, j) < base[q] + cap[q]
    BY Zenon
  <2> DEFINE c == cap[q]
             r == j % c
  <2>1. c \in Nat \ {0} /\ base[q] \in Nat /\ j \in Nat
    BY LaneAssumption DEF LaneAssumption, Blocks, Index
  <2>2. r \in 0..(c - 1)
    BY <2>1, DivMod, Zenon
  <2>3. SlotOf(q, j) = base[q] + r
    BY Zenon DEF SlotOf
  <2> HIDE DEF r
  <2> QED BY <2>1, <2>2, <2>3
<1>2. \A q \in Producers : /\ base[q] \in Nat /\ cap[q] \in Nat /\ base[q] + cap[q] <= TotalSlots
                           /\ q \in Nat
  BY LaneAssumption DEF LaneAssumption, Blocks, Producers
<1>3. \A q, r \in Producers : q < r => base[q] + cap[q] <= base[r]
  BY Zenon DEF Blocks
<1>4. TotalSlots \in Nat
  BY LaneAssumption DEF LaneAssumption
<1>5. SlotOf(p, i) \in 0..(TotalSlots - 1)
  BY <1>1, <1>2, <1>4
<1>6. ASSUME NEW q \in Producers, NEW j \in Index, SlotOf(p, i) = SlotOf(q, j) PROVE p = q
  <2>1. CASE p < q
    BY <1>1, <1>2, <1>3, <1>6, <2>1
  <2>2. CASE q < p
    BY <1>1, <1>2, <1>3, <1>6, <2>2
  <2> QED BY <1>2, <2>1, <2>2
<1> QED BY <1>5, <1>6, Zenon

-----------------------------------------------------------------------------
(* The queue of a lane as a window of slots. *)

Held(p) == Dist(head[p], tail[p])
InHand(p) == IF reading # <<>> /\ reading[1] = p THEN 1 ELSE 0

\* n slots of a lane, from the f-th behind head.
Window(p, f, n) == [k \in 1..n |-> slots[SlotOf(p, Plus(head[p], (f + k) - 1))]]

\* The slots behind the tail that a push has written hold its items.
Filled(p) == \A k \in 1..writing[p] : slots[SlotOf(p, Plus(tail[p], k - 1))] \in Values

\* The consumer holds at most a batch, of what it has popped.
BatchTrails(p) ==
    /\ Dist(retired[p], head[p]) <= MaxHeld
    /\ Dist(retired[p], head[p]) + Dist(head[p], tail[p]) = Dist(retired[p], tail[p])

HandIsInBatch ==
    reading # <<>> => Dist(retired[reading[1]], head[reading[1]]) < MaxHeld

Content ==
    /\ Blocks(base, cap)
    /\ slots \in [0..(TotalSlots - 1) -> Values \cup {None}]
    /\ writing \in [Producers -> 0..2]
    /\ \A p \in Producers : Filled(p)
    /\ \A p \in Producers : BatchTrails(p)
    /\ HandIsInBatch

queues == [p \in Producers |-> QueueOf(p)]

\* A block has room for what its lane holds and for what is being written behind the
\* tail, and a task in the consumer's hand is one the lane holds.
LEMMA RoomToWrite ==
    ASSUME IInv, Content, NEW p \in Producers
    PROVE  /\ Held(p) \in Nat /\ writing[p] \in 0..2 /\ Held(p) + writing[p] <= cap[p]
           /\ cap[p] \in Nat /\ cap[p] < TotalSlots /\ cap[p] < IndexMod
           /\ InHand(p) \in 0..1 /\ InHand(p) <= Held(p)
<1>1. LaneOK(p) /\ Held(p) \in Nat /\ writing[p] \in 0..2 /\ cap[p] \in Nat
  BY LaneFacts DEF IInv, Content, Held
<1>2. Held(p) + writing[p] <= cap[p]
  <2>1. CASE credit[p]
    BY <1>1, <2>1, LaneFacts DEF LaneOK, Held
  <2>2. CASE ~credit[p]
    BY <1>1, <2>2, LaneFacts DEF LaneOK, Held
  <2> QED BY <2>1, <2>2
<1>3. cap[p] < TotalSlots
  <2>1. PICK q \in Producers : q # p
    BY LaneAssumption DEF LaneAssumption, Producers
  <2>2. p \in Nat /\ q \in Nat /\ base[p] \in Nat /\ base[q] \in Nat /\ cap[q] \in 1..TotalSlots
        /\ base[p] + cap[p] <= TotalSlots /\ base[q] + cap[q] <= TotalSlots /\ TotalSlots \in Nat
        /\ cap[p] \in 1..TotalSlots
    BY LaneAssumption DEF LaneAssumption, Content, Blocks, Producers
  <2>3. CASE p < q
    <3>1. base[p] + cap[p] <= base[q]
      BY <2>3, Zenon DEF Content, Blocks
    <3> QED BY <2>2, <3>1
  <2>4. CASE q < p
    <3>1. base[q] + cap[q] <= base[p]
      BY <2>4, Zenon DEF Content, Blocks
    <3> QED BY <2>2, <3>1
  <2> QED BY <2>1, <2>2, <2>3, <2>4
<1>4. InHand(p) \in 0..1 /\ InHand(p) <= Held(p)
  <2>1. CASE reading # <<>> /\ reading[1] = p
    <3>1. Dist(head[p], tailCached[p]) >= 1
      BY <2>1, Zenon DEF IInv, ReadIsPublished
    <3>2. Held(p) >= 1
      BY <1>1, <3>1, LaneFacts DEF LaneOK, Held
    <3> QED BY <1>1, <2>1, <3>2 DEF InHand
  <2>2. CASE ~(reading # <<>> /\ reading[1] = p)
    BY <1>1, <2>2 DEF InHand
  <2> QED BY <2>1, <2>2, Zenon
<1> QED BY <1>1, <1>2, <1>3, <1>4, LaneAssumption DEF LaneAssumption

\* The queue of a lane is the window of slots behind its head, without the task in the
\* consumer's hand.
LEMMA QueueView ==
    ASSUME IInv, Content, NEW p \in Producers
    PROVE  QueueOf(p) = Window(p, InHand(p), Held(p) - InHand(p))
<1>1. /\ Held(p) \in Nat /\ Held(p) <= cap[p] /\ cap[p] < IndexMod /\ cap[p] \in Nat
      /\ InHand(p) <= Held(p)
  BY RoomToWrite
<1>2. head[p] \in Index /\ tail[p] \in Index /\ IndexMod \in Nat
  BY LaneFacts, Zenon
<1>3. CASE reading # <<>> /\ reading[1] = p
  <2> DEFINE first == Plus(head[p], 1)
  <2>1. InHand(p) = 1
    BY <1>3, Zenon DEF InHand
  <2>2. first \in Index /\ Dist(first, tail[p]) = Held(p) - 1
    BY <1>1, <1>2, <2>1, DistFromPlus DEF Held
  <2>3. QueueOf(p) = [k \in 1..Dist(first, tail[p]) |-> slots[SlotOf(p, Plus(first, k - 1))]]
    BY <1>3, Zenon DEF QueueOf
  <2>4. \A k \in 1..(Held(p) - 1) : Plus(first, k - 1) = Plus(head[p], (1 + k) - 1)
    <3> SUFFICES ASSUME NEW k \in 1..(Held(p) - 1)
                 PROVE  Plus(first, k - 1) = Plus(head[p], (1 + k) - 1)
      BY Zenon
    <3>1. k - 1 \in Nat /\ 1 + (k - 1) = (1 + k) - 1 /\ 1 + (k - 1) < IndexMod
      BY <1>1, <1>2
    <3>2. Plus(first, k - 1) = Plus(head[p], 1 + (k - 1))
      BY <1>2, <3>1, PlusOfPlus
    <3> QED BY <3>1, <3>2
  <2> HIDE DEF first
  <2>5. QueueOf(p) = [k \in 1..(Held(p) - 1) |-> slots[SlotOf(p, Plus(head[p], (1 + k) - 1))]]
    BY <2>2, <2>3, <2>4, Zenon
  <2> QED BY <2>1, <2>5 DEF Window
<1>4. CASE ~(reading # <<>> /\ reading[1] = p)
  <2>1. InHand(p) = 0
    BY <1>4, Zenon DEF InHand
  <2>2. QueueOf(p) = [k \in 1..Held(p) |-> slots[SlotOf(p, Plus(head[p], k - 1))]]
    BY <1>4, Zenon DEF QueueOf, Held
  <2>3. Held(p) - InHand(p) = Held(p)
    BY <1>1, <2>1
  <2>4. \A k \in 1..Held(p) : (0 + k) - 1 = k - 1
    BY <1>1
  <2>5. [k \in 1..Held(p) |-> slots[SlotOf(p, Plus(head[p], k - 1))]]
          = [k \in 1..Held(p) |-> slots[SlotOf(p, Plus(head[p], (0 + k) - 1))]]
    BY <2>4, Zenon
  <2> QED BY <2>1, <2>2, <2>3, <2>5, Zenon DEF Window
<1> QED BY <1>3, <1>4

\* The elements of a window are slots of the array.
LEMMA WindowIsSeq ==
    ASSUME IInv, Content, NEW p \in Producers, NEW f \in Nat, NEW n \in Nat, f + n < IndexMod
    PROVE  /\ Window(p, f, n) \in Seq(Values \cup {None}) /\ Len(Window(p, f, n)) = n
           /\ \A k \in 1..n : Window(p, f, n)[k] = slots[SlotOf(p, Plus(head[p], (f + k) - 1))]
<1>1. head[p] \in Index /\ IndexMod \in Nat
  BY LaneFacts, Zenon
<1>2. \A k \in 1..n : slots[SlotOf(p, Plus(head[p], (f + k) - 1))] \in Values \cup {None}
  <2> SUFFICES ASSUME NEW k \in 1..n
               PROVE  slots[SlotOf(p, Plus(head[p], (f + k) - 1))] \in Values \cup {None}
    BY Zenon
  <2>1. (f + k) - 1 \in Nat /\ (f + k) - 1 < IndexMod
    BY <1>1
  <2>2. Plus(head[p], (f + k) - 1) \in Index
    BY <1>1, <2>1, DistOfOwn, Zenon
  <2>3. SlotOf(p, Plus(head[p], (f + k) - 1)) \in 0..(TotalSlots - 1)
    BY <2>2, LanesApart, Zenon DEF Content
  <2> QED BY <2>3, Zenon DEF Content
<1>3. Window(p, f, n) \in [1..n -> Values \cup {None}]
  BY <1>2, Zenon DEF Window
<1>4. \A k \in 1..n : Window(p, f, n)[k] = slots[SlotOf(p, Plus(head[p], (f + k) - 1))]
  BY Zenon DEF Window
<1> QED BY <1>3, <1>4

\* Sequences of the same length and elements are equal.
LEMMA SameSequence ==
    ASSUME NEW S, NEW s \in Seq(S), NEW t \in Seq(S), Len(s) = Len(t),
           \A k \in 1..Len(s) : s[k] = t[k]
    PROVE  s = t
OBVIOUS

QueuesAreWindows ==
    \A p \in Producers : QueueOf(p) = Window(p, InHand(p), Held(p) - InHand(p))

\* The same of all lanes at once, to be used before and after a step.
LEMMA QueueViews == IInv /\ Content => QueuesAreWindows
BY QueueView, Zenon DEF QueuesAreWindows

-----------------------------------------------------------------------------
(* Steps that leave a lane alone. *)

\* A step that leaves the slots, frontiers and geometry of a lane alone.
LaneAlone(q) ==
    /\ head'[q] = head[q] /\ tail'[q] = tail[q]
    /\ InHand(q)' = InHand(q)
    /\ base' = base /\ cap' = cap
    /\ \A i \in Index : slots'[SlotOf(q, i)] = slots[SlotOf(q, i)]

\* A step that leaves alone the slots between head and tail.
CellsAlone(q) ==
    /\ head'[q] = head[q] /\ tail'[q] = tail[q]
    /\ InHand(q)' = InHand(q)
    /\ base' = base /\ cap' = cap
    /\ \A k \in 0..(Held(q) - 1) :
          slots'[SlotOf(q, Plus(head[q], k))] = slots[SlotOf(q, Plus(head[q], k))]

\* A step that leaves alone the slots between head and tail keeps the queue.
LEMMA CellsKeepQueue ==
    ASSUME IInv, Content, IInv', Content', NEW q \in Producers, CellsAlone(q)
    PROVE  QueueOf(q)' = QueueOf(q)
<1>1. QueueOf(q) = Window(q, InHand(q), Held(q) - InHand(q))
  BY QueueView
<1>2. QueueOf(q)' = Window(q, InHand(q), Held(q) - InHand(q))'
  <2>1. (QueuesAreWindows)'
    BY QueueViews, PTL
  <2> QED BY <2>1, Zenon DEF QueuesAreWindows
<1>3. Held(q)' = Held(q) /\ InHand(q)' = InHand(q)
  BY Zenon DEF CellsAlone, Held
<1> DEFINE f == InHand(q)
           n == Held(q) - InHand(q)
<1>4. f \in Nat /\ n \in Nat /\ f + n = Held(q) /\ Held(q) \in Nat
  BY RoomToWrite
<1> HIDE DEF f, n
<1>5. \A k \in 1..n : slots'[SlotOf(q, Plus(head[q], (f + k) - 1))]
                        = slots[SlotOf(q, Plus(head[q], (f + k) - 1))]
  <2> SUFFICES ASSUME NEW k \in 1..n
               PROVE  slots'[SlotOf(q, Plus(head[q], (f + k) - 1))]
                        = slots[SlotOf(q, Plus(head[q], (f + k) - 1))]
    BY Zenon
  <2>1. (f + k) - 1 \in 0..(Held(q) - 1)
    BY <1>4
  <2> QED BY <2>1, Zenon DEF CellsAlone
<1>6. [k \in 1..n |-> slots'[SlotOf(q, Plus(head[q], (f + k) - 1))]]
        = [k \in 1..n |-> slots[SlotOf(q, Plus(head[q], (f + k) - 1))]]
  BY <1>5
<1>7. Window(q, InHand(q), Held(q) - InHand(q))'
        = [k \in 1..n |-> slots'[SlotOf(q, Plus(head[q], (f + k) - 1))]]
  BY <1>3, Zenon DEF Window, f, n, CellsAlone, SlotOf
<1>8. Window(q, InHand(q), Held(q) - InHand(q))
        = [k \in 1..n |-> slots[SlotOf(q, Plus(head[q], (f + k) - 1))]]
  BY Zenon DEF Window, f, n
<1> QED BY <1>1, <1>2, <1>6, <1>7, <1>8, Zenon

\* A step of another lane leaves the queue of this one alone.
LEMMA AloneKeepsQueue ==
    ASSUME IInv, Content, IInv', Content', NEW q \in Producers, LaneAlone(q)
    PROVE  QueueOf(q)' = QueueOf(q)
<1>1. ASSUME NEW k \in 0..(Held(q) - 1)
      PROVE  slots'[SlotOf(q, Plus(head[q], k))] = slots[SlotOf(q, Plus(head[q], k))]
  <2>1. k \in Nat /\ k < IndexMod
    BY RoomToWrite, LaneAssumption DEF LaneAssumption
  <2>2. Plus(head[q], k) \in Index
    BY <2>1, DistOfOwn, LaneFacts, Zenon
  <2> QED BY <2>2, Zenon DEF LaneAlone
<1>2. CellsAlone(q)
  BY <1>1, Zenon DEF LaneAlone, CellsAlone
<1> QED BY <1>2, CellsKeepQueue

\* It also leaves alone what is being written behind this tail.
LEMMA AloneKeepsFilled ==
    ASSUME IInv, Content, NEW q \in Producers, LaneAlone(q), writing'[q] = writing[q]
    PROVE  Filled(q)'
<1>1. tail[q] \in Index /\ writing[q] \in 0..2 /\ IndexMod \in Nat /\ IndexMod > 1
  BY LaneFacts, RoomToWrite, LaneAssumption DEF LaneAssumption
<1>2. ASSUME NEW k \in 1..writing[q]
      PROVE  slots'[SlotOf(q, Plus(tail[q], k - 1))] \in Values
  <2>1. k - 1 \in Nat /\ k - 1 < IndexMod
    BY <1>1
  <2>2. Plus(tail[q], k - 1) \in Index
    BY <1>1, <2>1, DistOfOwn
  <2>3. slots[SlotOf(q, Plus(tail[q], k - 1))] \in Values
    BY Zenon DEF Content, Filled
  <2> QED BY <2>2, <2>3, Zenon DEF LaneAlone
<1>3. \A k \in 1..writing[q] : slots'[base[q] + (Plus(tail[q], k - 1) % cap[q])] \in Values
  BY <1>2, Zenon DEF SlotOf
<1> QED BY <1>3, Zenon DEF Filled, LaneAlone, SlotOf

\* A step that appends items to the window of one lane is a push of its queue.
LEMMA IsPush ==
    ASSUME NEW p \in Producers, NEW items, QueueOf(p)' = QueueOf(p) \o items,
           \A q \in Producers \ {p} : QueueOf(q)' = QueueOf(q), reading' = reading
    PROVE  Abstract!Push(p, items)
BY Zenon DEF Abstract!Push

\* A step that drops the first slot of a window into the consumer's hand takes from its queue.
LEMMA IsTake ==
    ASSUME NEW p \in Producers, reading = <<>>, QueueOf(p) # <<>>,
           QueueOf(p)' = Tail(QueueOf(p)), reading' = <<p, Head(QueueOf(p))>>,
           \A q \in Producers \ {p} : QueueOf(q)' = QueueOf(q)
    PROVE  Abstract!Take(p)
BY Zenon DEF Abstract!Take

\* The head store empties the hand and changes no queue.
LEMMA IsTook ==
    ASSUME reading # <<>>, reading' = <<>>, \A q \in Producers : QueueOf(q)' = QueueOf(q)
    PROVE  Abstract!Took
BY DEF Abstract!Took

Simulates == Abstract!Next \/ UNCHANGED <<queues, reading>>

\* A step that changes neither the windows nor the hand is none of the queues.
LEMMA IsStutter ==
    ASSUME reading' = reading, \A q \in Producers : QueueOf(q)' = QueueOf(q)
    PROVE  Simulates
BY DEF Simulates, queues

\* reserve, cancel_reservation and a refused push or pop touch no slot and no frontier but retired and the copies.
Idle ==
    /\ UNCHANGED <<head, tail, slots, writing, reading, base, cap>>
    /\ \A p \in Producers : BatchTrails(p)'
    /\ HandIsInBatch'

\* reserve, cancel_reservation, retire_n and refused pushes and pops touch no slot and
\* neither head nor tail, so they are no step of the queues.
LEMMA IdleOK ==
    ASSUME IInv, Content, IInv', Idle
    PROVE  Content' /\ Simulates
<1>1. \A q \in Producers : LaneAlone(q) /\ writing'[q] = writing[q]
  BY DEF Idle, LaneAlone, InHand
<1>2. \A q \in Producers : Filled(q)'
  BY <1>1, AloneKeepsFilled
<1>3. Blocks(base, cap)' /\ slots' \in [0..(TotalSlots - 1) -> Values \cup {None}]
      /\ writing' \in [Producers -> 0..2]
  BY Zenon DEF Idle, Content, Blocks
<1>4. Content'
  BY <1>2, <1>3, Zenon DEF Content, Idle
<1>5. \A q \in Producers : QueueOf(q)' = QueueOf(q)
  BY <1>1, <1>4, AloneKeepsQueue, Zenon
<1> QED BY <1>4, <1>5, IsStutter DEF Idle

-----------------------------------------------------------------------------
(* push and push_reserved, up to the tail store. *)

\* The lane has room for what it holds and what is being written.
AllHaveRoom ==
    \A p \in Producers : Held(p) + writing[p] <= cap[p]

\* The invariant of the lanes leaves room for what is being written, in each of them.
LEMMA RoomInAll == IInv => AllHaveRoom
<1> SUFFICES ASSUME IInv, NEW p \in Producers PROVE Held(p) + writing[p] <= cap[p]
  BY DEF AllHaveRoom
<1>1. LaneOK(p)
  BY DEF IInv
<1>2. CASE credit[p]
  BY <1>1, <1>2, LaneFacts DEF LaneOK, Held
<1>3. CASE ~credit[p]
  BY <1>1, <1>3, LaneFacts DEF LaneOK, Held
<1> QED BY <1>2, <1>3, Zenon

\* A write into the slots behind the tail.
Writes(p, items) ==
    /\ writing[p] = 0
    /\ slots' = Written(p, items)
    /\ writing' = [writing EXCEPT ![p] = Len(items)]
    /\ UNCHANGED <<head, tail, retired, reading, base, cap>>

\* push, push_batch and push_reserved write slots no queue holds: until the tail store
\* nothing has been pushed.
LEMMA WriteOK ==
    ASSUME IInv, Content, IInv', NEW p \in Producers, NEW items \in Seq(Values),
           Len(items) \in 1..2, Writes(p, items)
    PROVE  Content' /\ Simulates
<1> DEFINE n == Len(items)
           Put(k) == SlotOf(p, Plus(tail[p], k - 1))
<1>0. n \in Nat /\ n <= 2 /\ n >= 1
  <2>1. \A m \in 1..2 : m \in Nat /\ m <= 2 /\ m >= 1
    OBVIOUS
  <2> QED BY <2>1, Zenon
<1>1. Held(p) + n <= cap[p]
  <2>1. (AllHaveRoom)'
    BY RoomInAll, PTL
  <2>2. (Held(p) + writing[p] <= cap[p])'
    BY <2>1, Zenon DEF AllHaveRoom
  <2>3. Held(p)' = Held(p) /\ cap'[p] = cap[p]
    BY Zenon DEF Held, Writes
  <2>4. writing'[p] = n
    BY Zenon DEF Writes, Content
  <2> QED BY <2>2, <2>3, <2>4
<1>2. Held(p) \in Nat /\ cap[p] \in Nat /\ cap[p] < IndexMod /\ head[p] \in Index /\ tail[p] \in Index
      /\ IndexMod \in Nat
  BY RoomToWrite, LaneFacts
<1>3. ASSUME NEW k \in 1..n
      PROVE  /\ Plus(tail[p], k - 1) \in Index
             /\ Plus(tail[p], k - 1) = Plus(head[p], Held(p) + (k - 1))
             /\ Held(p) + (k - 1) \in Nat /\ Held(p) + (k - 1) < cap[p]
  <2>1. k - 1 \in Nat /\ k - 1 < IndexMod /\ Held(p) + (k - 1) < IndexMod
        /\ Held(p) + (k - 1) \in Nat /\ Held(p) + (k - 1) < cap[p]
    BY <1>0, <1>1, <1>2
  <2>2. Plus(tail[p], k - 1) \in Index
    BY <1>2, <2>1, DistOfOwn, Zenon
  <2>3. Plus(head[p], Held(p)) = tail[p]
    BY <1>2, PlusOfDist DEF Held
  <2>4. Plus(Plus(head[p], Held(p)), k - 1) = Plus(head[p], Held(p) + (k - 1))
    BY <1>2, <2>1, PlusOfPlus
  <2> QED BY <2>1, <2>2, <2>3, <2>4, Zenon
<1>4. DOMAIN slots = 0..(TotalSlots - 1)
  BY Zenon DEF Content
<1>5. ASSUME NEW i \in 0..(TotalSlots - 1), \A k \in 1..n : Put(k) # i
      PROVE  slots'[i] = slots[i]
  BY <1>4, <1>5, Zenon DEF Writes, Written
<1>6. ASSUME NEW i \in 0..(TotalSlots - 1), NEW k \in 1..n, Put(k) = i
      PROVE  slots'[i] \in Values
  <2> DEFINE j == CHOOSE m \in 1..n : Put(m) = i
  <2>1. j \in 1..n
    BY <1>6, Zenon
  <2>2. items[j] \in Values
    <3> HIDE DEF j
    <3> QED BY <2>1
  <2>3. slots'[i] = items[j]
    BY <1>4, <1>6, Zenon DEF Writes, Written
  <2> QED BY <2>2, <2>3, Zenon
<1>7. slots' \in [0..(TotalSlots - 1) -> Values \cup {None}]
  <2>1. \A i \in 0..(TotalSlots - 1) : slots'[i] \in Values \cup {None}
    <3> SUFFICES ASSUME NEW i \in 0..(TotalSlots - 1) PROVE slots'[i] \in Values \cup {None}
      OBVIOUS
    <3>1. slots[i] \in Values \cup {None}
      BY Zenon DEF Content
    <3> QED BY <1>5, <1>6, <3>1, Zenon
  <2>2. DOMAIN slots' = 0..(TotalSlots - 1) /\ slots' = [i \in DOMAIN slots' |-> slots'[i]]
    BY <1>4, Zenon DEF Writes, Written
  <2> QED BY <2>1, <2>2, Zenon
<1>8. ASSUME NEW q \in Producers, q # p PROVE LaneAlone(q) /\ writing'[q] = writing[q]
  <2>1. ASSUME NEW i \in Index PROVE slots'[SlotOf(q, i)] = slots[SlotOf(q, i)]
    <3>1. SlotOf(q, i) \in 0..(TotalSlots - 1)
      BY LanesApart, Zenon DEF Content
    <3>2. \A k \in 1..n : Put(k) # SlotOf(q, i)
      BY <1>3, <1>8, LanesApart, Zenon DEF Content
    <3> QED BY <1>5, <3>1, <3>2, Zenon
  <2>2. writing'[q] = writing[q]
    BY <1>8, Zenon DEF Writes, Content
  <2> QED BY <2>1, <2>2, Zenon DEF LaneAlone, Writes, InHand
<1>9. CellsAlone(p)
  <2>1. ASSUME NEW k \in 0..(Held(p) - 1)
        PROVE  slots'[SlotOf(p, Plus(head[p], k))] = slots[SlotOf(p, Plus(head[p], k))]
    <3>1. k \in Nat /\ k < cap[p] /\ k < IndexMod /\ k < Held(p)
      BY <1>0, <1>1, <1>2
    <3>2. Plus(head[p], k) \in Index
      BY <1>2, <3>1, DistOfOwn, Zenon
    <3>3. SlotOf(p, Plus(head[p], k)) \in 0..(TotalSlots - 1)
      BY <3>2, LanesApart, Zenon DEF Content
    <3>4. ASSUME NEW m \in 1..n PROVE Put(m) # SlotOf(p, Plus(head[p], k))
      <4>1. Held(p) + (m - 1) # k
        BY <1>2, <3>1
      <4>2. Put(m) = SlotOf(p, Plus(head[p], Held(p) + (m - 1)))
        BY <1>3, Zenon
      <4> QED BY <1>2, <1>3, <3>1, <4>1, <4>2, SlotsApart, Zenon DEF Content
    <3> QED BY <1>5, <3>3, <3>4, Zenon
  <2> QED BY <2>1, Zenon DEF CellsAlone, Writes, InHand
<1>10. Content'
  <2>1. Blocks(base, cap)'
    BY Zenon DEF Writes, Content, Blocks
  <2>2. writing' \in [Producers -> 0..2]
    BY <1>0 DEF Writes, Content
  <2>3. ASSUME NEW q \in Producers PROVE Filled(q)'
    <3>1. CASE q # p
      BY <1>8, <3>1, AloneKeepsFilled, Zenon
    <3>2. CASE q = p
      <4>1. writing'[p] = n
        BY Zenon DEF Writes, Content
      <4>2. \A k \in 1..n : Put(k) \in 0..(TotalSlots - 1)
        BY <1>3, LanesApart, Zenon DEF Content
      <4>3. \A k \in 1..n : slots'[Put(k)] \in Values
        BY <1>6, <4>2, Zenon
      <4> QED BY <3>2, <4>1, <4>3, Zenon DEF Filled, Writes, SlotOf
    <3> QED BY <3>1, <3>2, Zenon
  <2>4. (\A q \in Producers : BatchTrails(q))' /\ HandIsInBatch'
    BY Zenon DEF Content, BatchTrails, HandIsInBatch, Writes
  <2> QED BY <1>7, <2>1, <2>2, <2>3, <2>4, Zenon DEF Content
<1>11. ASSUME NEW q \in Producers PROVE QueueOf(q)' = QueueOf(q)
  BY <1>8, <1>9, <1>10, AloneKeepsQueue, CellsKeepQueue, Zenon
<1> QED BY <1>10, <1>11, IsStutter, Zenon DEF Writes

-----------------------------------------------------------------------------
(* The tail store. *)

\* The release store of tail appends the written items to the queue of the producer.
LEMMA PublishOK ==
    ASSUME IInv, Content, IInv', NEW p \in Producers, PushPublish(p)
    PROVE  Content' /\ Simulates
<1> DEFINE w == writing[p]
           Put(k) == SlotOf(p, Plus(tail[p], k - 1))
<1>1. /\ UNCHANGED <<head, retired, reading, slots, base, cap>>
      /\ tail' = [tail EXCEPT ![p] = Plus(tail[p], w)]
      /\ writing' = [writing EXCEPT ![p] = 0]
      /\ w > 0
  BY DEF PushPublish, consumerVars, geometry
<1>2. /\ Held(p) \in Nat /\ w \in 0..2 /\ Held(p) + w <= cap[p] /\ cap[p] \in Nat
      /\ cap[p] < TotalSlots /\ cap[p] < IndexMod /\ InHand(p) \in 0..1 /\ InHand(p) <= Held(p)
  BY RoomToWrite
<1>3. head[p] \in Index /\ tail[p] \in Index /\ retired[p] \in Index /\ IndexMod \in Nat
  BY LaneFacts, Zenon
<1>4. w \in 1..2
  BY <1>1, <1>2
<1> HIDE DEF w
<1>5. tail'[p] = Plus(tail[p], w) /\ writing'[p] = 0
  BY <1>1, Zenon DEF IInv, TypeOK
<1>6. ASSUME NEW q \in Producers, q # p PROVE LaneAlone(q) /\ writing'[q] = writing[q] /\ tail'[q] = tail[q]
  BY <1>1, <1>6, Zenon DEF LaneAlone, InHand, IInv, TypeOK
<1>7. Held(p)' = Held(p) + w
  <2>1. Held(p) + w < IndexMod
    BY <1>2, <1>3, <1>4
  <2>2. Dist(head[p], Plus(tail[p], w)) = Dist(head[p], tail[p]) + w
    BY <1>3, <1>4, <2>1, DistOfPlus DEF Held
  <2> QED BY <1>1, <1>5, <2>2, Zenon DEF Held
<1>8. BatchTrails(p)'
  <2> DEFINE b == Dist(retired[p], head[p])
  <2>1. b \in Nat /\ b <= MaxHeld /\ b + Held(p) = Dist(retired[p], tail[p])
    <3>1. b \in Nat
      BY <1>3, DistInRange DEF Index
    <3> QED BY <3>1, Zenon DEF Content, BatchTrails, Held
  <2>2. MaxHeld \in Nat /\ TotalSlots \in Nat /\ IndexMod >= TotalSlots + MaxHeld
    BY LaneAssumption, Zenon DEF LaneAssumption
  <2> HIDE DEF b
  <2>3. Dist(retired[p], tail[p]) + w < IndexMod
    BY <1>2, <1>3, <1>4, <2>1, <2>2
  <2>4. Dist(retired[p], Plus(tail[p], w)) = Dist(retired[p], tail[p]) + w
    BY <1>3, <1>4, <2>3, DistOfPlus
  <2>5. b + (Held(p) + w) = Dist(retired[p], Plus(tail[p], w))
    BY <1>2, <1>4, <2>1, <2>4
  <2>6. b + Held(p)' = Dist(retired[p], tail'[p])
    BY <1>5, <1>7, <2>5, Zenon
  <2> QED BY <1>1, <2>1, <2>6, Zenon DEF BatchTrails, b, Held
<1>9. Content'
  <2>1. Blocks(base, cap)' /\ slots' \in [0..(TotalSlots - 1) -> Values \cup {None}]
    BY <1>1, Zenon DEF Content, Blocks
  <2>2. writing' \in [Producers -> 0..2]
    BY <1>1 DEF Content
  <2>3. ASSUME NEW q \in Producers PROVE Filled(q)'
    <3>1. CASE q # p
      BY <1>6, <3>1, AloneKeepsFilled, Zenon
    <3>2. CASE q = p
      <4>1. 1..0 = {}
        OBVIOUS
      <4> QED BY <1>5, <3>2, <4>1, Zenon DEF Filled
    <3> QED BY <3>1, <3>2, Zenon
  <2>4. ASSUME NEW q \in Producers PROVE BatchTrails(q)'
    <3>1. CASE q # p
      BY <1>1, <1>6, <3>1, Zenon DEF BatchTrails, Content
    <3> QED BY <1>8, <3>1, Zenon
  <2>5. HandIsInBatch'
    BY <1>1, Zenon DEF Content, HandIsInBatch
  <2> QED BY <2>1, <2>2, <2>3, <2>4, <2>5, Zenon DEF Content
<1>10. \A q \in Producers \ {p} : QueueOf(q)' = QueueOf(q)
  BY <1>6, <1>9, AloneKeepsQueue, Zenon
<1> DEFINE f == InHand(p)
           n == Held(p) - InHand(p)
           s == Window(p, f, n)
           t == Window(p, f, n + w)
<1>11. f \in Nat /\ n \in Nat /\ f + n = Held(p) /\ f + n < IndexMod
       /\ f + (n + w) < IndexMod /\ n + w \in Nat
  BY <1>2, <1>3, <1>4
<1>12. QueueOf(p) = s
  BY QueueView
<1>13. QueueOf(p)' = t
  <2>1. (QueuesAreWindows)'
    BY <1>9, QueueViews, PTL
  <2>2. QueueOf(p)' = Window(p, InHand(p), Held(p) - InHand(p))'
    BY <2>1, Zenon DEF QueuesAreWindows
  <2>3. InHand(p)' = InHand(p)
    BY <1>1 DEF InHand
  <2>4. (Held(p) - InHand(p))' = n + w
    <3>1. (Held(p) + w) - InHand(p) = (Held(p) - InHand(p)) + w
      BY <1>2, <1>4
    <3> QED BY <1>7, <2>3, <3>1, Zenon
  <2> HIDE DEF n, f
  <2>5. Window(p, InHand(p), Held(p) - InHand(p))' = Window(p, f, n + w)
    BY <1>1, <2>3, <2>4, Zenon DEF Window, SlotOf, f
  <2> QED BY <2>2, <2>5, Zenon
<1> HIDE DEF f, n
<1>14. /\ s \in Seq(Values \cup {None}) /\ Len(s) = n
       /\ \A k \in 1..n : s[k] = slots[SlotOf(p, Plus(head[p], (f + k) - 1))]
  BY <1>11, WindowIsSeq, Zenon
<1>15. /\ t \in Seq(Values \cup {None}) /\ Len(t) = n + w
       /\ \A k \in 1..(n + w) : t[k] = slots[SlotOf(p, Plus(head[p], (f + k) - 1))]
  BY <1>11, WindowIsSeq, Zenon
<1> HIDE DEF s, t
<1>16. \A k \in 1..n : t[k] = s[k]
  <2>1. \A k \in 1..n : k \in 1..(n + w)
    BY <1>4, <1>11
  <2> QED BY <1>14, <1>15, <2>1, Zenon
<1>17. ASSUME NEW k \in 1..w PROVE t[n + k] = slots[Put(k)] /\ slots[Put(k)] \in Values
  <2>1. n + k \in 1..(n + w) /\ (f + (n + k)) - 1 = Held(p) + (k - 1) /\ k - 1 \in Nat
        /\ Held(p) + (k - 1) < IndexMod
    BY <1>2, <1>3, <1>4, <1>11
  <2>2. t[n + k] = slots[SlotOf(p, Plus(head[p], Held(p) + (k - 1)))]
    BY <1>15, <2>1, Zenon
  <2>3. Plus(head[p], Held(p)) = tail[p]
    BY <1>3, PlusOfDist, Zenon DEF Held
  <2>4. Plus(Plus(head[p], Held(p)), k - 1) = Plus(head[p], Held(p) + (k - 1))
    BY <1>2, <1>3, <2>1, PlusOfPlus
  <2>5. slots[Put(k)] \in Values
    BY Zenon DEF Content, Filled, w
  <2> QED BY <2>2, <2>3, <2>4, <2>5, Zenon
<1> HIDE DEF Put
<1>18. CASE w = 1
  <2> DEFINE v == slots[Put(1)]
  <2>1. v \in Values /\ t[n + 1] = v
    BY <1>17, <1>18
  <2> HIDE DEF v
  <2>2. t = s \o <<v>>
    BY <1>11, <1>14, <1>15, <1>16, <1>18, <2>1
  <2>3. Abstract!Push(p, <<v>>)
    BY <1>1, <1>10, <1>12, <1>13, <2>2, IsPush, Zenon
  <2> QED BY <1>9, <2>1, <2>3, Zenon DEF Simulates, Abstract!Next
<1>19. CASE w = 2
  <2> DEFINE v == slots[Put(1)]
             u == slots[Put(2)]
  <2>1. v \in Values /\ t[n + 1] = v /\ u \in Values /\ t[n + 2] = u
    BY <1>17, <1>19
  <2> HIDE DEF v, u
  <2>2. t = s \o <<v, u>>
    <3> DEFINE r == s \o <<v, u>>
    <3>1. r \in Seq(Values \cup {None}) /\ Len(r) = n + 2
      BY <1>11, <1>14, <2>1
    <3>2. \A k \in 1..n : r[k] = s[k]
      BY <1>11, <1>14
    <3>3. r[n + 1] = v /\ r[n + 2] = u
      BY <1>11, <1>14
    <3> HIDE DEF r
    <3>4. \A k \in 1..(n + 2) : k \in 1..n \/ k = n + 1 \/ k = n + 2
      BY <1>11
    <3>5. \A k \in 1..Len(t) : t[k] = r[k]
      BY <1>15, <1>16, <1>19, <2>1, <3>2, <3>3, <3>4, Zenon
    <3>6. t = r
      BY <1>15, <1>19, <3>1, <3>5, SameSequence, Zenon
    <3> QED BY <3>6, Zenon DEF r
  <2>3. Abstract!Push(p, <<v, u>>)
    BY <1>1, <1>10, <1>12, <1>13, <2>2, IsPush, Zenon
  <2> QED BY <1>9, <2>1, <2>3, Zenon DEF Simulates, Abstract!Next
<1> QED BY <1>4, <1>18, <1>19

-----------------------------------------------------------------------------
(* pop_unretired. *)

\* Tail drops the first element.
LEMMA TailElements ==
    ASSUME NEW S, NEW s \in Seq(S), s # <<>>
    PROVE  Tail(s) = [k \in 1..(Len(s) - 1) |-> s[k + 1]]
<1>1. Len(s) \in Nat /\ Len(s) >= 1
  OBVIOUS
<1>2. Tail(s) \in Seq(S) /\ Len(Tail(s)) = Len(s) - 1
  OBVIOUS
<1>3. \A k \in 1..(Len(s) - 1) : Tail(s)[k] = s[k + 1]
  OBVIOUS
<1>4. \A t \in Seq(S) : t = [k \in 1..Len(t) |-> t[k]]
  OBVIOUS
<1> QED BY <1>2, <1>3, <1>4, Zenon

\* The step of a consumer that finds a task: it takes the first of the queue.
Takes(p) ==
    /\ reading = <<>>
    /\ Dist(retired[p], head[p]) < MaxHeld
    /\ reading' = <<p, slots[SlotOf(p, head[p])]>>
    /\ slots' = [slots EXCEPT ![SlotOf(p, head[p])] = None]
    /\ UNCHANGED <<head, tail, retired, writing, base, cap>>

\* pop_unretired reads the first of the queue.
LEMMA TakeOK ==
    ASSUME IInv, Content, IInv', NEW p \in Producers, Takes(p)
    PROVE  Content' /\ Simulates
<1> DEFINE c == SlotOf(p, head[p])
           n == Held(p)
<1>1. /\ n \in Nat /\ writing[p] \in 0..2 /\ n + writing[p] <= cap[p] /\ cap[p] \in Nat
      /\ cap[p] < IndexMod
  BY RoomToWrite
<1>2. head[p] \in Index /\ tail[p] \in Index /\ IndexMod \in Nat /\ Plus(head[p], 0) = head[p]
  BY LaneFacts, PlusOfDist
<1>3. c \in 0..(TotalSlots - 1) /\ slots \in [0..(TotalSlots - 1) -> Values \cup {None}]
  BY <1>2, LanesApart, Zenon DEF Content
<1>4. InHand(p) = 0 /\ InHand(p)' = 1
  BY DEF InHand, Takes
<1>5. n >= 1
  <2>1. reading'[1] = p /\ reading' # <<>>
    BY Zenon DEF Takes
  <2>2. ReadIsPublished' /\ (LaneOK(p))'
    BY DEF IInv
  <2>3. Dist(head[p], tailCached'[p]) >= 1
    BY <2>1, <2>2, Zenon DEF ReadIsPublished, Takes
  <2>4. Dist(head[p], tailCached'[p]) + Dist(tailCached'[p], tail[p]) = Dist(head[p], tail[p])
    BY <2>2, Zenon DEF LaneOK, Takes, TailCopyTrails
  <2>5. tailCached'[p] \in Index
    BY Zenon DEF IInv, TypeOK
  <2>6. Dist(head[p], tailCached'[p]) \in Nat /\ Dist(tailCached'[p], tail[p]) \in Nat
    <3>1. Dist(head[p], tailCached'[p]) \in Index /\ Dist(tailCached'[p], tail[p]) \in Index
      BY <1>2, <2>5, DistInRange, Zenon
    <3> QED BY <1>2, <3>1 DEF Index
  <2> QED BY <2>3, <2>4, <2>6 DEF Held
<1> HIDE DEF n
<1>6. ASSUME NEW i \in 0..(TotalSlots - 1), i # c PROVE slots'[i] = slots[i]
  BY <1>3, <1>6, Zenon DEF Takes
<1>7. slots' \in [0..(TotalSlots - 1) -> Values \cup {None}]
  BY <1>3 DEF Takes
<1>8. ASSUME NEW q \in Producers, q # p PROVE LaneAlone(q) /\ writing'[q] = writing[q]
  <2>1. ASSUME NEW i \in Index PROVE slots'[SlotOf(q, i)] = slots[SlotOf(q, i)]
    BY <1>2, <1>6, <1>8, LanesApart, Zenon DEF Content
  <2>2. InHand(q) = 0 /\ InHand(q)' = 0
    BY <1>8 DEF InHand, Takes
  <2> QED BY <2>1, <2>2, Zenon DEF LaneAlone, Takes
<1>9. ASSUME NEW k \in Nat, k >= 1, k < cap[p]
      PROVE  slots'[SlotOf(p, Plus(head[p], k))] = slots[SlotOf(p, Plus(head[p], k))]
  <2>1. 0 < cap[p] /\ k # 0 /\ k < IndexMod
    BY <1>1, <1>2, <1>9
  <2>2. Plus(head[p], k) \in Index
    BY <1>2, <2>1, DistOfOwn
  <2>3. SlotOf(p, Plus(head[p], k)) \in 0..(TotalSlots - 1)
    BY <2>2, LanesApart, Zenon DEF Content
  <2>4. SlotOf(p, Plus(head[p], k)) # SlotOf(p, Plus(head[p], 0))
    <3> SUFFICES ASSUME SlotOf(p, Plus(head[p], k)) = SlotOf(p, Plus(head[p], 0))
                 PROVE  FALSE
      OBVIOUS
    <3>1. 0 \in Nat /\ Blocks(base, cap)
      BY DEF Content
    <3>2. k = 0
      BY <1>2, <1>9, <2>1, <3>1, SlotsApart
    <3> QED BY <2>1, <3>2
  <2>5. SlotOf(p, Plus(head[p], k)) # c
    BY <1>2, <2>4
  <2> HIDE DEF c
  <2> QED BY <1>6, <2>3, <2>5, Zenon
<1>10. Content'
  <2>1. Blocks(base, cap)' /\ writing' \in [Producers -> 0..2]
    BY Zenon DEF Content, Blocks, Takes
  <2>2. ASSUME NEW q \in Producers PROVE Filled(q)'
    <3>1. CASE q # p
      BY <1>8, <3>1, AloneKeepsFilled
    <3>2. CASE q = p
      <4>1. ASSUME NEW k \in 1..writing[p]
            PROVE  slots'[SlotOf(p, Plus(tail[p], k - 1))] \in Values
        <5>1. k - 1 \in Nat /\ n + (k - 1) \in Nat /\ n + (k - 1) >= 1 /\ n + (k - 1) < cap[p]
              /\ n + (k - 1) < IndexMod
          BY <1>1, <1>2, <1>5
        <5>2. Plus(head[p], n) = tail[p]
          BY <1>2, PlusOfDist DEF Held, n
        <5>3. Plus(Plus(head[p], n), k - 1) = Plus(head[p], n + (k - 1))
          BY <1>1, <1>2, <5>1, PlusOfPlus
        <5>4. slots[SlotOf(p, Plus(tail[p], k - 1))] \in Values
          BY Zenon DEF Content, Filled
        <5> QED BY <1>9, <5>1, <5>2, <5>3, <5>4, Zenon
      <4>2. \A k \in 1..writing[p] : slots'[base[p] + (Plus(tail[p], k - 1) % cap[p])] \in Values
        BY <4>1, Zenon DEF SlotOf
      <4> QED BY <3>2, <4>2, Zenon DEF Filled, Takes, SlotOf
    <3> QED BY <3>1, <3>2
  <2>3. ASSUME NEW q \in Producers PROVE BatchTrails(q)'
    BY Zenon DEF Content, BatchTrails, Takes
  <2>4. HandIsInBatch'
    <3>1. reading'[1] = p
      BY DEF Takes
    <3> QED BY <3>1, Zenon DEF HandIsInBatch, Takes
  <2> QED BY <1>7, <2>1, <2>2, <2>3, <2>4, Zenon DEF Content
<1>11. \A q \in Producers \ {p} : QueueOf(q)' = QueueOf(q)
  BY <1>8, <1>10, AloneKeepsQueue, Zenon
<1> DEFINE s == Window(p, 0, n)
<1>12. QueueOf(p) = s
  <2>1. Held(p) - InHand(p) = n
    BY <1>1, <1>4 DEF n
  <2> QED BY <1>4, <2>1, QueueView, Zenon
<1>13. /\ s \in Seq(Values \cup {None}) /\ Len(s) = n
       /\ \A k \in 1..n : s[k] = slots[SlotOf(p, Plus(head[p], (0 + k) - 1))]
  <2>1. 0 \in Nat /\ 0 + n < IndexMod
    BY <1>1, <1>2
  <2> QED BY <1>1, <2>1, WindowIsSeq, Zenon
<1>14. QueueOf(p)' = [k \in 1..(n - 1) |-> slots'[SlotOf(p, Plus(head[p], (1 + k) - 1))]]
  <2>1. (QueuesAreWindows)'
    BY <1>10, QueueViews, PTL
  <2>2. QueueOf(p)' = Window(p, InHand(p), Held(p) - InHand(p))'
    BY <2>1, Zenon DEF QueuesAreWindows
  <2>3. Held(p)' = n
    BY DEF Held, Takes, n
  <2> QED BY <1>4, <2>2, <2>3, Zenon DEF Window, SlotOf, Takes
<1> HIDE DEF s
<1>15. ASSUME NEW k \in 1..(n - 1)
       PROVE  slots'[SlotOf(p, Plus(head[p], (1 + k) - 1))] = s[k + 1]
  <2>1. k \in Nat /\ k >= 1 /\ k < cap[p] /\ k + 1 \in 1..n /\ (1 + k) - 1 = k
        /\ (0 + (k + 1)) - 1 = k
    BY <1>1
  <2> QED BY <1>9, <1>13, <2>1, Zenon
<1>16. s # <<>> /\ Head(s) = slots[c]
  <2>1. 1 \in 1..n /\ (0 + 1) - 1 = 0
    BY <1>1, <1>5
  <2>2. s[1] = slots[c]
    BY <1>2, <1>13, <2>1, Zenon
  <2> QED BY <1>1, <1>5, <1>13, <2>2
<1>17. QueueOf(p)' = Tail(s)
  <2>1. [k \in 1..(n - 1) |-> slots'[SlotOf(p, Plus(head[p], (1 + k) - 1))]]
          = [k \in 1..(n - 1) |-> s[k + 1]]
    BY <1>15
  <2>2. Tail(s) = [k \in 1..(n - 1) |-> s[k + 1]]
    BY <1>13, <1>16, TailElements, Zenon
  <2> QED BY <1>14, <2>1, <2>2, Zenon
<1>18. Abstract!Take(p)
  <2>1. reading = <<>> /\ reading' = <<p, Head(QueueOf(p))>> /\ QueueOf(p) # <<>>
        /\ QueueOf(p)' = Tail(QueueOf(p))
    BY <1>12, <1>16, <1>17, Zenon DEF Takes
  <2> QED BY <1>11, <2>1, IsTake
<1> QED BY <1>10, <1>18, Zenon DEF Simulates, Abstract!Next

\* The head store hands the task over: the window starts one slot later and is the same.
LEMMA TookOK ==
    ASSUME IInv, Content, IInv', PopAdvance
    PROVE  Content' /\ Simulates
<1>1. PICK p \in Producers : p = reading[1]
  BY DEF IInv, ReadIsPublished, PopAdvance
<1>2. /\ UNCHANGED <<tail, retired, slots, writing, base, cap>>
      /\ head' = [head EXCEPT ![p] = Plus(head[p], 1)]
      /\ reading # <<>> /\ reading' = <<>>
  BY <1>1 DEF PopAdvance, producerVars, geometry
<1>3. /\ Held(p) \in Nat /\ Held(p) <= cap[p] /\ cap[p] \in Nat /\ cap[p] < IndexMod
      /\ cap[p] < TotalSlots /\ InHand(p) = 1 /\ Held(p) >= 1
  <2>1. InHand(p) = 1
    BY <1>1, <1>2 DEF InHand
  <2> QED BY <2>1, RoomToWrite
<1>4. head[p] \in Index /\ tail[p] \in Index /\ retired[p] \in Index /\ IndexMod \in Nat
  BY LaneFacts
<1>5. head'[p] = Plus(head[p], 1)
  BY <1>2, Zenon DEF IInv, TypeOK
<1>6. Plus(head[p], 1) \in Index /\ Dist(Plus(head[p], 1), tail[p]) = Held(p) - 1
  BY <1>3, <1>4, DistFromPlus DEF Held
<1>7. Held(p)' = Held(p) - 1
  BY <1>2, <1>5, <1>6 DEF Held
<1>8. BatchTrails(p)'
  <2> DEFINE b == Dist(retired[p], head[p])
  <2>1. b \in Nat
    BY <1>4, DistInRange DEF Index
  <2>2. b < MaxHeld /\ b + Held(p) = Dist(retired[p], tail[p])
    BY <1>1, <1>2, Zenon DEF Content, BatchTrails, HandIsInBatch, Held
  <2>3. MaxHeld \in Nat /\ TotalSlots \in Nat /\ IndexMod >= TotalSlots + MaxHeld
    BY LaneAssumption, Zenon DEF LaneAssumption
  <2>4. b + 1 < IndexMod
    <3> HIDE DEF b
    <3> QED BY <1>3, <1>4, <2>1, <2>2, <2>3
  <2>5. Dist(retired[p], Plus(head[p], 1)) = b + 1
    BY <1>4, <2>4, DistOfPlus
  <2> HIDE DEF b
  <2>6. b + 1 <= MaxHeld /\ (b + 1) + (Held(p) - 1) = Dist(retired[p], tail[p])
    BY <1>3, <2>1, <2>2, <2>3
  <2> QED BY <1>2, <1>5, <1>6, <2>5, <2>6, Zenon DEF BatchTrails
<1>9. ASSUME NEW q \in Producers, q # p PROVE LaneAlone(q)
  <2>1. InHand(q) = 0 /\ InHand(q)' = 0
    BY <1>1, <1>2, <1>9, Zenon DEF InHand
  <2>2. head'[q] = head[q]
    BY <1>2, <1>9, Zenon DEF IInv, TypeOK
  <2> QED BY <1>2, <2>1, <2>2, Zenon DEF LaneAlone
<1>10. Content'
  <2>1. /\ Blocks(base, cap)' /\ slots' \in [0..(TotalSlots - 1) -> Values \cup {None}]
        /\ writing' \in [Producers -> 0..2]
    BY <1>2, Zenon DEF Content, Blocks
  <2>2. ASSUME NEW q \in Producers PROVE Filled(q)'
    BY <1>2, Zenon DEF Content, Filled, SlotOf
  <2>3. ASSUME NEW q \in Producers PROVE BatchTrails(q)'
    <3>1. CASE q # p
      BY <1>2, <1>9, <3>1, Zenon DEF BatchTrails, Content, LaneAlone
    <3> QED BY <1>8, <3>1, Zenon
  <2>4. HandIsInBatch'
    BY <1>2, Zenon DEF HandIsInBatch
  <2> QED BY <2>1, <2>2, <2>3, <2>4, Zenon DEF Content
<1>11. QueueOf(p)' = QueueOf(p)
  <2> DEFINE n == Held(p) - 1
  <2>1. (QueuesAreWindows)'
    BY <1>10, QueueViews, PTL
  <2>2. QueueOf(p)' = Window(p, InHand(p), Held(p) - InHand(p))'
    BY <2>1, Zenon DEF QueuesAreWindows
  <2>3. InHand(p)' = 0
    BY <1>2 DEF InHand
  <2>4. (Held(p) - InHand(p))' = n
    <3>1. (Held(p) - 1) - 0 = Held(p) - 1
      BY <1>3
    <3> QED BY <1>7, <2>3, <3>1, Zenon
  <2>5. QueueOf(p) = [k \in 1..n |-> slots[SlotOf(p, Plus(head[p], (1 + k) - 1))]]
    BY <1>3, QueueView, Zenon DEF Window
  <2> HIDE DEF n
  <2>6. QueueOf(p)' = [k \in 1..n |-> slots[SlotOf(p, Plus(Plus(head[p], 1), (0 + k) - 1))]]
    BY <1>2, <1>5, <2>2, <2>3, <2>4, Zenon DEF Window, SlotOf
  <2>7. ASSUME NEW k \in 1..n
        PROVE  Plus(Plus(head[p], 1), (0 + k) - 1) = Plus(head[p], (1 + k) - 1)
    <3>1. (0 + k) - 1 \in Nat /\ 1 + ((0 + k) - 1) = (1 + k) - 1 /\ 1 + ((0 + k) - 1) < IndexMod
      BY <1>3, <1>4 DEF n
    <3>2. Plus(Plus(head[p], 1), (0 + k) - 1) = Plus(head[p], 1 + ((0 + k) - 1))
      BY <1>4, <3>1, PlusOfPlus
    <3> QED BY <3>1, <3>2, Zenon
  <2>8. [k \in 1..n |-> slots[SlotOf(p, Plus(Plus(head[p], 1), (0 + k) - 1))]]
          = [k \in 1..n |-> slots[SlotOf(p, Plus(head[p], (1 + k) - 1))]]
    BY <2>7
  <2> QED BY <2>5, <2>6, <2>8, Zenon
<1>12. \A q \in Producers : QueueOf(q)' = QueueOf(q)
  BY <1>9, <1>10, <1>11, AloneKeepsQueue, Zenon
<1>13. Abstract!Took
  BY <1>2, <1>12, IsTook
<1> QED BY <1>10, <1>13, Zenon DEF Simulates, Abstract!Next

-----------------------------------------------------------------------------
(* Steps that touch no slot, and lanes without tasks. *)

\* retire_n moves only the frontier of what the consumer gives back.
LEMMA RetireRefines ==
    ASSUME IInv, Content, IInv', NEW p \in Producers, NEW n \in 1..MaxHeld, retire_n(p, n)
    PROVE  Content' /\ Simulates
<1>1. /\ UNCHANGED <<head, tail, slots, writing, reading, base, cap>>
      /\ retired' = [retired EXCEPT ![p] = Plus(retired[p], n)]
      /\ n <= Dist(retired[p], head[p]) /\ reading = <<>>
  BY DEF retire_n, producerVars, geometry
<1>2. retired[p] \in Index /\ head[p] \in Index /\ tail[p] \in Index
  BY LaneFacts
<1>3. MaxHeld \in Nat /\ n \in Nat
  BY LaneAssumption DEF LaneAssumption
<1>4. retired'[p] = Plus(retired[p], n)
  BY <1>1, Zenon DEF IInv, TypeOK
<1>5. BatchTrails(p)'
  <2> DEFINE b == Dist(retired[p], head[p])
             d == Dist(retired[p], tail[p])
             h == Dist(head[p], tail[p])
  <2>1. b \in Nat /\ d \in Nat /\ h \in Nat
    <3>1. b \in Index /\ d \in Index /\ h \in Index
      BY <1>2, DistInRange, Zenon
    <3> QED BY <3>1, LaneAssumption DEF Index, LaneAssumption
  <2>2. b <= MaxHeld /\ b + h = d /\ n <= b
    BY <1>1, Zenon DEF Content, BatchTrails
  <2>3. Dist(Plus(retired[p], n), head[p]) = b - n
    BY <1>2, <1>3, <2>2, DistFromPlus
  <2>4. n <= Dist(retired[p], tail[p])
    <3> HIDE DEF b, h
    <3> QED BY <1>3, <2>1, <2>2
  <2>5. Dist(Plus(retired[p], n), tail[p]) = d - n
    BY <1>2, <1>3, <2>4, DistFromPlus
  <2> HIDE DEF b, d, h
  <2>6. b - n <= MaxHeld /\ (b - n) + h = d - n
    BY <1>3, <2>1, <2>2
  <2> QED BY <1>1, <1>4, <2>3, <2>5, <2>6, Zenon DEF BatchTrails, h
<1>6. ASSUME NEW q \in Producers PROVE BatchTrails(q)'
  <2>1. CASE q # p
    <3>1. retired'[q] = retired[q]
      BY <1>1, <2>1, Zenon DEF IInv, TypeOK
    <3> QED BY <1>1, <3>1, Zenon DEF BatchTrails, Content
  <2> QED BY <1>5, <2>1, Zenon
<1>7. Idle
  BY <1>1, <1>6, Zenon DEF Idle, HandIsInBatch
<1> QED BY <1>7, IdleOK

\* Steps that change only the copies of the frontiers and the credits.
LEMMA QuietRefines ==
    ASSUME IInv, Content, IInv', UNCHANGED <<head, retired, tail, slots, writing, reading, base, cap>>
    PROVE  Content' /\ Simulates
<1>1. Idle
  BY Zenon DEF Idle, Content, BatchTrails, HandIsInBatch
<1> QED BY <1>1, IdleOK

\* A lane without tasks is the empty queue.
EmptyLanes == (\A p \in Producers : Dist(head[p], tail[p]) = 0) /\ reading = <<>>
EmptyQueues == \A p \in Producers : QueueOf(p) = <<>>

\* A lane whose head has reached its tail is the empty queue.
LEMMA EmptyLaneIsEmptyQueue == EmptyLanes => EmptyQueues
<1> SUFFICES ASSUME EmptyLanes, NEW p \in Producers PROVE QueueOf(p) = <<>>
  BY DEF EmptyQueues
<1>1. QueueOf(p) = [k \in 1..0 |-> slots[SlotOf(p, Plus(head[p], k - 1))]]
  BY Zenon DEF QueueOf, EmptyLanes
<1> QED BY <1>1

\* Lanes with every index at zero, as init_local and remask_quiesced leave them, are empty.
LEMMA FreshContent ==
    ASSUME head = Fresh, retired = Fresh, tail = Fresh, writing = Fresh, reading = <<>>,
           Blocks(base, cap), slots \in [0..(TotalSlots - 1) -> Values \cup {None}]
    PROVE  Content /\ EmptyLanes
<1>1. \A p \in Producers : head[p] = 0 /\ retired[p] = 0 /\ tail[p] = 0 /\ writing[p] = 0
  BY DEF Fresh
<1>2. Dist(0, 0) = 0
  BY DEF Dist
<1>3. writing \in [Producers -> 0..2]
  BY DEF Fresh
<1>4. \A p \in Producers : Filled(p)
  BY <1>1 DEF Filled
<1>5. \A p \in Producers : BatchTrails(p)
  <2>1. MaxHeld \in Nat
    BY LaneAssumption DEF LaneAssumption
  <2> QED BY <1>1, <1>2, <2>1 DEF BatchTrails
<1>6. HandIsInBatch
  BY DEF HandIsInBatch
<1> QED BY <1>1, <1>2, <1>3, <1>4, <1>5, <1>6, Zenon DEF Content, EmptyLanes

=============================================================================
