------------------------------ MODULE TaskLane ------------------------------
(***************************************************************************)
(* MaskedSpscArray (exec/masked_queue.h): the slots of one consumer's      *)
(* inbox, split into one contiguous block per producer, each a             *)
(* single-producer single-consumer ring with                               *)
(*   - a head, a tail and a retired frontier that wrap like uint32_t,      *)
(*   - a stale copy of the other side's frontier on each side,             *)
(*   - reservations, which lower the producer's capacity credit,           *)
(*   - a repartition when the roles of the threads change.                 *)
(* A push is a slot write and then a tail store; a pop is a slot read and  *)
(* then a head store.  The two sides interleave between these.             *)
(***************************************************************************)
EXTENDS Naturals, Sequences, FiniteSets

CONSTANTS
    NumProducers,   \* producers_: the threads of the server
    TotalSlots,     \* total_slots_
    InternalSlots,  \* kInternalProducerSlots: the block of an executor
    IndexMod,       \* 2^32, the modulus of the frontiers
    MaxHeld,        \* bound on tasks popped and not yet retired (one batch)
    Values

Producers == 0..(NumProducers - 1)

ASSUME LaneAssumption ==
    /\ NumProducers \in Nat \ {0, 1}
    /\ TotalSlots \in Nat \ {0}
    /\ InternalSlots \in Nat \ {0}
    /\ MaxHeld \in Nat \ {0}
    /\ IndexMod \in Nat
    /\ IndexMod >= TotalSlots + MaxHeld
    /\ TotalSlots \div NumProducers >= InternalSlots
    \* Blocks are powers of two, so that their masks divide the range of the indices.
    /\ \A k \in 1..TotalSlots :
          (\/ k \in {1, InternalSlots, TotalSlots \div NumProducers}
           \/ \E e \in 1..TotalSlots : k = 2^e) => IndexMod % k = 0

VARIABLES
    head, retired, tailCached,          \* ConsumerLine of each lane
    tail, headCached, avail,            \* ProducerLine of each lane
    base, cap,                          \* the block of each lane
    slots,                              \* the shared slot array
    writing,  \* writing[p]: slots p has written and not yet published
    credit,   \* credit[p]: the write in progress spends a reservation
    reading,  \* the lane and value the consumer has read, before its head store
    fused     \* the lanes were laid out for fused (1s) threads

geometry == <<base, cap, fused>>
consumerVars == <<head, retired, tailCached, reading>>
producerVars == <<tail, headCached, avail, writing, credit>>
vars == <<head, retired, tailCached, tail, headCached, avail, base, cap, slots,
          writing, credit, reading, fused>>

\* uint32_t arithmetic on frontiers.
Plus(i, n) == IF i + n < IndexMod THEN i + n ELSE i + n - IndexMod
Dist(from, to) == IF to >= from THEN to - from ELSE to + IndexMod - from

\* slots_[base + (index & mask)]
SlotOf(p, index) == base[p] + (index % cap[p])

quiesced(p) == retired[p] = tail[p]
all_quiesced == \A p \in Producers : quiesced(p)

-----------------------------------------------------------------------------
(* The partition of the slots among producers. *)

\* std::bit_floor
BitFloor(n) ==
    LET Powers == {k \in 1..n : k = 1 \/ \E e \in 1..n : k = 2^e}
    IN CHOOSE k \in Powers : \A j \in Powers : j <= k

\* The burst capacity left after the executors' blocks, shared by the IO
\* producers and rounded down to a power of two.
IoCapacity(io) ==
    LET internal == Cardinality(Producers \ io) * InternalSlots
        share == (TotalSlots - internal) \div Cardinality(io)
    IN IF internal >= TotalSlots \/ share = 0 THEN 0 ELSE BitFloor(share)

\* remask_quiesced refuses an empty role and a bank too small for the largest
\* bundle, which is an executor's whole block.
Installable(io) ==
    /\ io \in SUBSET Producers
    /\ io # {} /\ io # Producers
    /\ IoCapacity(io) >= InternalSlots

CapOf(io) ==
    [p \in Producers |-> IF p \in io THEN IoCapacity(io) ELSE InternalSlots]

FusedSlots == TotalSlots \div NumProducers

\* Mutation: every block starts where the previous executor block would end.
BaseOf_overlapping(c) == [p \in Producers |-> p * InternalSlots]

\* Blocks are handed out in tid order.
BaseOf(c) ==
    LET start[p \in Producers] == IF p = 0 THEN 0 ELSE start[p - 1] + c[p - 1]
    IN start

None == "none"

Fresh == [p \in Producers |-> 0]

\* The lanes as init_local (by roles) or init_local_fused (equal blocks) leave
\* them.
Init ==
    /\ head = Fresh /\ retired = Fresh /\ tailCached = Fresh
    /\ tail = Fresh /\ headCached = Fresh
    /\ \/ \E io \in SUBSET Producers :
             Installable(io) /\ cap = CapOf(io) /\ fused = FALSE
       \/ /\ cap = [p \in Producers |-> FusedSlots]
          /\ fused = TRUE
    /\ base = BaseOf(cap)
    /\ avail = cap
    /\ slots = [i \in 0..(TotalSlots - 1) |-> None]
    /\ writing = Fresh
    /\ credit = [p \in Producers |-> FALSE]
    /\ reading = <<>>

-----------------------------------------------------------------------------
(* The producer of lane p. *)

\* head_cached, refreshed from head only if the stale copy leaves no room.
HeadSeen(p, n) ==
    IF Dist(headCached[p], tail[p]) + n > avail[p] THEN head[p] ELSE headCached[p]

HasRoom(p, n) == Dist(HeadSeen(p, n), tail[p]) + n <= avail[p]

\* The slots behind the tail receive the items, in order.
Written(p, items) ==
    [i \in DOMAIN slots |->
        IF \E k \in 1..Len(items) : SlotOf(p, Plus(tail[p], k - 1)) = i
        THEN items[CHOOSE k \in 1..Len(items) : SlotOf(p, Plus(tail[p], k - 1)) = i]
        ELSE slots[i]]

\* push and push_batch, up to the tail store; push refuses when it is full.
PushWrite(p, items) ==
    /\ writing[p] = 0
    /\ headCached' = [headCached EXCEPT ![p] = HeadSeen(p, Len(items))]
    /\ IF HasRoom(p, Len(items))
       THEN /\ slots' = Written(p, items)
            /\ writing' = [writing EXCEPT ![p] = Len(items)]
       ELSE UNCHANGED <<slots, writing>>
    /\ UNCHANGED <<tail, avail, credit, consumerVars, geometry>>

\* Mutation: reserve compares with the stale head it already has, and only the
\* backlog, not the credits reserved before.
reserve_uncounted(p, n) ==
    /\ writing[p] = 0
    /\ avail' = IF Dist(headCached[p], tail[p]) + n <= cap[p] /\ n <= avail[p]
                THEN [avail EXCEPT ![p] = @ - n] ELSE avail
    /\ UNCHANGED <<tail, headCached, writing, credit, slots, consumerVars, geometry>>

\* reserve: take credits away from the ordinary pushes.
reserve(p, n) ==
    /\ writing[p] = 0
    /\ headCached' = [headCached EXCEPT ![p] = head[p]]
    /\ avail' = IF Dist(head[p], tail[p]) + n <= avail[p]
                THEN [avail EXCEPT ![p] = @ - n] ELSE avail
    /\ UNCHANGED <<tail, writing, credit, slots, consumerVars, geometry>>

\* Giving back more than was reserved aborts the server, so no caller does.
cancel_reservation(p, n) ==
    /\ writing[p] = 0
    /\ n <= cap[p] - avail[p]
    /\ avail' = [avail EXCEPT ![p] = @ + n]
    /\ UNCHANGED <<tail, headCached, writing, credit, slots, consumerVars, geometry>>

\* push_reserved, up to the tail store: it looks at no frontier.
PushReservedWrite(p, v) ==
    /\ writing[p] = 0
    /\ avail[p] # cap[p]
    /\ slots' = Written(p, <<v>>)
    /\ writing' = [writing EXCEPT ![p] = 1]
    /\ credit' = [credit EXCEPT ![p] = TRUE]
    /\ UNCHANGED <<tail, headCached, avail, consumerVars, geometry>>

\* The tail store that publishes the written slots; a reserved push gives its
\* credit back.
PushPublish(p) ==
    /\ writing[p] > 0
    /\ tail' = [tail EXCEPT ![p] = Plus(@, writing[p])]
    /\ writing' = [writing EXCEPT ![p] = 0]
    /\ avail' = IF credit[p] THEN [avail EXCEPT ![p] = @ + 1] ELSE avail
    /\ credit' = [credit EXCEPT ![p] = FALSE]
    /\ UNCHANGED <<headCached, slots, consumerVars, geometry>>

-----------------------------------------------------------------------------
(* The consumer. *)

\* pop_unretired, up to the head store: tail_cached is refreshed when it says
\* the lane is empty.  What a popped slot still holds is of no interest: None.
PopRead(p) ==
    /\ reading = <<>>
    /\ Dist(retired[p], head[p]) < MaxHeld
    /\ tailCached' = [tailCached EXCEPT ![p] = IF head[p] = @ THEN tail[p] ELSE @]
    /\ IF head[p] = tailCached'[p]
       THEN UNCHANGED <<reading, slots>>
       ELSE /\ reading' = <<p, slots[SlotOf(p, head[p])]>>
            /\ slots' = [slots EXCEPT ![SlotOf(p, head[p])] = None]
    /\ UNCHANGED <<head, retired, producerVars, geometry>>

\* The head store, which frees the slot; the caller has the task.
PopAdvance ==
    /\ reading # <<>>
    /\ head' = [head EXCEPT ![reading[1]] = Plus(@, 1)]
    /\ reading' = <<>>
    /\ UNCHANGED <<retired, tailCached, slots, producerVars, geometry>>

\* retire_n, of anything popped.
retire_n(p, n) ==
    /\ reading = <<>>
    /\ n <= Dist(retired[p], head[p])
    /\ retired' = [retired EXCEPT ![p] = Plus(@, n)]
    /\ UNCHANGED <<head, tailCached, reading, slots, producerVars, geometry>>

\* remask_quiesced.  Its callers hold the producers outside their passes, so
\* none is between a slot write and its tail store or holds a reservation.
remask_quiesced(io) ==
    /\ ~fused
    /\ Installable(io)
    /\ all_quiesced
    /\ reading = <<>>
    /\ \A p \in Producers : writing[p] = 0 /\ avail[p] = cap[p]
    /\ head' = Fresh /\ retired' = Fresh /\ tailCached' = Fresh
    /\ tail' = Fresh /\ headCached' = Fresh
    /\ cap' = CapOf(io)
    /\ base' = BaseOf(cap')
    /\ avail' = cap'
    /\ UNCHANGED <<slots, writing, credit, reading, fused>>

-----------------------------------------------------------------------------

Next ==
    \/ \E p \in Producers :
          \/ \E v \in Values : PushWrite(p, <<v>>) \/ PushReservedWrite(p, v)
          \/ \E v, w \in Values : PushWrite(p, <<v, w>>)
          \/ \E n \in 1..TotalSlots : reserve(p, n) \/ cancel_reservation(p, n)
          \/ PushPublish(p)
          \/ PopRead(p)
          \/ \E n \in 1..MaxHeld : retire_n(p, n)
    \/ PopAdvance
    \/ \E io \in SUBSET Producers : remask_quiesced(io)

Spec == Init /\ [][Next]_vars

-----------------------------------------------------------------------------

Index == 0..(IndexMod - 1)

\* Every frontier is an index and every credit is within its block.
TypeOK ==
    /\ head \in [Producers -> Index]
    /\ retired \in [Producers -> Index]
    /\ tailCached \in [Producers -> Index]
    /\ tail \in [Producers -> Index]
    /\ headCached \in [Producers -> Index]
    /\ cap \in [Producers -> 1..TotalSlots]
    /\ avail \in [Producers -> 0..TotalSlots]
    /\ writing \in [Producers -> 0..TotalSlots]
    /\ credit \in [Producers -> BOOLEAN]
    /\ \A p \in Producers : avail[p] <= cap[p]

\* What a lane holds for the consumer: the slots from head, or from behind the
\* task being read, to tail.
QueueOf(p) ==
    LET first == IF reading # <<>> /\ reading[1] = p THEN Plus(head[p], 1) ELSE head[p]
    IN [k \in 1..Dist(first, tail[p]) |-> slots[SlotOf(p, Plus(first, k - 1))]]

Abstract == INSTANCE LaneFifo WITH queue <- [p \in Producers |-> QueueOf(p)],
                                   taken <- reading

\* The array implements one FIFO per producer: whatever the stale copies of the
\* frontiers, reservations, wrap-around and repartitions do, the consumer takes
\* what was pushed, in order, once.
ImplementsFifo == Abstract!Spec

\* A lane's tasks, the slots being written and the reserved credits never exceed
\* its block, so a push_reserved cannot overwrite a slot the consumer has not
\* read although it looks at no frontier.
CreditsCoverReservations ==
    \A p \in Producers :
        Dist(head[p], tail[p]) + (IF credit[p] THEN 0 ELSE writing[p])
            + (cap[p] - avail[p]) <= cap[p]
=============================================================================
