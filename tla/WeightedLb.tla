----------------------------- MODULE WeightedLb -----------------------------
(***************************************************************************)
(* The placement policy shared by FLIP and the continuous load balancer    *)
(* (core/weighted_lb.h). An item is a connection or a shard: a record with *)
(* its owner, its weight (demand), its bytes, and whether it is pinned.    *)
(* Items and targets are identified by numbers, which break the last tie.  *)
(***************************************************************************)
EXTENDS Integers, Sequences, FiniteSets, SequencesExt, FiniteSetsExt

Unplaced == -1

\* Comparison of keys by their first differing field.
LexLess(a, b) ==
    \E i \in DOMAIN a : a[i] < b[i] /\ \A j \in 1..(i - 1) : a[j] = b[j]

\* The member of S with the least key.
Least(S, key(_)) == CHOOSE x \in S : \A y \in S \ {x} : LexLess(key(x), key(y))

\* What a placement puts on a target.
On(place, t) == {i \in DOMAIN place : place[i] = t}
Load(items, place, t) == MapThenSumSet(LAMBDA i : items[i].weight, On(place, t))
Bytes(items, place, t) == MapThenSumSet(LAMBDA i : items[i].bytes, On(place, t))

Spread(S) == IF S = {} THEN 0 ELSE Max(S) - Min(S)
LoadSpread(items, place, targets) == Spread({Load(items, place, t) : t \in targets})
BytesSpread(items, place, targets) == Spread({Bytes(items, place, t) : t \in targets})
CountSpread(place, targets) == Spread({Cardinality(On(place, t)) : t \in targets})

Low(items, targets) == Cardinality(DOMAIN items) \div Cardinality(targets)
High(items, targets) ==
    Low(items, targets) + (IF Cardinality(DOMAIN items) % Cardinality(targets) # 0 THEN 1 ELSE 0)

CountsBalanced(items, place, targets) ==
    \A t \in targets :
        Cardinality(On(place, t)) \in Low(items, targets)..High(items, targets)

Owners(items) == [i \in DOMAIN items |-> items[i].owner]

\* The places a count bound has left for one more item; the last ones go to
\* the targets that are short of the lower bound.
Eligible(items, place, targets, remaining) ==
    LET count(t) == Cardinality(On(place, t))
        low == Low(items, targets)
        deficit == MapThenSumSet(LAMBDA t : IF count(t) < low THEN low - count(t) ELSE 0, targets)
    IN  {t \in targets : /\ count(t) < High(items, targets)
                         /\ remaining = deficit => count(t) < low}

\* Least loaded first; then fewest bytes, fewest items, the owner, the lowest id.
PlaceOne(items, targets, place, i, remaining) ==
    LET open == Eligible(items, place, targets, remaining)
        key(t) == <<Load(items, place, t), Bytes(items, place, t), Cardinality(On(place, t)),
                    IF t = items[i].owner THEN 0 ELSE 1, t>>
    IN  [place EXCEPT ![i] = IF open = {} THEN Unplaced ELSE Least(open, key)]

Movable(items) == {i \in DOMAIN items : ~items[i].pinned}

LargestFirst(items) ==
    SetToSortSeq(Movable(items), LAMBDA a, b : LexLess(<<-items[a].weight, -items[a].bytes, a>>,
                                                      <<-items[b].weight, -items[b].bytes, b>>))

\* Pinned items stay with their owners before anything else is placed.
PinnedPlaces(items, targets) ==
    [i \in DOMAIN items |-> IF items[i].pinned /\ items[i].owner \in targets
                            THEN items[i].owner ELSE Unplaced]

\* The set of the one placement the greedy pass ends with.
GreedyPlaces(items, targets) ==
    LET order == LargestFirst(items)
    IN  FoldLeftDomain(LAMBDA places, k :
                           {PlaceOne(items, targets, p, order[k], Len(order) - k + 1) : p \in places},
                       {PinnedPlaces(items, targets)}, order)

\* A placement that leaves every item where it is wins a tie.
KeepsIncumbents(items, targets, place) ==
    /\ \A i \in DOMAIN items : items[i].owner \in targets
    /\ CountsBalanced(items, Owners(items), targets)
    /\ LoadSpread(items, Owners(items), targets) <= LoadSpread(items, place, targets)
    /\ BytesSpread(items, Owners(items), targets) <= BytesSpread(items, place, targets)

\* Everything is placed, within the count bounds.
Feasible(items, targets, place) ==
    /\ \A i \in DOMAIN items : place[i] # Unplaced
    /\ CountsBalanced(items, place, targets)

\* weighted_lb_partition: the new owners, or {} when the bounds cannot be met.
weighted_lb_partition(items, targets) ==
    {IF KeepsIncumbents(items, targets, place) THEN Owners(items) ELSE place :
        place \in {p \in GreedyPlaces(items, targets) : Feasible(items, targets, p)}}

Moved(items, i, t) == [Owners(items) EXCEPT ![i] = t]

\* A demand move must narrow the demand spread; a move for bytes must narrow
\* theirs and not widen the demand spread.
Improves(items, targets, demandHot, i, t) ==
    LET old == Owners(items)
        new == Moved(items, i, t)
    IN  IF demandHot THEN LoadSpread(items, new, targets) < LoadSpread(items, old, targets)
        ELSE /\ LoadSpread(items, new, targets) <= LoadSpread(items, old, targets)
             /\ BytesSpread(items, new, targets) < BytesSpread(items, old, targets)

\* weighted_lb_best_incremental_move: the set of the best item and its target,
\* empty when no move improves.
weighted_lb_best_incremental_move(items, targets, demandHot) ==
    LET moves == {<<i, t>> \in Movable(items) \X targets :
                    t # items[i].owner /\ Improves(items, targets, demandHot, i, t)}
        key(mv) == <<LoadSpread(items, Moved(items, mv[1], mv[2]), targets),
                     BytesSpread(items, Moved(items, mv[1], mv[2]), targets),
                     CountSpread(Moved(items, mv[1], mv[2]), targets), mv[1], mv[2]>>
    IN  IF Cardinality(targets) < 2 \/ moves = {} THEN {} ELSE {Least(moves, key)}
=============================================================================
