----------------------------- MODULE FlatStore -----------------------------
(***************************************************************************)
(* The hash table of one shard (store/flatstore.h): open addressing with   *)
(* linear probing, tombstones, an incremental resize that keeps an old     *)
(* table beside the current one, key deadlines, eviction, the SCAN cursor, *)
(* and the snapshot capture that walks the table frozen at the cut.        *)
(*                                                                         *)
(* A store is a record:                                                    *)
(*   tab      <<current, old>> (tab_[0], tab_[1]); the old one is <<>>     *)
(*            when no resize or capture is going on                        *)
(*   live, tombs   the counters of the two tables                          *)
(*   pos      rehash_pos_                                                  *)
(*   expires  the keys registered in the ExpireIndex                       *)
(*   max      the maxmemory limit, in keys of equal size (0: disabled)     *)
(*   prep     capacity of the table allocated for the cut (0: none)        *)
(*   act      snapshot_active_; spos, cut: its cursor and its time         *)
(*   rec      the record being serialized (on: whether there is one)       *)
(*   build, ready   records of the chunk being filled, the sealed chunk    *)
(*   fin      snapshot_finished_                                           *)
(* A slot holds a key, its value, its deadline (-1: none), whether the     *)
(* object has room for a deadline, and kTombBit.                           *)
(***************************************************************************)
EXTENDS Integers, Sequences, FiniteSets, FiniteSetsExt

CONSTANTS Key, NoKey, Hash, MinCap, FlushCap, RehashSlots, ChunkRecs

ASSUME CapsArePowersOfTwo == {MinCap, FlushCap} \subseteq {4, 8, 16, 32}
ASSUME BudgetsArePositive == {RehashSlots, ChunkRecs} \subseteq Nat \ {0}

Word(k, v, d) == [k |-> k, v |-> v, d |-> d, room |-> d >= 0, mark |-> FALSE]
Empty == Word(NoKey, 0, -1)
Dead == [Empty EXCEPT !.mark = TRUE]
NoRecord == [on |-> FALSE, pre |-> FALSE, slot |-> 0, d |-> -1]
NoChunk == [recs |-> <<>>, last |-> FALSE, on |-> FALSE]

Blank(cap) == [i \in 0 .. cap - 1 |-> Empty]
NewStore(max) ==
    [tab |-> <<Blank(MinCap), <<>>>>, live |-> <<0, 0>>, tombs |-> <<0, 0>>, pos |-> 0,
     expires |-> {}, max |-> max, prep |-> 0, act |-> FALSE, spos |-> 0, cut |-> -1,
     rec |-> NoRecord, build |-> <<>>, ready |-> NoChunk, fin |-> FALSE]

Cap(tab) == Cardinality(DOMAIN tab)
rehashing(st) == st.tab[2] # <<>>
Used(st, t) == st.live[t] + st.tombs[t]
elapsed(w, now) == w.d >= 0 /\ w.d <= now

---------------------------------------------------------------------------
(* Probing *)

Offset(tab, k, i) == (i - Hash[k]) % Cap(tab)
IsEmpty(w) == w.k = NoKey /\ ~w.mark
Reaches(tab, k, i) ==
    \A j \in DOMAIN tab : IsEmpty(tab[j]) => Offset(tab, k, j) >= Offset(tab, k, i)
First(tab, k, slots) ==
    CHOOSE i \in slots : \A j \in slots : Offset(tab, k, i) <= Offset(tab, k, j)

\* The slot a probe for k ends on, or -1: EMPTY is the only stop.
find_slot_in(tab, k) ==
    LET hits == {i \in DOMAIN tab : tab[i].k = k /\ Reaches(tab, k, i)}
    IN IF hits = {} THEN -1 ELSE First(tab, k, hits)
Has(st, t, k) == find_slot_in(st.tab[t], k) # -1
At(st, t, k) == st.tab[t][find_slot_in(st.tab[t], k)]

\* Where insert_into puts k: over itself, else on the first tombstone of its run, else on
\* the EMPTY that ends the run; -1 when there is no EMPTY.
Place(tab, k) ==
    LET holes == {i \in DOMAIN tab : tab[i].k = NoKey}
    IN IF find_slot_in(tab, k) # -1 THEN find_slot_in(tab, k)
       ELSE IF \A i \in holes : tab[i].mark THEN -1
       ELSE First(tab, k, holes)

Tracked(st, w) == IF w.d >= 0 THEN st.expires \cup {w.k} ELSE st.expires \ {w.k}

insert_into(st, t, w, fresh) ==
    LET i == Place(st.tab[t], w.k)
        was == st.tab[t][i]
    IN [st EXCEPT !.tab[t][i] = w,
                  !.live[t] = @ + (IF was.k = w.k THEN 0 ELSE 1),
                  !.tombs[t] = @ - (IF was = Dead THEN 1 ELSE 0),
                  !.expires = IF fresh THEN Tracked(st, w) ELSE @]

erase_in(st, t, k) ==
    IF ~Has(st, t, k) THEN st
    ELSE [st EXCEPT !.tab[t][find_slot_in(st.tab[t], k)] = Dead,
                    !.live[t] = @ - 1, !.tombs[t] = @ + 1, !.expires = @ \ {k}]

---------------------------------------------------------------------------
(* Incremental resize *)

start_rehash(st, cap) ==
    [st EXCEPT !.tab = <<Blank(Max({cap, MinCap})), st.tab[1]>>,
               !.live = <<0, st.live[1]>>, !.tombs = <<0, st.tombs[1]>>, !.pos = 0]

kLoadPct == 70
maybe_start_grow(st) ==
    LET cap == Cap(st.tab[1])
    IN IF (Used(st, 1) + 1) * 100 < cap * kLoadPct \/ st.prep # 0 THEN st
       ELSE start_rehash(st, IF st.live[1] * 200 >= cap * kLoadPct THEN 2 * cap ELSE cap)

maybe_start_shrink(st) ==
    LET cap == Cap(st.tab[1])
    IN IF rehashing(st) \/ cap <= MinCap \/ st.live[1] * 400 > cap * kLoadPct \/ st.prep # 0
       THEN st ELSE start_rehash(st, cap \div 2)

StuckOrPast(st) ==
    \/ st.pos >= Cap(st.tab[2])
    \/ LET k == st.tab[2][st.pos].k IN k # NoKey /\ Place(st.tab[1], k) = -1
\* Mutation: the vacated slot becomes EMPTY.
vacate_to_empty(st) ==
    LET w == [st.tab[2][st.pos] EXCEPT !.mark = FALSE]
    IN IF StuckOrPast(st) THEN st
       ELSE IF w.k = NoKey THEN [st EXCEPT !.pos = @ + 1]
       ELSE [insert_into(st, 1, w, FALSE) EXCEPT
                !.tab[2][st.pos] = Empty, !.live[2] = @ - 1, !.pos = @ + 1]
\* One slot of the old table: its word moves (losing kTombBit) and leaves a tombstone; a
\* move that finds no place leaves everything as it is.
move_slot(st) ==
    LET w == [st.tab[2][st.pos] EXCEPT !.mark = FALSE]
    IN IF StuckOrPast(st) THEN st
       ELSE IF w.k = NoKey THEN [st EXCEPT !.pos = @ + 1]
       ELSE [insert_into(st, 1, w, FALSE) EXCEPT
                !.tab[2][st.pos] = Dead, !.live[2] = @ - 1, !.tombs[2] = @ + 1,
                !.pos = @ + 1]

\* The old table goes once its last slot has moved.
OldFreed(s) ==
    IF s.pos < Cap(s.tab[2]) THEN s
    ELSE [s EXCEPT !.tab[2] = <<>>, !.live[2] = 0, !.tombs[2] = 0, !.pos = 0]
rehash_step(st) == OldFreed(FoldSet(LAMBDA i, x : move_slot(x), st, 1 .. RehashSlots))
Step(st) == IF rehashing(st) /\ ~st.act THEN rehash_step(st) ELSE st

---------------------------------------------------------------------------
(* Lookup, deletion, eviction, insertion *)

\* live_or_expire: an elapsed key is answered as absent and taken out, except that a
\* capture keeps the frozen table as it was at the cut.
Reaped(st, t, k, now) ==
    IF Has(st, t, k) /\ elapsed(At(st, t, k), now) /\ ~(st.act /\ t = 2)
    THEN erase_in(st, t, k) ELSE st
Visible(st, t, k, now) == Has(st, t, k) /\ ~elapsed(At(st, t, k), now)

find(st, k, now) ==
    IF Visible(st, 1, k, now) THEN st ELSE Reaped(Reaped(st, 1, k, now), 2, k, now)
Found(st, k, now) == {t \in {1, 2} : Visible(st, t, k, now)}

Table(s, k) == IF Has(s, 1, k) THEN 1 ELSE 2
erase_found(s, k, t) == IF Has(s, t, k) THEN maybe_start_shrink(erase_in(s, t, k)) ELSE s
erase_stepped(s, k) == erase_found(s, k, Table(s, k))
erase(st, k) == erase_stepped(Step(st), k)

Resident(st) == {k \in Key : Has(st, 1, k) \/ Has(st, 2, k)}

\* make_room_for: what the admission of k can lead to. A capture suspends it; sampling
\* may miss every victim. kEvictionsPerOp victims are enough for one key of equal size.
make_room_for(st, k) ==
    LET over == st.max # 0 /\ ~st.act /\ Cardinality(Resident(st) \cup {k}) > st.max
    IN IF ~over THEN {[ok |-> TRUE, st |-> st, gone |-> NoKey]}
       ELSE {[ok |-> FALSE, st |-> st, gone |-> NoKey]} \cup
            {[ok |-> TRUE, st |-> erase(st, g), gone |-> g] : g \in Resident(st) \ {k}}

\* What insert can return: a store, whether the key was stored, and the evicted key.
Refused(st) == [ok |-> FALSE, st |-> st, gone |-> NoKey]
Full(s, k, capturing) ==
    LET cap == Cap(s.tab[1])
    IN \/ s.prep # 0 /\ ~Has(s, 1, k) /\ Used(s, 1) + 1 >= cap
       \/ capturing /\ k \notin Resident(s) /\ Used(s, 1) + s.live[2] + 1 >= cap
\* The old copy is erased before the new one looks for its place.
Stored(r, e, w) ==
    IF Place(e.tab[1], w.k) = -1
    THEN [ok |-> FALSE, st |-> e, gone |-> r.gone]
    ELSE [ok |-> TRUE, st |-> insert_into(e, 1, w, TRUE), gone |-> r.gone]
insert_stepped(s, w, capturing) ==
    IF Full(s, w.k, capturing) THEN {Refused(s)}
    ELSE {IF r.ok THEN Stored(r, erase_in(r.st, 2, w.k), w) ELSE Refused(r.st)
            : r \in make_room_for(s, w.k)}
insert(st, w) ==
    insert_stepped(IF rehashing(st) THEN Step(st) ELSE maybe_start_grow(st), w,
                   rehashing(st) /\ st.act)

\* try_overwrite: a raw value of the same size class, with no room for a deadline, is
\* written in place, in whichever table holds it.
Class(v) == v % 2
Overwritten(x, k, v, t) == [x EXCEPT !.tab[t][find_slot_in(x.tab[t], k)].v = v]
store_found(s, k, v, ts) ==
    IF ts # {} /\ ~At(s, Min(ts), k).room /\ Class(At(s, Min(ts), k).v) = Class(v)
    THEN {IF r.ok THEN [ok |-> TRUE, gone |-> r.gone,
                        st |-> Overwritten(r.st, k, v, Table(r.st, k))]
          ELSE Refused(r.st) : r \in make_room_for(s, k)}
    ELSE insert(s, Word(k, v, -1))
store_string(st, k, v, now) == store_found(find(st, k, now), k, v, Found(st, k, now))

\* set_expire: in place when the object has room for a deadline, else by replacing it.
redate(s, t, w) ==
    IF w.room THEN {[ok |-> TRUE, gone |-> NoKey,
                     st |-> [s EXCEPT !.tab[t][find_slot_in(s.tab[t], w.k)] = w,
                                      !.expires = Tracked(s, w)]]}
    ELSE insert(s, [w EXCEPT !.room = TRUE, !.mark = FALSE])
expire_found(s, k, d, ts) ==
    IF ts = {} THEN {Refused(s)} ELSE redate(s, Min(ts), [At(s, Min(ts), k) EXCEPT !.d = d])
set_expire(st, k, d, now) == expire_found(find(st, k, now), k, d, Found(st, k, now))

clear(st) ==
    [st EXCEPT !.tab = <<Blank(FlushCap), <<>>>>, !.live = <<0, 0>>, !.tombs = <<0, 0>>,
               !.pos = 0, !.expires = {}]
clear_during_snapshot(st) ==
    LET Wiped(tab) == [i \in DOMAIN tab |-> IF tab[i].k = NoKey THEN tab[i] ELSE Dead]
    IN [st EXCEPT !.tab = <<Wiped(@[1]), Wiped(@[2])>>, !.expires = {},
                  !.tombs = <<@[1] + st.live[1], @[2] + st.live[2]>>, !.live = <<0, 0>>]

\* One visit of the active expiry: k was sampled from the index.
expire_visit(s, k, now, t) ==
    IF Has(s, t, k) /\ elapsed(At(s, t, k), now) THEN erase_in(s, t, k) ELSE s
expire_stepped(s, k, now) == expire_visit(s, k, now, Table(s, k))
active_expire(st, k, now) == expire_stepped(Step(st), k, now)

---------------------------------------------------------------------------
(* SCAN: one call with COUNT 1 visits one home of the smaller table and the homes of the *)
(* larger one that share its low bits; capacities differ by at most a factor of two.     *)

\* Mutation: a counting cursor.
next_in_order(c, cap) == (c + 1) % cap
\* The cursor counts in bit-reversed order: the highest clear bit is set, those above it
\* are cleared.
scan_cursor_next(c, cap) ==
    LET clear_bits == {b \in {1, 2, 4, 8, 16} : b < cap /\ (c \div b) % 2 = 0}
    IN IF clear_bits = {} THEN 0 ELSE (c % Max(clear_bits)) + Max(clear_bits)

\* The keys whose home is one of those given, at their place in the run from it.
scan_home(tab, homes) ==
    {k \in Key : Hash[k] % Cap(tab) \in homes /\ find_slot_in(tab, k) # -1}

scan(st, c, now) ==
    LET caps == {Cap(st.tab[t]) : t \in {u \in {1, 2} : u = 1 \/ rehashing(st)}}
        small == Min(caps)
        Homes(t) == LET cap == Cap(st.tab[t])
                    IN {h \in 0 .. cap - 1 : h % small = c % small /\ h >= c % cap}
        met(t) == IF t = 1 \/ rehashing(st) THEN scan_home(st.tab[t], Homes(t)) ELSE {}
        dead(t) == {k \in met(t) : elapsed(At(st, t, k), now)}
        Drop(s, t, ks) == FoldSet(LAMBDA k, x : erase_in(x, t, k), s, ks)
    IN [cursor |-> scan_cursor_next(c, small),
        seen |-> (met(1) \ dead(1)) \cup (met(2) \ dead(2)),
        st |-> Drop(Drop(st, 1, dead(1)), 2, IF st.act THEN {} ELSE dead(2))]

---------------------------------------------------------------------------
(* Snapshot capture *)

snapshot_prepare(st) ==
    IF rehashing(st) THEN rehash_step(st)
    ELSE [st EXCEPT !.prep = IF @ = 0 THEN 2 * Cap(st.tab[1]) ELSE @]
Prepared(st) == ~rehashing(st) /\ st.prep # 0

snapshot_mark(st, cut) ==
    [start_rehash(st, st.prep) EXCEPT
        !.prep = 0, !.act = TRUE, !.spos = 0, !.cut = cut, !.rec = NoRecord,
        !.build = <<>>, !.ready = NoChunk, !.fin = FALSE]

Started(st, i, pre) ==
    [st EXCEPT !.rec = [on |-> TRUE, pre |-> pre, slot |-> i, d |-> st.tab[2][i].d]]

Due(st, k) ==
    LET i == find_slot_in(st.tab[2], k)
    IN st.act /\ ~Has(st, 1, k) /\ i >= st.spos /\ ~st.tab[2][i].mark

\* Mutation: the slot under the cursor counts as dumped.
gate_off_by_one(st, k) ==
    LET i == find_slot_in(st.tab[2], k)
    IN IF ~Due(st, k) \/ i = st.spos THEN [wait |-> FALSE, st |-> st]
       ELSE [wait |-> TRUE, st |-> IF st.rec.on THEN st ELSE Started(st, i, TRUE)]
\* The gate of a write to k: the value at the cut must be in the stream first. Pending is
\* [wait |-> TRUE]: the record of k, or of another key, is still being serialized.
snapshot_prepare_write(st, k) ==
    LET i == find_slot_in(st.tab[2], k)
    IN IF ~Due(st, k) THEN [wait |-> FALSE, st |-> st]
       ELSE IF elapsed(st.tab[2][i], st.cut)
       THEN [wait |-> FALSE, st |-> [st EXCEPT !.tab[2][i].mark = TRUE]]
       ELSE [wait |-> TRUE, st |-> IF st.rec.on THEN st ELSE Started(st, i, TRUE)]

\* The record is finished with the object as it is now; a full chunk is sealed in the
\* middle of it, and the rest goes into the next one.
snapshot_progress_record(st) ==
    LET w == st.tab[2][st.rec.slot]
        r == [k |-> w.k, v |-> w.v, d |-> st.rec.d]
    IN IF Len(st.build) = ChunkRecs
       THEN [st EXCEPT !.ready = [recs |-> st.build, last |-> FALSE, on |-> TRUE],
                       !.build = <<>>]
       ELSE [st EXCEPT !.build = Append(@, r), !.rec = NoRecord,
                       !.tab[2][st.rec.slot].mark = @ \/ st.rec.pre,
                       !.spos = IF st.rec.pre THEN @ ELSE @ + 1]

\* One step of the walk, from the next slot that holds a key.
snapshot_progress(st) ==
    LET next == {i \in DOMAIN st.tab[2] : i >= st.spos /\ st.tab[2][i].k # NoKey}
        w == st.tab[2][Min(next)]
    IN IF ~st.act \/ st.ready.on \/ st.fin THEN st
       ELSE IF st.rec.on THEN snapshot_progress_record(st)
       ELSE IF next = {}
       THEN [st EXCEPT !.ready = [recs |-> st.build, last |-> TRUE, on |-> TRUE],
                       !.build = <<>>, !.fin = TRUE]
       ELSE IF w.mark \/ elapsed(w, st.cut)
       THEN [st EXCEPT !.spos = Min(next) + 1, !.tab[2][Min(next)].mark = FALSE]
       ELSE Started([st EXCEPT !.spos = Min(next)], Min(next), FALSE)

Released(st) == [st EXCEPT !.act = FALSE, !.prep = 0, !.rec = NoRecord, !.build = <<>>,
                           !.ready = NoChunk, !.fin = FALSE, !.spos = 0, !.cut = -1]
snapshot_handoff_complete(st) == Released(st)
snapshot_cancel(st) == Released(st)
=============================================================================
