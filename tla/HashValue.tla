----------------------------- MODULE HashValue -----------------------------
(***************************************************************************)
(* Hashes (cmd/t_hash.cc) and the deadlines of their fields                *)
(* (cmd/t_hash_ttl.cc).  A packed hash has one entry per field and value;  *)
(* an expanded one is a HashFieldMap, here                                 *)
(*   new, old   the two tables, old <<>> unless a rehash is under way      *)
(*   at         the node_index of the bucket of every field in them        *)
(*   pos        rehash_pos_                                                *)
(*   nodes      nodes_, field and value                                    *)
(*   tombs      tombs_[0]                                                  *)
(* aux: payload, compact_payload_bytes; ttl, the deadlines of fields, as   *)
(* [on, at, min, dirty]: a map, with a lower bound of what it holds.       *)
(***************************************************************************)
EXTENDS CollectionRef

CONSTANTS HashEntries, HashMaxValue,          \* TypeLimits::hash
          FieldMin,                           \* kMinCap
          RehashBuckets,                      \* kRehashBucketsPerWrite
          MaxInt,                             \* INT64_MAX
          Never,                              \* HashFieldTtl::kNever
          Pair(_, _), FieldOf(_), ValueOf(_), \* the entry of a field and its value, and back
          IsNumber(_)                         \* values that parse_i64 takes

NoTtl == [on |-> FALSE, at |-> <<>>, min |-> Never, dirty |-> FALSE]
NewHash == Obj("hash", NoCompact, [payload |-> 0, ttl |-> NoTtl])

---------------------------------------------------------------------------
(* HashFieldMap *)

Node(f, v) == [f |-> f, v |-> v]
NoMap == [new |-> <<>>, old |-> <<>>, at |-> <<>>, pos |-> 0, nodes |-> <<>>, tombs |-> 0]
rehashing(x) == x.old # <<>>
LiveIn(t) == Cardinality(Occupied(t))

\* A bucket answers for a field only if the node it names has that field.
find_in(x, t, f) == {i \in find(t, f) : x.nodes[x.at[f]].f = f}
Has(x, f) == find_in(x, x.new, f) # {} \/ (rehashing(x) /\ find_in(x, x.old, f) # {})
NodeOf(x, f) == x.nodes[x.at[f]]

BucketAt(x, f, i, index) ==
    [x EXCEPT !.new[i] = f, !.at = (f :> index) @@ @,
              !.tombs = IF x.new[i] = Tomb THEN @ - 1 ELSE @]
insert_bucket(x, f, index) == BucketAt(x, f, find_insert_slot(x.new, f), index)

initialize(n) == [NoMap EXCEPT !.new = Blank(CHOOSE k \in {FieldMin * m : m \in {1, 2, 4, 8}} :
                                               /\ n * 100 < k * 70
                                               /\ k > FieldMin => n * 100 >= (k \div 2) * 70)]
build_insert(x, f, v) ==
    insert_bucket([x EXCEPT !.nodes = Append(@, Node(f, v))], f, Len(x.nodes) + 1)

start_resize(x, cap) == [x EXCEPT !.old = x.new, !.new = Blank(cap), !.pos = 0, !.tombs = 0]
prepare_insert(x) ==
    IF rehashing(x) THEN x
    ELSE IF (LiveIn(x.new) + 1) * 100 >= SlotCount(x.new) * 70 THEN start_resize(x, SlotCount(x.new) * 2)
    ELSE IF /\ (LiveIn(x.new) + x.tombs + 1) * 100 >= SlotCount(x.new) * 85
            /\ x.tombs > LiveIn(x.new) \div 2
         THEN start_resize(x, SlotCount(x.new))
    ELSE x
maybe_start_shrink(x) ==
    IF ~rehashing(x) /\ SlotCount(x.new) > FieldMin /\ Len(x.nodes) * 100 <= SlotCount(x.new) * 15
    THEN start_resize(x, SlotCount(x.new) \div 2) ELSE x

\* One bucket of the old table moves; the emptied table is freed.
MovedBucket(x, f) ==
    [IF f \in {NoMember, Tomb} THEN x ELSE [insert_bucket(x, f, x.at[f]) EXCEPT !.old[x.pos] = Tomb]
       EXCEPT !.pos = x.pos + 1]
rehash_step(x) ==
    FoldLeft(LAMBDA y, i : IF ~rehashing(y) THEN y
                           ELSE IF y.pos = SlotCount(y.old) THEN [y EXCEPT !.old = <<>>, !.pos = 0]
                           ELSE IF i <= RehashBuckets THEN MovedBucket(y, y.old[y.pos])
                           ELSE y,
             x, [i \in 1 .. RehashBuckets + 1 |-> i])

SetIn(x, f, v) ==
    IF Has(x, f) THEN [x EXCEPT !.nodes[x.at[f]].v = v]
    ELSE build_insert(prepare_insert(x), f, v)
map_set(x, f, v) == SetIn(rehash_step(x), f, v)

\* The last node takes the place of the erased one, and its bucket is told.
Unlinked(x, f, last) ==
    [x EXCEPT !.new = [i \in DOMAIN @ |-> IF i \in find_in(x, x.new, f) THEN Tomb ELSE @[i]],
              !.old = [i \in DOMAIN @ |-> IF i \in find_in(x, x.old, f) THEN Tomb ELSE @[i]],
              !.tombs = IF find_in(x, x.new, f) # {} THEN @ + 1 ELSE @,
              !.nodes = Front([@ EXCEPT ![x.at[f]] = last]),
              !.at = [g \in DOMAIN @ \ {f} |-> IF g = last.f THEN x.at[f] ELSE @[g]]]
EraseIn(x, f) == IF Has(x, f) THEN maybe_start_shrink(Unlinked(x, f, Last(x.nodes))) ELSE x
map_erase(x, f) == EraseIn(rehash_step(x), f)

---------------------------------------------------------------------------
(* Fields *)

Pairs(o) == IF is_packed(o) THEN [i \in 1 .. Entries(o.c) |-> Node(FieldOf(at(o.c, i - 1)), ValueOf(at(o.c, i - 1)))]
            ELSE o.x.nodes
PackedAt(o, f) == {i \in 1 .. Entries(o.c) : FieldOf(o.c.seq[i]) = f}
HasField(o, f) == IF is_packed(o) THEN PackedAt(o, f) # {} ELSE Has(o.x, f)
GetField(o, f) ==
    IF is_packed(o) THEN ValueOf(o.c.seq[CHOOSE i \in PackedAt(o, f) : TRUE]) ELSE NodeOf(o.x, f).v
Weight(p) == Size(p.f) + Size(p.v)

promote_hash(o) ==
    [promote(o, FoldLeft(LAMBDA x, p : build_insert(x, p.f, p.v), initialize(entries(o)), Pairs(o)),
             entries(o), o.aux.payload) EXCEPT !.aux.payload = 0]

SetPacked(o, f, v) ==
    IF PackedAt(o, f) # {}
    THEN [ref_replace(o, (CHOOSE i \in PackedAt(o, f) : TRUE) - 1, Pair(f, v))
            EXCEPT !.aux.payload = @ - Size(GetField(o, f)) + Size(v)]
    ELSE [ref_append(o, Pair(f, v)) EXCEPT !.aux.payload = @ + Size(f) + Size(v)]
SetExpanded(o, f, v) ==
    [o EXCEPT !.x = map_set(@, f, v), !.n = IF Has(o.x, f) THEN @ ELSE @ + 1,
              !.bytes = @ + Size(v) + (IF Has(o.x, f) THEN -Size(NodeOf(o.x, f).v) ELSE Size(f))]
\* Only the number of fields and the write's own lengths decide a conversion.
StaysPacked(o, f, v) ==
    /\ is_packed(o)
    /\ entries(o) + (IF HasField(o, f) THEN 0 ELSE 1) <= HashEntries
    /\ Most(Size(f), Size(v)) <= HashMaxValue
hash_set(o, f, v) ==
    IF StaysPacked(o, f, v) THEN SetPacked(o, f, v)
    ELSE SetExpanded(IF is_packed(o) THEN promote_hash(o) ELSE o, f, v)

hash_erase(o, f) ==
    IF ~HasField(o, f) THEN IF is_packed(o) THEN o ELSE [o EXCEPT !.x = map_erase(@, f)]
    ELSE IF is_packed(o)
         THEN [ref_erase(o, (CHOOSE i \in PackedAt(o, f) : TRUE) - 1)
                 EXCEPT !.aux.payload = @ - Size(f) - Size(GetField(o, f))]
    ELSE [o EXCEPT !.x = map_erase(@, f), !.n = @ - 1, !.bytes = @ - Weight(NodeOf(o.x, f))]

ensure_hash_write_capacity(o, s) ==
    IF /\ is_embedded(o)
       /\ ~(/\ embedded_bytes_fit(o, encoded_bytes(o.c.seq) + encoded_bytes(s))
            /\ entries(o) + Len(s) <= HashEntries
            /\ \A i \in DOMAIN s : Most(Size(FieldOf(s[i])), Size(ValueOf(s[i]))) <= HashMaxValue)
    THEN externalize(o) ELSE o

---------------------------------------------------------------------------
(* HashFieldTtl *)

ttl_get(t, f) == IF f \in DOMAIN t.at THEN t.at[f] ELSE -1
\* A later deadline for what may be the earliest one leaves the bound to be found again.
ttl_set(t, f, d) ==
    IF f \in DOMAIN t.at
    THEN [t EXCEPT !.at[f] = d, !.min = IF d <= t.at[f] THEN Least(@, d) ELSE @,
                   !.dirty = @ \/ (d > t.at[f] /\ t.at[f] <= t.min)]
    ELSE [t EXCEPT !.on = TRUE, !.at = (f :> d) @@ @, !.min = Least(@, d)]
\* An emptied table is deleted by every caller.
ttl_erase(t, f) ==
    IF f \notin DOMAIN t.at THEN t
    ELSE IF DOMAIN t.at = {f} THEN NoTtl
    ELSE [t EXCEPT !.at = [g \in DOMAIN @ \ {f} |-> @[g]], !.dirty = @ \/ t.at[f] <= t.min]
recompute_min(t) ==
    IF t.dirty
    THEN [t EXCEPT !.dirty = FALSE,
                   !.min = CHOOSE d \in {t.at[f] : f \in DOMAIN t.at} : \A f \in DOMAIN t.at : d <= t.at[f]]
    ELSE t

DueFields(o, now) == {f \in DOMAIN o.aux.ttl.at : o.aux.ttl.at[f] <= now}
ReapField(o, f) == [hash_erase(o, f) EXCEPT !.aux.ttl = ttl_erase(@, f)]
Reaped(o, now) ==
    IF o.aux.ttl.min > now THEN o ELSE FoldLeft(ReapField, o, SetToSeq(DueFields(o, now)))
reap_due(o, now) == IF o.aux.ttl.on THEN Reaped([o EXCEPT !.aux.ttl = recompute_min(@)], now) ELSE o

hash_ttl_clear_field(o, f) == [o EXCEPT !.aux.ttl = ttl_erase(@, f)]
\* What a handler is given: gate, whether some hash of the shard has field deadlines; cap,
\* whether a capture runs; room, whether a header can be retired now.
hash_ttl_on_access(o, now, gate, cap, room) ==
    IF o.type # "hash" \/ ~gate \/ cap THEN o
    ELSE IF ~room /\ DueFields(o, now) # {} /\ Cardinality(DueFields(o, now)) = entries(o) THEN NoObj
    ELSE OrErased(reap_due(o, now))
field_live(o, f, now) == HasField(o, f) /\ (ttl_get(o.aux.ttl, f) = -1 \/ ttl_get(o.aux.ttl, f) > now)

---------------------------------------------------------------------------
(* Commands; s is a sequence of entries, field and value *)

Answers(s, reply(_)) == Bulks([i \in DOMAIN s |-> reply(s[i])])
\* A write that cannot fit promotes before it looks for duplicates.
preconvert_hset(o, s) ==
    IF /\ is_packed(o)
       /\ \/ Len(s) > HashEntries
          \/ \E i \in DOMAIN s : Most(Size(FieldOf(s[i])), Size(ValueOf(s[i]))) > HashMaxValue
    THEN promote_hash(o) ELSE o
\* The hash a write starts from, and where it goes when it was a new one.
Writable(o, s) == IF o.type = "none" THEN NewHash ELSE ensure_hash_write_capacity(o, s)
attach_new_hash(o, p) == IF o.type = "none" THEN adopt(p) ELSE p

HsetOn(o, p, s) == FoldLeft(LAMBDA q, e : hash_set(q, FieldOf(e), ValueOf(e)), p, s)
Untimed(o, s, gate) ==
    IF gate THEN FoldLeft(LAMBDA q, e : hash_ttl_clear_field(q, FieldOf(e)), o, s) ELSE o
HsetDone(o, p, s, gate) ==
    Out(attach_new_hash(o, IF o.type = "none" THEN p ELSE Untimed(p, s, gate)),
        Num(entries(p) - entries(o)))
hset(o, s, gate) == HsetDone(o, HsetOn(o, preconvert_hset(Writable(o, s), s), s), s, gate)

hsetnx(o, f, v) ==
    IF o.type # "none" /\ HasField(o, f) THEN Out(o, Num(0))
    ELSE Out(attach_new_hash(o, hash_set(Writable(o, <<Pair(f, v)>>), f, v)), Num(1))

ValueIn(o, f) == IF o.type # "none" /\ HasField(o, f) THEN GetField(o, f) ELSE 0
hget(o, f) == Out(o, IF ValueIn(o, f) = 0 THEN Nil ELSE Bulk(ValueIn(o, f)))
hmget(o, s) == Out(o, Answers(s, LAMBDA f : ValueIn(o, f)))
hexists(o, f) == Out(o, Num(IF ValueIn(o, f) = 0 THEN 0 ELSE 1))
hstrlen(o, f) == Out(o, Num(IF ValueIn(o, f) = 0 THEN 0 ELSE Size(ValueIn(o, f))))
hlen(o) == Out(o, Num(entries(o)))
hgetall(o) == Out(o, Bulks(IF o.type = "none" THEN <<>>
                           ELSE [i \in 1 .. entries(o) |-> Pair(Pairs(o)[i].f, Pairs(o)[i].v)]))

\* Mutant: a field that goes leaves its deadline.
DeadlineKept(o, f, gate) == IF o.type = "none" THEN o ELSE OrErased(hash_erase(o, f))
\* The key goes with its last field, and the arguments after that are not looked at.
HdelField(o, f, gate) ==
    IF o.type = "none" THEN o
    ELSE OrErased(IF gate /\ HasField(o, f) THEN hash_ttl_clear_field(hash_erase(o, f), f)
                  ELSE hash_erase(o, f))
HdelDone(o, p) == Out(p, Num(entries(o) - entries(p)))
hdel(o, s, gate) == HdelDone(o, FoldLeft(LAMBDA p, f : HdelField(p, f, gate), o, s))

\* HINCRBY, and HINCRBYFLOAT, which has no such limit and answers with the text.
HincrTo(o, f, v, exact) ==
    Out(attach_new_hash(o, hash_set(Writable(o, <<Pair(f, v)>>), f, v)), IF exact THEN Num(v) ELSE Bulk(v))
hincrby(o, f, n, exact) ==
    IF ValueIn(o, f) # 0 /\ ~IsNumber(ValueIn(o, f)) THEN Out(o, Err)
    ELSE IF exact /\ ValueIn(o, f) > MaxInt - n THEN Out(o, Err)
    ELSE HincrTo(o, f, ValueIn(o, f) + n, exact)

hrandfield(o, count, picks) ==
    IF o.type = "none" THEN {Out(o, Bulks(<<>>))}
    ELSE IF count >= entries(o) THEN {Out(o, Bulks([i \in 1 .. entries(o) |-> Pairs(o)[i].f]))}
    ELSE {Out(o, Bulks([i \in DOMAIN p |-> Pairs(o)[p[i] + 1].f])) : p \in picks}

---------------------------------------------------------------------------
(* HSCAN: by position while the hash is packed, by a bit-reversed home index after that *)

\* Mutant: while the table is being rehashed only the new one is read.
NewTableOnly(x, c, small) ==
    [seen |-> scan_home(x.new, scan_homes(x.new, small, c)), cursor |-> scan_cursor_next(c, small)]
map_scan(x, c, small) ==
    [seen |-> scan_home(x.new, scan_homes(x.new, small, c))
                \cup (IF rehashing(x) THEN scan_home(x.old, scan_homes(x.old, small, c)) ELSE {}),
     cursor |-> scan_cursor_next(c, small)]
SmallCap(x) == IF rehashing(x) THEN Least(SlotCount(x.new), SlotCount(x.old)) ELSE SlotCount(x.new)

ScanOn(x, r, count) ==
    IF r.on /\ r.cursor # 0 /\ Cardinality(r.seen) >= count THEN r
    ELSE IF r.on /\ r.cursor = 0 THEN r
    ELSE LET m == map_scan(x, r.cursor, SmallCap(x))
         IN [on |-> TRUE, cursor |-> m.cursor, seen |-> r.seen \cup m.seen]
hscan(o, cursor, count) ==
    IF is_packed(o)
    THEN [on |-> TRUE, cursor |-> IF cursor + count >= entries(o) THEN 0 ELSE cursor + count,
          seen |-> {FieldOf(o.c.seq[i]) : i \in cursor + 1 .. Least(cursor + count, entries(o))}]
    ELSE FoldLeft(LAMBDA r, i : ScanOn(o.x, r, count), [on |-> FALSE, cursor |-> cursor, seen |-> {}],
                  [i \in 1 .. 10 * count |-> i])

---------------------------------------------------------------------------
(* Deadlines of fields *)

condition_allows(cond, current, proposed) ==
    \/ cond = "none"
    \/ cond = "nx" /\ current < 0
    \/ cond = "xx" /\ current >= 0
    \/ cond = "gt" /\ current >= 0 /\ proposed > current
    \/ cond = "lt" /\ (current < 0 \/ proposed < current)

\* The first deadline makes an embedded hash external; nothing else does.
Timeable(o, d, cond, s, now) ==
    IF ~o.aux.ttl.on /\ d > now /\ cond \in {"none", "nx", "lt"} /\ \E i \in DOMAIN s : HasField(o, s[i])
    THEN externalize(o) ELSE o
\* One field of an HEXPIRE: p is the hash so far and the answers.
Timed(p, d, cond, f, now) ==
    IF p.o.type = "none" \/ ~field_live(p.o, f, now) THEN [p EXCEPT !.r = Append(@, -2)]
    ELSE IF ~condition_allows(cond, ttl_get(p.o.aux.ttl, f), d) THEN [p EXCEPT !.r = Append(@, 0)]
    ELSE IF d <= now THEN [o |-> OrErased(ReapField(p.o, f)), r |-> Append(p.r, 2)]
    ELSE IF is_embedded(p.o) THEN [p EXCEPT !.r = Append(@, 0)]
    ELSE [o |-> [p.o EXCEPT !.aux.ttl = ttl_set(@, f, d)], r |-> Append(p.r, 1)]
Told(p) == Out(p.o, Bulks(p.r))
hexpire_generic(o, d, cond, s, now) ==
    IF o.type = "none" THEN Out(o, Bulks([i \in DOMAIN s |-> -2]))
    ELSE Told(FoldLeft(LAMBDA q, f : Timed(q, d, cond, f, now),
                       [o |-> Timeable(o, d, cond, s, now), r |-> <<>>], s))

ReadAt(o, f, now) == IF o.type = "none" \/ ~field_live(o, f, now) THEN -2 ELSE ttl_get(o.aux.ttl, f)
hexpiretime(o, s, now) == Out(o, Answers(s, LAMBDA f : ReadAt(o, f, now)))
PersistField(p, f, now) ==
    IF ReadAt(p.o, f, now) < 0 THEN [p EXCEPT !.r = Append(@, ReadAt(p.o, f, now))]
    ELSE [o |-> hash_ttl_clear_field(p.o, f), r |-> Append(p.r, 1)]
hpersist(o, s, now) ==
    Told(FoldLeft(LAMBDA q, f : PersistField(q, f, now), [o |-> o, r |-> <<>>], s))

---------------------------------------------------------------------------
(* Saving and loading: fields that lapsed are not loaded, and a hash with deadlines stays external *)

\* A field with its value and its deadline, -1 for none.
FieldUntil(f, v, d) == [f |-> f, v |-> v, at |-> d]
hash_snapshot_read(o) == [i \in 1 .. entries(o) |-> FieldUntil(Pairs(o)[i].f, Pairs(o)[i].v, ttl_get(o.aux.ttl, Pairs(o)[i].f))]
LoadField(o, p) ==
    [hash_set(o, p.f, p.v) EXCEPT !.aux.ttl = IF p.at >= 0 THEN ttl_set(@, p.f, p.at) ELSE @]
Loaded(o, d) ==
    [IF o.aux.ttl.on THEN o ELSE adopt(o)
       EXCEPT !.d = IF entries(o) = 0 THEN 1 ELSE d, !.slot = entries(o) = 0 \/ d >= 0]
hash_snapshot_load(s, d, now) ==
    Loaded(FoldLeft(LAMBDA h, p : IF p.at \in 0 .. now THEN h ELSE LoadField(h, p), NewHash, s), d)
=============================================================================
