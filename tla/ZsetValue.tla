----------------------------- MODULE ZsetValue -----------------------------
(***************************************************************************)
(* Sorted sets (cmd/t_zset.cc).  A packed one has an entry per member and  *)
(* its score, in order; an expanded one (ZsetData) is a skiplist whose     *)
(* links carry spans, beside a table of the members that grows a few slots *)
(* at a time (ZsetMemberMap).  Here x is                                   *)
(*   score        the score of every node; a node is named by its member   *)
(*   fwd, span    level[i].forward and .span of every node and of header   *)
(*   back, tail, ltail   backward, tail, level_tail                        *)
(*   level, length                                                         *)
(*   new, old, pos, tombs   the member table, as in HashFieldMap           *)
(***************************************************************************)
EXTENDS CollectionRef

CONSTANTS ZsetEntries, ZsetMaxValue,              \* TypeLimits::zset
          ScoreBytes,                             \* kCompactScoreBytes
          MaxLevel,                               \* kZslMaxLevel
          MapMin, MapStep,                        \* 16 and 8: first size, slots moved per write
          Scored(_, _), MemberOf(_), ScoreOf(_),  \* the entry of a member and its score, and back
          Precedes(_, _)                          \* bytes_compare < 0

header == 0
null == -1
NewZset == Obj("zset", NoCompact, <<>>)
tuple_less(s, v, t, w) == s < t \/ (s = t /\ Precedes(v, w))

---------------------------------------------------------------------------
(* ZsetMemberMap *)

TableFor(n) == CHOOSE k \in {MapMin * m : m \in {1, 2, 4, 8}} :
                 /\ (k * 7) \div 10 >= n
                 /\ k > MapMin => ((k \div 2) * 7) \div 10 < n
map_reserve(x, n) == IF x.new = <<>> THEN [x EXCEPT !.new = Blank(TableFor(n))] ELSE x
map_has(x, v) == find(x.new, v) # {} \/ (x.old # <<>> /\ find(x.old, v) # {})

insert_at(x, v, i) == [x EXCEPT !.new = (i :> v) @@ x.new, !.tombs = IF x.new[i] = Tomb THEN @ - 1 ELSE @]
insert_into(x, v) == insert_at(x, v, find_insert_slot(x.new, v))
MovedSlot(x, v) ==
    [IF v \in {NoMember, Tomb} THEN x ELSE insert_into([x EXCEPT !.old = (x.pos :> Tomb) @@ x.old], v)
       EXCEPT !.pos = @ + 1]
zmap_freed(x) ==
    IF x.old # <<>> /\ x.pos = SlotCount(x.old) THEN [x EXCEPT !.old = <<>>, !.pos = 0] ELSE x
zmap_rehash_step(x) ==
    zmap_freed(FoldLeft(LAMBDA y, k : IF y.old # <<>> /\ y.pos < SlotCount(y.old)
                                      THEN MovedSlot(y, y.old[y.pos]) ELSE y,
                        x, [k \in 1 .. MapStep |-> k]))
start_rehash(x, cap) == [x EXCEPT !.old = x.new, !.new = Blank(cap), !.pos = 0, !.tombs = 0]
\* The larger table is for members, the same size for tombstones.
zmap_prepared(x, live, cap) ==
    IF x.old = <<>> /\ (live + x.tombs + 1) * 10 >= cap * 7
    THEN start_rehash(x, IF live * 20 >= cap * 7 THEN cap * 2 ELSE cap) ELSE x
zmap_ready(x) == zmap_prepared(x, Cardinality(Occupied(x.new)), SlotCount(x.new))
zmap_insert(x, v) == insert_into(zmap_ready(map_reserve(zmap_rehash_step(x), 1)), v)

EraseFrom(x, v) ==
    IF find(x.new, v) # {}
    THEN [x EXCEPT !.new = [i \in find(x.new, v) |-> Tomb] @@ x.new, !.tombs = @ + 1]
    ELSE [x EXCEPT !.old = [i \in find(x.old, v) |-> Tomb] @@ x.old]
zmap_erase(x, v) == EraseFrom(zmap_rehash_step(x), v)

---------------------------------------------------------------------------
(* ZsetData *)

NoZset ==
    [score |-> <<>>, fwd |-> (header :> [i \in 1 .. MaxLevel |-> null]),
     span |-> (header :> [i \in 1 .. MaxLevel |-> 0]), back |-> <<>>, tail |-> null,
     ltail |-> [i \in 1 .. MaxLevel |-> null], level |-> 1, length |-> 0,
     new |-> <<>>, old |-> <<>>, pos |-> 0, tombs |-> 0]

\* A walk goes forward on a level while goes(next, rank of next) holds.
Forth(x, i, w, goes(_, _)) ==
    IF x.fwd[w.n][i] # null /\ goes(x.fwd[w.n][i], w.r + x.span[w.n][i])
    THEN [n |-> x.fwd[w.n][i], r |-> w.r + x.span[w.n][i]] ELSE w
Along(x, i, w, goes(_, _)) == FoldLeft(LAMBDA u, k : Forth(x, i, u, goes), w, [k \in 1 .. x.length |-> k])
\* From the top level down: where the walk left each level, and at which rank.
Descent(x, goes(_, _)) ==
    FoldLeft(LAMBDA p, k : (x.level - k + 1 :> Along(x, x.level - k + 1, p[x.level - k + 2], goes)) @@ p,
             (x.level + 1 :> [n |-> header, r |-> 0]), [k \in 1 .. x.level |-> k])
find_update(x, s, v) == Descent(x, LAMBDA n, r : tuple_less(x.score[n], n, s, v))
\* Above the list's level a search starts at header.
Above(p, i) == IF i \in DOMAIN p THEN p[i] ELSE [n |-> header, r |-> 0]

\* A link or a span of one node, on one level.
With(f, n, i, e) == (n :> ((i :> e) @@ f[n])) @@ f
Stretched(x, u, i) == [x EXCEPT !.span = With(x.span, u, i, x.span[u][i] + 1)]

Raise(x, levels) ==
    [x EXCEPT !.level = Most(@, levels),
              !.span = (header :> [i \in 1 .. MaxLevel |-> IF i > x.level /\ i <= levels THEN x.length
                                                           ELSE x.span[header][i]]) @@ x.span]
LinkLevel(x, v, levels, i, u, r) ==
    IF i > levels THEN Stretched(x, u, i)
    ELSE [x EXCEPT !.fwd = With(With(x.fwd, v, i, x.fwd[u][i]), u, i, v),
                   !.span = With(With(x.span, v, i, x.span[u][i] - r), u, i, r + 1),
                   !.ltail = (i :> IF x.fwd[u][i] = null THEN v ELSE x.ltail[i]) @@ x.ltail]
Backed(x, v, u) ==
    [x EXCEPT !.back = IF x.fwd[v][1] = null THEN (v :> u) @@ @ ELSE (v :> u) @@ (x.fwd[v][1] :> v) @@ @,
              !.tail = IF x.fwd[v][1] = null THEN v ELSE @, !.length = @ + 1]
LinkedBy(x, v, levels, p) ==
    Backed(FoldLeft(LAMBDA y, i : LinkLevel(y, v, levels, i, Above(p, i).n, p[1].r - Above(p, i).r),
                    Raise(x, levels), [i \in 1 .. Most(x.level, levels) |-> i]),
           v, IF p[1].n = header THEN null ELSE p[1].n)
insert_node(x, v) == LinkedBy(x, v, Len(x.fwd[v]), find_update(x, x.score[v], v))

\* At the end every level's last node is known.
LastOn(x, i) == IF x.ltail[i] = null THEN header ELSE x.ltail[i]
TailLevel(x, v, old, i) ==
    IF i > old THEN [x EXCEPT !.fwd = With(x.fwd, header, i, v), !.ltail = (i :> v) @@ x.ltail,
                              !.span = With(x.span, header, i, x.length + 1)]
    ELSE IF i > Len(x.fwd[v]) THEN Stretched(x, LastOn(x, i), i)
    ELSE [Stretched(x, LastOn(x, i), i) EXCEPT !.fwd = With(x.fwd, LastOn(x, i), i, v), !.ltail = (i :> v) @@ x.ltail]
insert_at_tail(x, v) ==
    [FoldLeft(LAMBDA y, i : TailLevel(y, v, x.level, i), x, [i \in 1 .. Most(x.level, Len(x.fwd[v])) |-> i])
       EXCEPT !.level = Most(@, Len(x.fwd[v])), !.back = (v :> x.tail) @@ @, !.tail = v, !.length = @ + 1]

NewNode(x, v, s, levels) ==
    [x EXCEPT !.score = (v :> s) @@ @, !.fwd = (v :> [i \in 1 .. levels |-> null]) @@ @,
              !.span = (v :> [i \in 1 .. levels |-> 0]) @@ @]
zset_insert(x, s, v, levels) ==
    IF x.tail = null \/ tuple_less(x.score[x.tail], x.tail, s, v)
    THEN insert_at_tail(NewNode(zmap_insert(x, v), v, s, levels), v)
    ELSE insert_node(NewNode(zmap_insert(x, v), v, s, levels), v)

UnlinkLevel(x, v, i, u) ==
    IF x.fwd[u][i] # v THEN [x EXCEPT !.span = With(x.span, u, i, x.span[u][i] - 1)]
    ELSE [x EXCEPT !.span = With(x.span, u, i, x.span[u][i] + x.span[v][i] - 1),
                   !.fwd = With(x.fwd, u, i, x.fwd[v][i]),
                   !.ltail = (i :> IF x.ltail[i] # v THEN x.ltail[i] ELSE IF u = header THEN null ELSE u) @@ x.ltail]
Lowered(x, level) ==
    [x EXCEPT !.level = level,
              !.span = (header :> [i \in 1 .. MaxLevel |-> IF i > level THEN 0 ELSE x.span[header][i]]) @@ x.span,
              !.ltail = [i \in 1 .. MaxLevel |-> IF i > level THEN null ELSE x.ltail[i]]]
\* Empty levels above the first go.
Lower(x) ==
    Lowered(x, CHOOSE l \in 1 .. x.level :
                 /\ l = 1 \/ x.fwd[header][l] # null
                 /\ \A i \in l + 1 .. x.level : x.fwd[header][i] = null)
unlink_node(x, v, p) ==
    Lower([FoldLeft(LAMBDA y, i : UnlinkLevel(y, v, i, p[i].n), x, [i \in 1 .. x.level |-> i])
             EXCEPT !.back = IF x.fwd[v][1] = null THEN @ ELSE (x.fwd[v][1] :> x.back[v]) @@ @,
                    !.tail = IF x.fwd[v][1] = null THEN x.back[v] ELSE @, !.length = @ - 1])
free_node(x, v) ==
    LET without(f) == [n \in DOMAIN f \ {v} |-> f[n]]
    IN [x EXCEPT !.score = without(@), !.fwd = without(@), !.span = without(@), !.back = without(@)]
erase_node(x, v) == free_node(unlink_node(zmap_erase(x, v), v, find_update(x, x.score[v], v)), v)
update_score(x, v, s) ==
    insert_node([unlink_node(x, v, find_update(x, x.score[v], v)) EXCEPT !.score = (v :> s) @@ @], v)

\* 0 if the node is not reached.
rank_of(x, v) ==
    LET p == Descent(x, LAMBDA n, r : n = v \/ tuple_less(x.score[n], n, x.score[v], v))
    IN IF p[1].n = v THEN p[1].r ELSE 0
by_rank(x, rank) == Descent(x, LAMBDA n, r : r <= rank)[1].n
\* The nodes from a rank on, forward or backward.
Run(x, rank, count, reverse) ==
    FoldLeft(LAMBDA s, k : Append(s, IF k = 1 THEN by_rank(x, rank)
                                     ELSE IF reverse THEN x.back[Last(s)] ELSE x.fwd[Last(s)][1]),
             <<>>, [k \in 1 .. count |-> k])
\* Ranks of the first and the last node of a range given by its ends, after(n) and before(n).
first_in(x, after(_)) == Descent(x, LAMBDA n, r : ~after(n))[1].r + 1
last_in(x, before(_)) == Descent(x, LAMBDA n, r : before(n))[1].r

\* Nodes v.. are unlinked one after the other, from the same predecessors.
EraseRun(x, p, run) ==
    FoldLeft(LAMBDA y, v : free_node(unlink_node(zmap_erase(y, v), v, p), v), x, run)
erase_rank_range(x, first, last) ==
    IF first > last \/ first > x.length THEN x
    ELSE EraseRun(x, Descent(x, LAMBDA n, r : r < first), Run(x, first, Least(last, x.length) - first + 1, FALSE))

---------------------------------------------------------------------------
(* Both encodings *)

ItemsOf(run, x) == [i \in DOMAIN run |-> Scored(run[i], x.score[run[i]])]
Level0(x) == IF x.length = 0 THEN <<>> ELSE Run(x, 1, x.length, FALSE)
ItemAt(o, i) == Scored(MemberOf(at(o.c, i)), ScoreOf(at(o.c, i)))
Items(o) ==
    IF is_packed(o) THEN [i \in 1 .. Entries(o.c) |-> ItemAt(o, i - 1)]
    ELSE ItemsOf(Level0(o.x), o.x)
compact_find(o, v) == {i \in 1 .. Entries(o.c) : MemberOf(o.c.seq[i]) = v}
HasMember(o, v) == IF is_packed(o) THEN compact_find(o, v) # {} ELSE map_has(o.x, v)
zset_get_score(o, v) ==
    IF is_packed(o) THEN ScoreOf(o.c.seq[CHOOSE i \in compact_find(o, v) : TRUE]) ELSE o.x.score[v]
compact_insert_offset(o, s, v) ==
    Cardinality({i \in 1 .. Entries(o.c) : ~tuple_less(s, v, ScoreOf(o.c.seq[i]), MemberOf(o.c.seq[i]))})
TupleBytes(o, v) == Size(v) + ScoreBytes

\* Levels come from a random source: the choices are those of the set ls.
promote_zset(o, ls) ==
    {promote(o, x, entries(o), payload(o)) :
       x \in FoldLeft(LAMBDA X, e : {zset_insert(x, ScoreOf(e), MemberOf(e), l) : x \in X, l \in ls},
                      {map_reserve(NoZset, entries(o))}, o.c.seq)}

PackedTuple(o, s, v) == ref_insert(o, compact_insert_offset(o, s, v), Scored(v, s))
Rescored(o, s, v) ==
    IF is_packed(o)
    THEN PackedTuple(ref_erase(o, (CHOOSE i \in compact_find(o, v) : TRUE) - 1), s, v)
    ELSE [o EXCEPT !.x = update_score(o.x, v, s)]
AddedTo(P, s, v, ls) ==
    {[p EXCEPT !.x = zset_insert(p.x, s, v, l), !.n = @ + 1, !.bytes = @ + TupleBytes(p, v)] : p \in P, l \in ls}
AddMember(o, s, v, ls) ==
    IF ~is_packed(o) THEN AddedTo({o}, s, v, ls)
    ELSE IF entries(o) + 1 <= ZsetEntries /\ Size(v) <= ZsetMaxValue THEN {PackedTuple(o, s, v)}
    ELSE AddedTo(promote_zset(o, ls), s, v, ls)

\* One pair of a ZADD.  cond: none, nx, xx, gt or lt.  q: the object so far and what was counted.
Refused(cond, old, s) == cond = "nx" \/ (cond = "lt" /\ s >= old) \/ (cond = "gt" /\ s <= old)
Update(q, cond, s, v, old) ==
    IF Refused(cond, old, s) THEN {q}
    ELSE IF s = old THEN {[q EXCEPT !.processed = @ + 1, !.last = s]}
    ELSE {[o |-> Rescored(q.o, s, v), added |-> q.added, updated |-> q.updated + 1,
           processed |-> q.processed + 1, last |-> s]}
zset_add_one(q, cond, incr, s, v, ls) ==
    IF HasMember(q.o, v)
    THEN Update(q, cond, IF incr THEN zset_get_score(q.o, v) + s ELSE s, v, zset_get_score(q.o, v))
    ELSE IF cond = "xx" THEN {q}
    ELSE {[o |-> o, added |-> q.added + 1, updated |-> q.updated, processed |-> q.processed + 1, last |-> s] :
            o \in AddMember(q.o, s, v, ls)}
AddAll(o, cond, incr, s, ls) ==
    FoldLeft(LAMBDA Q, e : UNION {zset_add_one(q, cond, incr, ScoreOf(e), MemberOf(e), ls) : q \in Q},
             {[o |-> o, added |-> 0, updated |-> 0, processed |-> 0, last |-> 0]}, s)

ensure_zset_write_capacity(o, s) ==
    IF /\ is_embedded(o)
       /\ ~(/\ embedded_bytes_fit(o, encoded_bytes(o.c.seq) + encoded_bytes(s))
            /\ entries(o) + Len(s) <= ZsetEntries
            /\ \A i \in DOMAIN s : Size(MemberOf(s[i])) <= ZsetMaxValue)
    THEN externalize(o) ELSE o

---------------------------------------------------------------------------
(* Commands *)

zadd_generic(o, s, cond, incr, ch, ls) ==
    IF o.type = "none" /\ cond = "xx" THEN {Out(o, IF incr THEN Nil ELSE Num(0))}
    ELSE {Out(IF o.type # "none" THEN q.o ELSE IF entries(q.o) > 0 THEN adopt(q.o) ELSE o,
              IF incr THEN IF q.processed > 0 THEN Num(q.last) ELSE Nil
              ELSE Num(IF ch THEN q.added + q.updated ELSE q.added)) :
            q \in AddAll(IF o.type = "none" THEN NewZset ELSE ensure_zset_write_capacity(o, s),
                         cond, incr, s, ls)}

ScoreIn(o, v) == IF o.type # "none" /\ HasMember(o, v) THEN zset_get_score(o, v) ELSE -1
zmscore(o, s) == Out(o, Bulks([i \in DOMAIN s |-> ScoreIn(o, s[i])]))
zcard(o) == Out(o, Num(entries(o)))

\* Ranks [first, last] of the items between two ends; empty when first > last.
Between(o, after(_), before(_)) ==
    IF is_packed(o)
    THEN LET all == {i \in 1 .. Entries(o.c) : after(o.c.seq[i]) /\ before(o.c.seq[i])}
         IN IF all = {} THEN [first |-> 1, last |-> 0]
            ELSE [first |-> CHOOSE i \in all : \A j \in all : i <= j,
                  last |-> CHOOSE i \in all : \A j \in all : j <= i]
    ELSE [first |-> first_in(o.x, LAMBDA n : after(Scored(n, o.x.score[n]))),
          last |-> last_in(o.x, LAMBDA n : before(Scored(n, o.x.score[n])))]
\* The range of ranks a command names: i and j are the ends, f and g whether they are excluded.
RangeBy(o, kind, i, j, f, g) ==
    IF kind = "rank"
    THEN [first |-> Most(IF i < 0 THEN i + entries(o) ELSE i, 0) + 1,
          last |-> Least(IF j < 0 THEN j + entries(o) ELSE j, entries(o) - 1) + 1]
    ELSE IF i > j \/ (i = j /\ (f \/ g)) THEN [first |-> 1, last |-> 0]
    ELSE IF kind = "score"
         THEN Between(o, LAMBDA e : IF f THEN ScoreOf(e) > i ELSE ScoreOf(e) >= i,
                         LAMBDA e : IF g THEN ScoreOf(e) < j ELSE ScoreOf(e) <= j)
    ELSE Between(o, LAMBDA e : Precedes(i, MemberOf(e)) \/ (~f /\ MemberOf(e) = i),
                    LAMBDA e : Precedes(MemberOf(e), j) \/ (~g /\ MemberOf(e) = j))

Width(r) == Most(r.last - r.first + 1, 0)
zcount(o, r) == Out(o, Num(IF o.type = "none" THEN 0 ELSE Width(r)))

\* Items from a rank on.
ItemsFrom(o, rank, count, reverse) ==
    IF is_packed(o) THEN [k \in 1 .. count |-> ItemAt(o, (IF reverse THEN rank - k + 1 ELSE rank + k - 1) - 1)]
    ELSE ItemsOf(Run(o.x, rank, count, reverse), o.x)
limited_count(n, limit) == IF limit < 0 THEN n ELSE Least(n, limit)
\* With REV the ranks count from the end, and by score or member the ends are swapped before.
emit_range(o, r, kind, reverse, offset, limit) ==
    IF Width(r) = 0 \/ offset < 0 \/ offset >= Width(r) THEN <<>>
    ELSE ItemsFrom(o, IF ~reverse THEN r.first + offset
                      ELSE IF kind = "rank" THEN entries(o) - r.first + 1 ELSE r.last - offset,
                   limited_count(Width(r) - offset, limit), reverse)
zrange(o, r, kind, reverse, offset, limit) ==
    Out(o, Bulks(IF o.type = "none" THEN <<>> ELSE emit_range(o, r, kind, reverse, offset, limit)))

zrank(o, v, reverse) ==
    IF o.type = "none" \/ ~HasMember(o, v) THEN Out(o, Nil)
    ELSE LET rank == IF is_packed(o) THEN (CHOOSE i \in compact_find(o, v) : TRUE) - 1 ELSE rank_of(o.x, v) - 1
         IN Out(o, Num(IF reverse THEN entries(o) - rank - 1 ELSE rank))

Shed(o, x, n, bytes) == [o EXCEPT !.x = x, !.n = @ - n, !.bytes = @ - bytes]
zset_remove(o, v) ==
    IF ~HasMember(o, v) THEN o
    ELSE IF is_packed(o) THEN ref_erase(o, (CHOOSE i \in compact_find(o, v) : TRUE) - 1)
    ELSE Shed(o, erase_node(o.x, v), 1, TupleBytes(o, v))
zrem(o, s) ==
    IF o.type = "none" THEN Out(o, Num(0))
    ELSE LET after == FoldLeft(zset_remove, o, s) IN Out(OrErased(after), Num(entries(o) - entries(after)))

RangeErasedFrom(o, r) ==
    IF Width(r) = 0 THEN o
    ELSE IF is_packed(o) THEN ref_erase_range(o, r.first - 1, r.last)
    ELSE Shed(o, erase_rank_range(o.x, r.first, r.last), Width(r),
              payload_bytes(ItemsFrom(o, r.first, Width(r), FALSE)))
zremrange(o, r) ==
    IF o.type = "none" THEN Out(o, Num(0)) ELSE Out(OrErased(RangeErasedFrom(o, r)), Num(Width(r)))

PopRange(o, n, maximum) ==
    IF maximum THEN [first |-> entries(o) - n + 1, last |-> entries(o)] ELSE [first |-> 1, last |-> n]
PopOf(o, n, maximum) ==
    Out(OrErased(RangeErasedFrom(o, PopRange(o, n, maximum))),
        Bulks(ItemsFrom(o, IF maximum THEN entries(o) ELSE 1, n, maximum)))
zpop_generic(o, count, maximum) ==
    IF o.type = "none" \/ count = 0 THEN Out(o, Bulks(<<>>))
    ELSE PopOf(o, Least(count, entries(o)), maximum)

\* Distinct items for a count, with repetition for a negative one.
zrandmember(o, count) ==
    IF o.type = "none" THEN {Out(o, Bulks(<<>>))}
    ELSE {Out(o, Bulks([k \in DOMAIN p |-> Items(o)[p[k]]])) :
            p \in {p \in [1 .. (IF count < 0 THEN -count ELSE Least(count, entries(o))) -> 1 .. entries(o)] :
                     count < 0 \/ IsInjective(p)}}

\* A call visits homes until it has visited `count` of them, or ten times as many slots.
Examined(t, h) == Most(Cardinality({i \in DOMAIN t : \A e \in DOMAIN t :
                      t[e] = NoMember => (i - h) % SlotCount(t) < (e - h) % SlotCount(t)}), 1)
Visited(t, H) == [seen |-> scan_home(t, H), homes |-> Cardinality(H),
                  slots |-> FoldSet(LAMBDA h, n : n + Examined(t, h), 0, H)]
VisitOf(x, c, small) ==
    LET a == Visited(x.new, scan_homes(x.new, small, c))
        b == IF x.old = <<>> THEN [seen |-> {}, homes |-> 0, slots |-> 0]
             ELSE Visited(x.old, scan_homes(x.old, small, c))
    IN [seen |-> a.seen \cup b.seen, homes |-> a.homes + b.homes, slots |-> a.slots + b.slots]
ZscanOn(x, r, count, small) ==
    IF r.on /\ (r.cursor = 0 \/ r.homes >= count \/ r.slots >= 10 * count) THEN r
    ELSE LET v == VisitOf(x, r.cursor, small)
         IN [on |-> TRUE, cursor |-> scan_cursor_next(r.cursor, small), seen |-> r.seen \cup v.seen,
             homes |-> r.homes + v.homes, slots |-> r.slots + v.slots]
zscan(o, cursor, count) ==
    IF is_packed(o) THEN [cursor |-> 0, seen |-> {MemberOf(o.c.seq[i]) : i \in 1 .. Entries(o.c)}]
    ELSE FoldLeft(LAMBDA r, k : ZscanOn(o.x, r, count,
                                        IF o.x.old = <<>> THEN SlotCount(o.x.new)
                                        ELSE Least(SlotCount(o.x.new), SlotCount(o.x.old))),
                  [on |-> FALSE, cursor |-> cursor, seen |-> {}, homes |-> 0, slots |-> 0],
                  [k \in 1 .. count |-> k])

---------------------------------------------------------------------------
(* SORT, hops of commands that span shards, and the snapshot *)

zset_sort_promote_one(o, ls) == IF is_packed(o) THEN promote_zset(externalize(o), ls) ELSE {o}
\* zset_owner_replace and zset_snapshot_load: the entries are added to a new value.
zset_rebuilt(s, d, slot, ls) ==
    IF s = <<>> THEN {NoObj}
    ELSE {[adopt(q.o) EXCEPT !.d = d, !.slot = slot] : q \in AddAll(NewZset, "none", FALSE, s, ls)}
\* No value when a member comes twice.
zset_snapshot_load(s, d, ls) ==
    IF IsInjective([i \in DOMAIN s |-> MemberOf(s[i])]) THEN zset_rebuilt(s, d, d >= 0, ls) ELSE {}
zset_owner_replace(o, s, ls) == {Out(p, Ok) : p \in zset_rebuilt(s, o.d, o.slot, ls)}

\* The hop of a ZMPOP or a blocking pop on the key's own shard.
PoppedEnds(o, n, maximum) ==
    IF is_packed(o) THEN FoldLeft(LAMBDA p, k : ref_pop(p, ~maximum), o, [k \in 1 .. n |-> k])
    ELSE RangeErasedFrom(o, PopRange(o, n, maximum))
XshardPopOf(o, n, maximum) ==
    Out(OrErased(PoppedEnds(o, n, maximum)), Bulks(ItemsFrom(o, IF maximum THEN entries(o) ELSE 1, n, maximum)))
xshard_pop_zset(o, count, maximum) ==
    IF o.type = "none" THEN Out(o, Nil) ELSE XshardPopOf(o, Least(count, entries(o)), maximum)
=============================================================================
