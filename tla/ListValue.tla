----------------------------- MODULE ListValue -----------------------------
(***************************************************************************)
(* Lists (cmd/t_list.cc): packed while they fit the limits, then a doubly  *)
(* linked list of packed nodes, here x, a sequence of containers.          *)
(***************************************************************************)
EXTENDS CollectionRef

CONSTANTS ListEntries, ListBytes,  \* TypeLimits::list
          NodeMaxEntries           \* kNodeMaxEntries

list_fits(n, bytes) == n <= ListEntries /\ bytes <= ListBytes
Packs(o, s) == list_fits(entries(o) + Len(s), payload(o) + payload_bytes(s))

node_can_insert(node, v) ==
    /\ Size(v) <= ListBytes
    /\ Entries(node) < Least(ListEntries, NodeMaxEntries)
    /\ encoded_bytes(node.seq) + Span(v) <= ListBytes

expanded_push(x, v, left) ==
    LET edge == IF left THEN 1 ELSE Len(x)
        fresh == <<append(NoCompact, v)>>
    IN IF x # <<>> /\ node_can_insert(x[edge], v)
       THEN [x EXCEPT ![edge] = IF left THEN prepend(@, v) ELSE append(@, v)]
       ELSE IF left THEN fresh \o x ELSE x \o fresh
Pushed(x, s, left) == FoldLeft(LAMBDA y, v : expanded_push(y, v, left), x, s)
Nodes(s) == Pushed(<<>>, s, FALSE)

expanded_pop(x, left) ==
    LET edge == IF left THEN 1 ELSE Len(x)
        node == IF left THEN pop_front(x[edge]) ELSE pop_back(x[edge])
    IN IF node.seq = <<>> THEN RemoveAt(x, edge) ELSE [x EXCEPT ![edge] = node]

---------------------------------------------------------------------------
(* ListCursor *)

Flat(o) == IF is_packed(o) THEN Reads(o.c) ELSE FlattenSeq([k \in DOMAIN o.x |-> Reads(o.x[k])])
\* seek walks from the nearer end, by the counter of entries.
seek(o, i) ==
    IF is_packed(o) \/ i <= entries(o) \div 2 THEN i
    ELSE Len(Flat(o)) - (entries(o) - i - 1) - 1
Nth(o, i) == Flat(o)[seek(o, i) + 1]
Slice(o, first, count) == SubSeq(Flat(o), seek(o, first) + 1, seek(o, first) + count)
Edge(o, left) ==
    IF is_packed(o) THEN at(o.c, IF left THEN 0 ELSE Entries(o.c) - 1)
    ELSE IF left THEN at(o.x[1], 0) ELSE at(Last(o.x), Entries(Last(o.x)) - 1)

normalize_index(i, n) == IF i < 0 THEN i + n ELSE i
InRange(i, n) == normalize_index(i, n) \in 0 .. n - 1
\* [first, count], with count 0 when the range is empty.
normalize_range(start, stop, n) ==
    LET first == Most(normalize_index(start, n), 0)
        last == Least(normalize_index(stop, n), n - 1)
    IN [first |-> first, count |-> IF n = 0 \/ first > last THEN 0 ELSE last - first + 1]

---------------------------------------------------------------------------
(* Commands *)

\* A new list: packed if it fits, and embedded if it is small.
NewList(s, left) ==
    IF Packs(NoObj, s)
    THEN adopt(Obj("list",
                   FoldLeft(LAMBDA c, v : IF left THEN prepend(c, v) ELSE append(c, v), NoCompact, s),
                   <<>>))
    ELSE promote(Obj("list", NoCompact, <<>>), Pushed(<<>>, s, left), Len(s),
                 payload_bytes(s))

\* An embedded list leaves its object when the result outgrows the room or the limits.
Loosened(o, bytes, fits) ==
    IF is_embedded(o) /\ ~(embedded_bytes_fit(o, bytes) /\ fits) THEN externalize(o) ELSE o

Grown(o, s, left) ==
    IF is_packed(o)
    THEN IF Packs(o, s)
         THEN FoldLeft(LAMBDA p, v : IF left THEN ref_prepend(p, v) ELSE ref_append(p, v), o, s)
         ELSE promote(o, Pushed(Nodes(Flat(o)), s, left), entries(o) + Len(s),
                      payload(o) + payload_bytes(s))
    ELSE [o EXCEPT !.x = Pushed(@, s, left), !.n = @ + Len(s), !.bytes = @ + payload_bytes(s)]

Counted(o) == Out(o, Num(entries(o)))
GrownFrom(o, s, left) ==
    Grown(Loosened(o, encoded_bytes(o.c.seq) + encoded_bytes(s), Packs(o, s)), s, left)
push_generic(o, s, left, only_existing) ==
    IF o.type # "none" THEN Counted(GrownFrom(o, s, left))
    ELSE IF only_existing THEN Out(o, Num(0)) ELSE Counted(NewList(s, left))

Shrunk(o, left) ==
    IF is_packed(o) THEN ref_pop(o, left)
    ELSE [o EXCEPT !.x = expanded_pop(@, left), !.n = @ - 1, !.bytes = @ - Size(Edge(o, left))]
\* After taking count elements: what is left, and the elements in the order they came.
Popped(o, left, count) ==
    FoldLeft(LAMBDA p, i : [o |-> Shrunk(p.o, left), s |-> Append(p.s, Edge(p.o, left))],
             [o |-> o, s |-> <<>>], [i \in 1 .. Least(count, entries(o)) |-> i])

\* count -1: no count was given.
pop_generic(o, left, count) ==
    IF o.type = "none" THEN Out(o, Nil)
    ELSE LET p == Popped(o, left, IF count = -1 THEN 1 ELSE count)
         IN Out(OrErased(p.o), IF count = -1 THEN Bulk(p.s[1]) ELSE Bulks(p.s))

llen(o) == Out(o, Num(IF o.type = "none" THEN 0 ELSE entries(o)))
lindex(o, i) ==
    Out(o, IF o.type # "none" /\ InRange(i, entries(o))
           THEN Bulk(Nth(o, normalize_index(i, entries(o)))) ELSE Nil)
lrange(o, start, stop) ==
    LET r == normalize_range(start, stop, entries(o))
    IN Out(o, Bulks(IF r.count = 0 THEN <<>> ELSE Slice(o, r.first, r.count)))

\* Entries s laid out in nodes.
Staged(o, s) == promote(o, Nodes(s), Len(s), payload_bytes(s))

ReplacedOn(p, k, v, bytes, fits) ==
    IF is_packed(p) /\ fits THEN ref_replace(p, k, v)
    ELSE [Staged(p, [Flat(p) EXCEPT ![k + 1] = v]) EXCEPT !.n = entries(p), !.bytes = bytes]
SizedBy(o, k, v, old, bytes) ==
    ReplacedOn(Loosened(o, encoded_bytes(o.c.seq) - Span(old) + Span(v), list_fits(entries(o), bytes)),
               k, v, bytes, list_fits(entries(o), bytes))
Overwritten(o, k, v) == SizedBy(o, k, v, Nth(o, k), payload(o) - Size(Nth(o, k)) + Size(v))
lset(o, i, v) ==
    IF o.type = "none" \/ ~InRange(i, entries(o)) THEN Out(o, Err)
    ELSE Out(Overwritten(o, normalize_index(i, entries(o)), v), Ok)

\* The conversion is decided before the pivot is looked for, and stays when there is none.
Promoted(p, v) ==
    IF is_packed(p) /\ ~Packs(p, <<v>>) THEN promote(p, Nodes(Flat(p)), entries(p), payload(p)) ELSE p
Expandable(o, v) == Promoted(Loosened(o, encoded_bytes(o.c.seq) + Span(v), Packs(o, <<v>>)), v)
Inserted(o, k, v) ==
    IF is_packed(o) THEN ref_insert(o, k, v)
    ELSE [o EXCEPT !.x = Nodes(InsertAt(Flat(o), k + 1, v)), !.n = @ + 1, !.bytes = @ + Size(v)]
InsertedBy(p, flat, before, pivot, v) ==
    IF pivot \notin ToSet(flat) THEN Out(p, Num(-1))
    ELSE Out(Inserted(p, SelectInSeq(flat, LAMBDA x : x = pivot) - (IF before THEN 1 ELSE 0), v),
             Num(entries(p) + 1))
LinsertOn(p, before, pivot, v) == InsertedBy(p, Flat(p), before, pivot, v)
linsert(o, before, pivot, v) ==
    IF o.type = "none" THEN Out(o, Num(0)) ELSE LinsertOn(Expandable(o, v), before, pivot, v)

\* The entries kept when `count` occurrences of v go, from the tail when it is negative.
Without(s, v, count) ==
    LET matches == Cardinality({i \in DOMAIN s : s[i] = v})
        gone == IF count = 0 THEN matches ELSE Least(matches, IF count < 0 THEN -count ELSE count)
        seen(i) == Cardinality({j \in 1 .. i : s[j] = v})
        stays(i) == s[i] # v \/ (IF count < 0 THEN seen(i) < matches - gone + 1 ELSE seen(i) > gone)
        kept == {i \in DOMAIN s : stays(i)}
    IN [s |-> [m \in 1 .. Cardinality(kept) |->
                 s[CHOOSE i \in kept : Cardinality({j \in kept : j <= i}) = m]],
        gone |-> gone]
\* The entries s stay, n entries and their bytes go.
Cut(o, s, n, bytes) ==
    IF is_packed(o) THEN replace_compact(o, s)
    ELSE [o EXCEPT !.x = Nodes(s), !.n = @ - n, !.bytes = @ - bytes]
lrem(o, count, v) ==
    LET w == Without(Flat(o), v, count)
    IN IF o.type = "none" \/ w.gone = 0 THEN Out(o, Num(0))
       ELSE Out(IF w.gone = entries(o) THEN NoObj ELSE Cut(o, w.s, w.gone, w.gone * Size(v)),
                Num(w.gone))
ltrim(o, start, stop) ==
    LET r == normalize_range(start, stop, entries(o))
        kept == Slice(o, r.first, r.count)
    IN IF o.type = "none" THEN Out(o, Ok)
       ELSE IF r.count = 0 THEN Out(NoObj, Ok)
       ELSE IF r.count = entries(o) THEN Out(o, Ok)
       ELSE Out(Cut(o, kept, entries(o) - r.count, payload(o) - payload_bytes(kept)), Ok)

\* rank counts from the tail when it is negative; maxlen 0 means no bound, and so does count 0;
\* count -1: the option was not given.
Positions(s, v, rank, count, maxlen) ==
    LET n == Len(s)
        walk == [i \in 1 .. (IF maxlen = 0 THEN n ELSE Least(maxlen, n)) |->
                   IF rank < 0 THEN n - i ELSE i - 1]
        hits == SelectSeq(walk, LAMBDA i : s[i + 1] = v)
        from == IF rank < 0 THEN -rank ELSE rank
        found == SubSeq(hits, from, Len(hits))
    IN IF count \in {0, -1} THEN found ELSE SubSeq(found, 1, Least(count, Len(found)))
lpos(o, v, rank, count, maxlen) ==
    LET found == Positions(Flat(o), v, rank, count, maxlen)
    IN Out(o, IF count # -1 THEN Bulks(found) ELSE IF found = <<>> THEN Nil ELSE Num(found[1]))

---------------------------------------------------------------------------
(* Hops of commands that span shards, and the snapshot *)

\* The element a move chose may have left the edge meanwhile: the nearest one like it goes.
xshard_remove_list_element(o, left, v) ==
    IF o.type = "none" \/ v \notin {Flat(o)[i] : i \in 1 .. entries(o)} THEN Out(o, Nil)
    ELSE IF Edge(o, left) = v THEN Out(OrErased(Shrunk(o, left)), Ok)
    ELSE Out(OrErased(Cut(o, Without(Flat(o), v, IF left THEN 1 ELSE -1).s, 1, Size(v))), Ok)
xshard_pop_list(o, left, count) ==
    IF o.type = "none" THEN Out(o, Nil)
    ELSE LET p == Popped(o, left, count) IN Out(OrErased(p.o), Bulks(p.s))
xshard_push_list_element(o, left, v) ==
    Out(IF o.type = "none" THEN NewList(<<v>>, left)
        ELSE GrownFrom(o, <<v>>, left), Ok)
list_snapshot_load(s, d) == [NewList(s, FALSE) EXCEPT !.d = d, !.slot = d >= 0]
=============================================================================
