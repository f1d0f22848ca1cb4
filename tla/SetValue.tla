------------------------------ MODULE SetValue ------------------------------
(***************************************************************************)
(* Sets (cmd/t_set.cc).  A packed set holds integers in binary, sorted and *)
(* all of one width, or members as text in order of arrival; an expanded   *)
(* one is an open-addressing table (SetMemberTable), here                  *)
(*   slots   the member in every slot, NoMember or Tomb                    *)
(*   pos     dense_pos of every live slot                                  *)
(*   live    live_slots_, the live slots in a dense array                  *)
(*   tombs, gen   tombs_ and generation_                                   *)
(* aux: int, whether a packed set is of integers; w, their width; max,     *)
(* max_member_bytes.                                                       *)
(***************************************************************************)
EXTENDS CollectionRef

CONSTANTS SetEntries, SetMaxValue,  \* TypeLimits::set
          IntsetMax,                \* kIntsetMaxEntries
          TableMin,                 \* 8: the smallest table
          IsInt(_), Less(_, _),     \* members that are integers, and their order
          WidthFor(_),              \* 2, 4 or 8
          Bin(_, _), Unbin(_)       \* the entry of an integer in binary, and back

NewAux == [int |-> TRUE, w |-> 2, max |-> 0]
NewSet == Obj("set", NoCompact, NewAux)

---------------------------------------------------------------------------
(* SetMemberTable *)

NoTable == [slots |-> <<>>, pos |-> <<>>, live |-> <<>>, tombs |-> 0, gen |-> 1]

capacity_for(n) == CHOOSE k \in {TableMin * m : m \in {1, 2, 4, 8}} :
                     /\ n * 10 < k * 7
                     /\ k > TableMin => n * 10 >= (k \div 2) * 7

PlacedAt(t, v, i) ==
    [t EXCEPT !.slots[i] = v, !.pos[i] = Len(t.live), !.live = Append(@, i),
              !.tombs = IF t.slots[i] = Tomb THEN @ - 1 ELSE @]
Placed(t, v) == PlacedAt(t, v, find_insert_slot(t.slots, v))
rehash(t, cap) ==
    FoldLeft(LAMBDA u, i : Placed(u, t.slots[i]),
             [slots |-> Blank(cap), pos |-> [i \in 0 .. cap - 1 |-> 0], live |-> <<>>, tombs |-> 0,
              gen |-> t.gen + 1],
             t.live)
reserve(t, n) == IF SlotCount(t.slots) < capacity_for(n) THEN rehash(t, capacity_for(n)) ELSE t

Roomier(t, cap) ==
    IF cap = 0 THEN rehash(t, TableMin)
    ELSE IF (Len(t.live) + t.tombs + 1) * 10 < cap * 7 THEN t
    ELSE rehash(t, IF (Len(t.live) + 1) * 2 < cap THEN cap ELSE cap * 2)
ensure_insert_capacity(t) == Roomier(t, SlotCount(t.slots))
table_insert(t, v) == IF find(t.slots, v) # {} THEN t ELSE Placed(ensure_insert_capacity(t), v)

\* The last of the dense array takes the place of the erased one.
erase_at(t, i) ==
    [t EXCEPT !.pos = [@ EXCEPT ![Last(t.live)] = t.pos[i], ![i] = 0],
              !.live = Front([@ EXCEPT ![t.pos[i] + 1] = Last(t.live)]),
              !.slots[i] = Tomb, !.tombs = @ + 1]

---------------------------------------------------------------------------
(* Members *)

integer_at(o, i) == Unbin(at(o.c, i))
Integers_(o) == [i \in 1 .. Entries(o.c) |-> integer_at(o, i - 1)]
integer_search(o, v) == Cardinality({i \in DOMAIN Integers_(o) : Less(Integers_(o)[i], v)})

\* In the order of for_each_member.
Members(o) ==
    IF ~is_packed(o)
    THEN SelectSeq([i \in 1 .. SlotCount(o.x.slots) |-> o.x.slots[i - 1]],
                   LAMBDA v : v \notin {NoMember, Tomb})
    ELSE IF o.aux.int THEN Integers_(o) ELSE o.c.seq
\* In the order of with_member_at.
MemberAt(o, i) ==
    IF ~is_packed(o) THEN o.x.slots[o.x.live[i + 1]]
    ELSE IF o.aux.int THEN integer_at(o, i) ELSE at(o.c, i)

contains_member(o, v) ==
    IF ~is_packed(o) THEN find(o.x.slots, v) # {}
    ELSE IF ~o.aux.int THEN v \in {o.c.seq[i] : i \in DOMAIN o.c.seq}
    ELSE /\ IsInt(v) /\ integer_search(o, v) < Entries(o.c)
         /\ integer_at(o, integer_search(o, v)) = v

Widened(o, s, w) ==
    [replace_compact(o, [i \in DOMAIN s |-> Bin(s[i], w)]) EXCEPT !.aux.w = w]
insert_integer_compact(o, v, k) ==
    IF WidthFor(v) <= o.aux.w THEN ref_insert(o, k, Bin(v, o.aux.w))
    ELSE Widened(o, InsertAt(Integers_(o), k + 1, v), WidthFor(v))
convert_integer_to_generic_with(o, v) ==
    [replace_compact(o, Append(Integers_(o), v)) EXCEPT !.aux.int = FALSE]
promote_to_table(o, n) ==
    [promote(o, FoldLeft(table_insert, reserve(NoTable, n), Members(o)), entries(o),
             payload_bytes(Members(o))) EXCEPT !.aux.int = FALSE]

Longer(o, v) == [o EXCEPT !.aux.max = Most(@, Size(v))]
add_to_table(o, v) ==
    IF find(o.x.slots, v) # {} THEN o
    ELSE Longer([o EXCEPT !.x = table_insert(@, v), !.n = @ + 1, !.bytes = @ + Size(v)], v)
compact_fits(n, max) == n <= SetEntries /\ max <= SetMaxValue

\* Whether the packed set can take v without becoming a table.
StaysSmall(o, v) ==
    IF o.aux.int /\ IsInt(v) THEN entries(o) < IntsetMax
    ELSE compact_fits(entries(o) + 1, IF o.aux.int THEN Most(o.aux.max, Size(v)) ELSE Size(v))
AddPacked(o, v) ==
    Longer(IF ~o.aux.int THEN ref_append(o, v)
           ELSE IF IsInt(v) THEN insert_integer_compact(o, v, integer_search(o, v))
           ELSE convert_integer_to_generic_with(o, v), v)
add_member(o, v) ==
    IF is_packed(o) /\ contains_member(o, v) THEN o
    ELSE IF is_packed(o) /\ StaysSmall(o, v) THEN AddPacked(o, v)
    ELSE add_to_table(IF is_packed(o) THEN promote_to_table(o, entries(o) + 1) ELSE o, v)

remove_member(o, v) ==
    IF ~contains_member(o, v) THEN o
    ELSE IF ~is_packed(o)
         THEN [o EXCEPT !.x = erase_at(@, CHOOSE i \in find(@.slots, v) : TRUE), !.n = @ - 1,
                        !.bytes = @ - Size(v)]
    ELSE ref_erase(o, IF o.aux.int THEN integer_search(o, v)
                      ELSE (CHOOSE i \in DOMAIN o.c.seq : o.c.seq[i] = v) - 1)

---------------------------------------------------------------------------
(* Commands *)

\* An embedded set stays embedded only if everything the arguments may need on the way, in
\* binary before the first text and as text after it, fits.
ensure_set_add_capacity(o, s) ==
    LET texts == {i \in DOMAIN s : ~IsInt(s[i])}
        generic == ~o.aux.int \/ texts # {}
        prefix == IF ~o.aux.int THEN 0
                  ELSE IF texts = {} THEN Len(s) ELSE (CHOOSE i \in texts : \A j \in texts : i <= j) - 1
        ints(n) == {WidthFor(s[i]) : i \in (1 .. n) \ texts} \cup {o.aux.w}
        width(n) == CHOOSE w \in ints(n) : \A u \in ints(n) : u <= w
        sizes == {Size(s[i]) : i \in DOMAIN s} \cup {o.aux.max}
        peak(n) == (entries(o) + n) * (width(n) + 1)
        projected == IF generic THEN encoded_bytes(Members(o)) + encoded_bytes(s) ELSE peak(Len(s))
        fits == /\ \A n \in 1 .. prefix : embedded_bytes_fit(o, peak(n))
                /\ embedded_bytes_fit(o, projected)
                /\ entries(o) + Len(s) <= (IF generic THEN SetEntries ELSE IntsetMax)
                /\ generic => \A n \in sizes : n <= SetMaxValue
                /\ o.aux.int => entries(o) + prefix <= IntsetMax
    IN IF is_embedded(o) /\ ~fits THEN externalize(o) ELSE o

\* The number of arguments is a hint that may promote before a duplicate is looked for.
PromotedBy(o, n, promotes) == IF promotes THEN promote_to_table(o, n) ELSE o
Hinted(o, s) ==
    IF o.type = "none"
    THEN PromotedBy([NewSet EXCEPT !.aux.int = IsInt(s[1])], Len(s),
                    IF IsInt(s[1]) THEN Len(s) > IntsetMax
                    ELSE Len(s) > SetEntries \/ Size(s[1]) > SetMaxValue)
    ELSE PromotedBy(o, Most(entries(o), Len(s)),
                    is_packed(o) /\ Len(s) > (IF o.aux.int THEN IntsetMax ELSE SetEntries))

Added(o, before, after) ==
    Out(IF o.type = "none" THEN adopt(after) ELSE after, Num(entries(after) - entries(before)))
SaddTo(o, before, s) == Added(o, before, FoldLeft(add_member, before, s))
sadd(o, s) == SaddTo(o, Hinted(IF o.type = "none" THEN o ELSE ensure_set_add_capacity(o, s), s), s)
srem(o, s) ==
    IF o.type = "none" THEN Out(o, Num(0))
    ELSE LET after == FoldLeft(remove_member, o, s)
         IN Out(OrErased(after), Num(entries(o) - entries(after)))
smismember(o, s) ==
    Out(o, Bulks([i \in DOMAIN s |-> IF o.type # "none" /\ contains_member(o, s[i]) THEN 1 ELSE 0]))
scard(o) == Out(o, Num(entries(o)))
smembers(o) == Out(o, Bulks(IF o.type = "none" THEN <<>> ELSE Members(o)))

\* One random pop from the table after another.
PopsOf(p) ==
    {LET v == p.o.x.slots[i]
     IN [o |-> [p.o EXCEPT !.x = erase_at(@, i), !.n = @ - 1, !.bytes = @ - Size(v)],
         s |-> Append(p.s, v)] : i \in ToSet(p.o.x.live)}
\* count -1: no count was given.  A partial pop expands the set first.
spop(o, count) ==
    LET n == IF count = -1 THEN 1 ELSE count
        reply(s) == IF count = -1 THEN Bulk(s[1]) ELSE Bulks(s)
        table == LET e == externalize(o) IN IF is_packed(e) THEN promote_to_table(e, entries(o)) ELSE e
    IN IF o.type = "none" THEN {Out(o, IF count = -1 THEN Nil ELSE Bulks(<<>>))}
       ELSE IF n = 0 THEN {Out(o, Bulks(<<>>))}
       ELSE IF n >= entries(o) THEN {Out(NoObj, reply(Members(o)))}
       ELSE {Out(p.o, reply(p.s)) :
               p \in FoldLeft(LAMBDA P, i : UNION {PopsOf(p) : p \in P},
                              {[o |-> table, s |-> <<>>]}, [i \in 1 .. n |-> i])}

\* Floyd's selection: the picks for j are at random among 0..j, or j itself.
select_unique(n, count) ==
    FoldLeft(LAMBDA P, j : UNION {{Append(p, IF r \in ToSet(p) THEN j ELSE r) : r \in 0 .. j} : p \in P},
             {<<>>}, [i \in 1 .. count |-> n - count + i - 1])
srandmember(o, count) ==
    LET n == entries(o)
        picked(p) == Out(o, Bulks([i \in DOMAIN p |-> MemberAt(o, p[i])]))
    IN IF o.type = "none" THEN {Out(o, IF count = 0 THEN Nil ELSE Bulks(<<>>))}
       ELSE IF count < 0 THEN {picked(p) : p \in [1 .. -count -> 0 .. n - 1]}
       ELSE IF count >= n THEN {Out(o, Bulks(Members(o)))}
       ELSE {picked(p) : p \in select_unique(n, count)}

\* Where a scan goes on: from the cursor's slot unless the table was rebuilt since.
ScanFrom(t, cursor) == IF cursor.gen = t.gen /\ cursor.at < SlotCount(t.slots) THEN cursor.at ELSE 0
\* One call goes on until it has met count members or the table ends.
NoCursor == [gen |-> 0, at |-> 0]
ScanEnd(slots, from, count) ==
    LET ends == {i \in from .. SlotCount(slots) - 1 :
                   i = SlotCount(slots) - 1 \/ Cardinality(Occupied(slots) \cap (from .. i)) = count}
    IN CHOOSE i \in ends : \A j \in ends : i <= j
ScanCall(t, from, last) ==
    [seen |-> {t.slots[i] : i \in Occupied(t.slots) \cap (from .. last)},
     cursor |-> IF last + 1 = SlotCount(t.slots) THEN NoCursor ELSE [gen |-> t.gen, at |-> last + 1]]
sscan(o, cursor, count) ==
    IF is_packed(o) THEN [seen |-> ToSet(Members(o)), cursor |-> NoCursor]
    ELSE ScanCall(o.x, ScanFrom(o.x, cursor),
                  ScanEnd(o.x.slots, ScanFrom(o.x, cursor), count))

xshard_insert_set_element(o, v) ==
    Out(IF o.type = "none" THEN adopt(add_member(Hinted(o, <<v>>), v))
        ELSE IF contains_member(o, v) THEN o ELSE add_member(externalize(o), v), Ok)
xshard_remove_set_element(o, v) ==
    IF o.type = "none" \/ ~contains_member(o, v) THEN Out(o, Nil) ELSE Out(OrErased(remove_member(o, v)), Ok)
set_snapshot_load(s, d) == [adopt(FoldLeft(add_member, NewSet, s)) EXCEPT !.d = d, !.slot = d >= 0]
=============================================================================
