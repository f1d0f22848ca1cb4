--------------------------- MODULE CollectionRef ---------------------------
(***************************************************************************)
(* A collection as an object of the keyspace (store/kvobj.h, CompactValue  *)
(* in store/typeval.h).  Small ones are packed: embedded in the object     *)
(* itself, whose allocation leaves them `room` bytes, or in an external    *)
(* Compact; the others are expanded into a structure of their type, x,     *)
(* with the counters n and bytes beside it; aux is what else the type      *)
(* keeps.  d is the deadline of the key (-1: none) and slot says whether   *)
(* the object has room for one.                                            *)
(***************************************************************************)
EXTENDS Compact, Replies

CONSTANTS
    EmbedMax,   \* kCollectionEmbedMax
    HashOf(_)   \* the hash that places a member in its table

Obj(type, c, aux) ==
    [type |-> type, form |-> "compact", room |-> 0, c |-> c, x |-> <<>>, aux |-> aux, n |-> 0,
     bytes |-> 0, d |-> -1, slot |-> FALSE]
NoObj == Obj("none", NoCompact, <<>>)
Kept(o, old) == [o EXCEPT !.d = old.d, !.slot = old.slot]

is_embedded(o) == o.form = "embedded"
is_packed(o) == o.form # "expanded"
entries(o) == IF is_packed(o) THEN Entries(o.c) ELSE o.n
payload(o) == IF is_packed(o) THEN payload_bytes(o.c.seq) ELSE o.bytes

\* kvobj_adopt_*: a packed collection that is small enough moves into its object.
adopt(o) ==
    IF is_packed(o) /\ encoded_bytes(o.c.seq) <= EmbedMax
    THEN [o EXCEPT !.form = "embedded", !.c = [NoCompact EXCEPT !.seq = o.c.seq],
                   !.room = Least(good_size(encoded_bytes(o.c.seq)), EmbedMax)]
    ELSE o
embedded_bytes_fit(o, bytes) == is_embedded(o) => bytes <= o.room

\* externalize_*: an embedded collection is replaced by an external one with the same entries,
\* deadline and room for a deadline.
externalize(o) ==
    IF is_embedded(o) THEN [o EXCEPT !.form = "compact", !.c = Packed(o.c.seq), !.room = 0]
    ELSE o

---------------------------------------------------------------------------
(* CompactView: the same operations on embedded bytes, which have no index *)

Plain(o, s) == [o EXCEPT !.c.seq = s]
ref_insert(o, k, v) ==
    IF is_embedded(o) THEN Plain(o, InsertAt(o.c.seq, k + 1, v))
    ELSE [o EXCEPT !.c = insert(@, logical(@, k), v)]
ref_append(o, v) == ref_insert(o, Entries(o.c), v)
ref_prepend(o, v) == ref_insert(o, 0, v)
ref_replace(o, k, v) ==
    IF is_embedded(o) THEN Plain(o, [o.c.seq EXCEPT ![k + 1] = v])
    ELSE [o EXCEPT !.c = replace(@, k, v)]
ref_erase(o, k) ==
    IF is_embedded(o) THEN Plain(o, RemoveAt(o.c.seq, k + 1)) ELSE [o EXCEPT !.c = erase(@, k)]
ref_pop(o, left) ==
    IF is_embedded(o) THEN Plain(o, IF left THEN Tail(o.c.seq) ELSE Front(o.c.seq))
    ELSE [o EXCEPT !.c = IF left THEN pop_front(@) ELSE pop_back(@)]
ref_erase_range(o, j, k) ==
    IF is_embedded(o) THEN Plain(o, SubSeq(o.c.seq, 1, j) \o SubSeq(o.c.seq, k + 1, Entries(o.c)))
    ELSE [o EXCEPT !.c = erase_range(@, logical(@, j), logical(@, k))]
replace_compact(o, s) == IF is_embedded(o) THEN Plain(o, s) ELSE [o EXCEPT !.c = Packed(s)]
\* The entries of a container as cursors read them, by index.
Reads(c) == [i \in 1 .. Entries(c) |-> at(c, i - 1)]

promote(o, x, n, bytes) ==
    [o EXCEPT !.form = "expanded", !.c = NoCompact, !.x = x, !.n = n, !.bytes = bytes]

---------------------------------------------------------------------------
(* What a command leaves: the object, NoObj once the key is erased, and its reply *)

Out(o, r) == [o |-> o, r |-> r]
\* An emptied collection is erased with its key.
OrErased(o) == IF entries(o) = 0 THEN NoObj ELSE o

---------------------------------------------------------------------------
(* Open addressing with linear probing and tombstones, as the member table *)
(* of sets and the field table of hashes do it.  A table is a function     *)
(* from its slots, 0..cap-1, to the key in each, NoMember or Tomb.         *)

NoMember == 0
Tomb == -1
SlotCount(t) == Cardinality(DOMAIN t)
Blank(cap) == [i \in 0 .. cap - 1 |-> NoMember]
Occupied(t) == {i \in DOMAIN t : t[i] \notin {NoMember, Tomb}}
Distance(t, v, i) == (i - HashOf(v)) % SlotCount(t)
\* The slots a probe for v visits: it passes tombstones and stops at a slot never used.
Probed(t, v) ==
    {i \in DOMAIN t : \A e \in DOMAIN t : t[e] = NoMember => Distance(t, v, i) <= Distance(t, v, e)}
\* Where v is, as a set with at most one slot.
find(t, v) == {i \in Probed(t, v) : t[i] = v}
\* A new key takes the first tombstone of the run, or the slot that ends it.
find_insert_slot(t, v) ==
    CHOOSE i \in Probed(t, v) \ Occupied(t) :
        \A j \in Probed(t, v) \ Occupied(t) : Distance(t, v, i) <= Distance(t, v, j)

---------------------------------------------------------------------------
(* Scans with a cursor that counts homes in bit-reversed order *)

\* The highest clear bit is set, those above it are cleared.
Raised(c, clear_bits) ==
    IF clear_bits = {} THEN 0
    ELSE LET b == CHOOSE b \in clear_bits : \A a \in clear_bits : a <= b IN (c % b) + b
scan_cursor_next(c, cap) == Raised(c, {b \in {1, 2, 4, 8, 16} : b < cap /\ (c \div b) % 2 = 0})
\* The fields at home in one of these buckets, wherever they were displaced to.
scan_home(t, homes) == {t[i] : i \in {j \in Occupied(t) : HashOf(t[j]) % SlotCount(t) \in homes}}
\* A home of the smaller table and, from the cursor on, the homes it expands to in the larger.
scan_homes(t, small, c) ==
    {h \in 0 .. SlotCount(t) - 1 : h % small = c % small /\ h >= c % SlotCount(t)}
============================================================================
