------------------------------ MODULE Compact ------------------------------
(***************************************************************************)
(* The packed container behind small collections and list nodes (Compact   *)
(* in store/typeval.h): entries one after the other in a byte buffer with  *)
(* room at both ends, and a circular index of their offsets that exists    *)
(* only once the container has grown past kIndexCutover entries.           *)
(*                                                                         *)
(* A container is a record:                                                *)
(*   seq      the entries from begin_ to end_                              *)
(*   begin    begin_;  cap: the bytes of data_                             *)
(*   off      offsets_, <<>> while there is no index;  head: offset_head_  *)
(* An entry is the number that stands for its bytes.                       *)
(***************************************************************************)
EXTENDS Integers, Sequences, FiniteSets, SequencesExt

CONSTANTS
    Size(_),       \* payload length of an entry
    Wide,          \* 0x80: a payload of this length takes two length bytes
    IndexCutover,  \* kIndexCutover
    FirstBytes,    \* 32: the first allocation
    Grain          \* good_size rounds up to a multiple of this

Least(m, n) == IF m < n THEN m ELSE n
Most(m, n) == IF m < n THEN n ELSE m
good_size(n) == ((n + Grain - 1) \div Grain) * Grain
varint_size(n) == IF n < Wide THEN 1 ELSE 2
Span(v) == varint_size(Size(v)) + Size(v)
encoded_bytes(s) == FoldLeft(LAMBDA n, v : n + Span(v), 0, s)
payload_bytes(s) == FoldLeft(LAMBDA n, v : n + Size(v), 0, s)

NoCompact == [seq |-> <<>>, begin |-> 0, cap |-> 0, off |-> <<>>, head |-> 0]
Entries(c) == Len(c.seq)
Offset(c, i) == c.begin + encoded_bytes(SubSeq(c.seq, 1, i))   \* where entry i really starts
End(c) == Offset(c, Entries(c))

---------------------------------------------------------------------------
(* The offset index *)

indexed(c) == c.off # <<>>
offset_slot(c, i) == ((c.head + i) % Len(c.off)) + 1
offset_at(c, i) == c.off[offset_slot(c, i)]
\* offset_set for every index of I, from the offsets as they were.
offset_set(c, I, new(_)) ==
    IF indexed(c)
    THEN [c EXCEPT !.off = [p \in DOMAIN @ |->
             LET i == (p - 1 - c.head) % Len(c.off) IN IF i \in I THEN new(i) ELSE @[p]]]
    ELSE c

ensure_offset_space(c, n) ==
    IF n <= (IF indexed(c) THEN Len(c.off) ELSE IndexCutover) THEN c
    ELSE LET wanted == good_size(Most(n, (Len(c.off) * 3) \div 2))
             known(i) == IF indexed(c) THEN offset_at(c, i) ELSE Offset(c, i)
         IN [c EXCEPT !.head = 0,
                      !.off = [p \in 1 .. wanted |-> IF p <= Entries(c) THEN known(p - 1) ELSE 0]]

\* The buffer is recentred, in place when it is large enough, and the index follows.
Recentred(c, shift, cap) ==
    [offset_set(c, 0 .. Entries(c) - 1, LAMBDA i : offset_at(c, i) + shift)
       EXCEPT !.begin = @ + shift, !.cap = cap]
wanted_bytes(cap, required) ==
    IF cap >= required THEN cap
    ELSE good_size(Most(required, IF cap = 0 THEN FirstBytes ELSE (cap * 3) \div 2))
Centre(wanted, active, front, back) ==
    IF wanted - active - Most((wanted - active) \div 2, front) < back THEN wanted - active - back
    ELSE Most((wanted - active) \div 2, front)
Respaced(c, wanted, active, front, back) ==
    Recentred(c, Centre(wanted, active, front, back) - c.begin, wanted)
ensure_space(c, front, back) ==
    IF front <= c.begin /\ End(c) + back <= c.cap THEN c
    ELSE Respaced(c, wanted_bytes(c.cap, End(c) - c.begin + front + back), End(c) - c.begin, front, back)

Roomy(c, front, back) == ensure_offset_space(ensure_space(c, front, back), Entries(c) + 1)

---------------------------------------------------------------------------
(* Reading *)

Garbage == 0       \* what a read at an offset that starts no entry yields: not a value
Decoded(c, offset) ==
    LET hits == {i \in 0 .. Entries(c) - 1 : Offset(c, i) = offset}
    IN IF hits = {} THEN Garbage ELSE c.seq[(CHOOSE i \in hits : TRUE) + 1]
at(c, i) == Decoded(c, IF indexed(c) THEN offset_at(c, i) ELSE Offset(c, i))

\* The index that decode finds for a logical offset: by binary search, or by a walk.
decode_index(c, logical) ==
    IF indexed(c)
    THEN CHOOSE i \in 0 .. Entries(c) - 1 :
            /\ offset_at(c, i) >= c.begin + logical
            /\ \A j \in 0 .. i - 1 : offset_at(c, j) < c.begin + logical
    ELSE CHOOSE i \in 0 .. Entries(c) - 1 : Offset(c, i) = c.begin + logical
logical(c, i) == Offset(c, i) - c.begin

---------------------------------------------------------------------------
(* Changing *)

Appended(r, v) ==
    [offset_set(r, {Entries(r)}, LAMBDA i : End(r)) EXCEPT !.seq = Append(@, v)]
append(c, v) == Appended(Roomy(c, 0, Span(v)), v)

Prepended(r, v, head, begin) ==
    [r EXCEPT !.seq = <<v>> \o @, !.begin = begin, !.head = IF indexed(r) THEN head ELSE @,
              !.off = IF indexed(r) THEN [@ EXCEPT ![head + 1] = begin] ELSE @]
Before(r, v) == Prepended(r, v, IF r.head = 0 THEN Len(r.off) - 1 ELSE r.head - 1, r.begin - Span(v))
prepend(c, v) == Before(Roomy(c, Span(v), 0), v)

\* Before the entry at a logical offset: the suffix moves, and so do its offsets.
InsertedAt(r, k, v) ==
    [offset_set(r, k .. Entries(r),
                LAMBDA i : IF i = k THEN offset_at(r, k) ELSE offset_at(r, i - 1) + Span(v))
       EXCEPT !.seq = InsertAt(@, k + 1, v)]
insert(c, offset, v) ==
    IF offset = End(c) - c.begin THEN append(c, v)
    ELSE InsertedAt(Roomy(c, 0, Span(v)), decode_index(c, offset), v)

ReplacedAt(r, k, v, delta) ==
    [offset_set(r, k + 1 .. Entries(r) - 1, LAMBDA i : offset_at(r, i) + delta) EXCEPT !.seq[k + 1] = v]
replace(c, k, v) ==
    ReplacedAt(ensure_space(c, 0, Most(Span(v) - Span(c.seq[k + 1]), 0)), k, v,
               Span(v) - Span(c.seq[k + 1]))

erase(c, k) ==
    LET slid(i) == offset_at(c, i + 1) - Span(c.seq[k + 1])
    IN [offset_set(c, k .. Entries(c) - 2, slid) EXCEPT !.seq = RemoveAt(@, k + 1)]

\* An emptied container starts again where it ended.
settled(c, end) == IF c.seq = <<>> THEN [c EXCEPT !.begin = end] ELSE c

pop_front(c) ==
    settled([c EXCEPT !.seq = Tail(@), !.begin = @ + Span(c.seq[1]),
                      !.head = IF indexed(c) THEN (@ + 1) % Len(c.off) ELSE @], End(c))
\* end_ becomes the offset the last entry was found at.
pop_back(c) == settled([c EXCEPT !.seq = Front(@)], c.begin)

RangeErased(c, k, gone, bytes) ==
    settled([offset_set(c, k .. Entries(c) - gone - 1, LAMBDA i : offset_at(c, i + gone) - bytes)
                EXCEPT !.seq = SubSeq(@, 1, k) \o SubSeq(@, k + gone + 1, Len(@))],
            c.begin)
erase_range(c, first, last) ==
    IF first = last THEN c
    ELSE RangeErased(c, decode_index(c, first),
                     Cardinality({i \in 0 .. Entries(c) - 1 : logical(c, i) \in first .. last - 1}),
                     last - first)

\* A container built from its entries, as rebuilds and copies do.
Packed(s) == FoldLeft(append, NoCompact, s)

\* Buffer and index agree with the entries.
WellPacked(c) ==
    /\ 0 <= c.begin /\ End(c) <= c.cap
    /\ indexed(c) => /\ Entries(c) <= Len(c.off)
                     /\ c.head \in 0 .. Len(c.off) - 1
                     /\ \A i \in 0 .. Entries(c) - 1 : offset_at(c, i) = Offset(c, i)
=============================================================================
