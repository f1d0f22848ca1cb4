---------------------------- MODULE StringValue ----------------------------
(***************************************************************************)
(* Strings (cmd/t_string.cc, and the string objects of store/kvobj.h).  A  *)
(* string is an integer (form "int", the number is n), bytes in its object *)
(* ("raw") or bytes beside it ("extern"): c.seq holds the bytes.  room is  *)
(* what was allocated for the bytes and the deadline of a raw one.         *)
(***************************************************************************)
EXTENDS CollectionRef

CONSTANTS EmbedThreshold,   \* kEmbedThreshold
          SlotBytes,        \* the room for a deadline
          MaxBulk           \* proto-max-bulk-len


\* parse_i64 in t_string.cc
WithinLimit(s, limit) ==
    FoldLeft(LAMBDA ok, i : ok /\ IsDigit(s[i])
                            /\ ValueOfDigits(SubSeq(s, 1, i - 1)) <= (limit - (s[i] - 1)) \div 10,
             TRUE, [i \in DOMAIN s |-> i])
IsI64(s) ==
    /\ s # <<>>
    /\ IF s[1] = Minus
       THEN Len(s) > 1 /\ s[2] \in 2 .. 10 /\ WithinLimit(Tail(s), IntLimit + 1)
       ELSE s = <<Digit(0)>> \/ (s[1] \in 2 .. 10 /\ WithinLimit(s, IntLimit))

---------------------------------------------------------------------------
(* String objects *)

request_size(n, slot) == n + IF slot THEN SlotBytes ELSE 0
make_set_int(n, d, reserve) ==
    [Obj("string", NoCompact, <<>>) EXCEPT !.form = "int", !.n = n, !.d = d, !.slot = reserve \/ d >= 0]
make_set_string(s, d, reserve) ==
    [Obj("string", [NoCompact EXCEPT !.seq = s], <<>>)
       EXCEPT !.form = IF Len(s) <= EmbedThreshold THEN "raw" ELSE "extern", !.d = d, !.slot = reserve \/ d >= 0,
              !.room = IF Len(s) <= EmbedThreshold THEN good_size(request_size(Len(s), reserve \/ d >= 0)) ELSE 0]
kvobj_capacity(o) == good_size(request_size(Len(o.c.seq), o.slot))
string_bytes(o) == IF o.form = "int" THEN TextOf(o.n) ELSE o.c.seq
\* The bytes of the string, none when there is no key.
BytesOf(o) == IF o.type = "none" THEN <<>> ELSE string_bytes(o)

\* In place, when old's allocation is of the same size class.
CanOverwrite(old, s) ==
    /\ old.form = "raw" /\ ~old.slot /\ Len(s) <= EmbedThreshold
    /\ good_size(request_size(Len(s), FALSE)) = kvobj_capacity(old)
store_string(old, s, d, integer_encode, reserve) ==
    IF integer_encode /\ IsI64(s) THEN make_set_int(FloatOf(s), d, reserve)
    ELSE IF d < 0 /\ ~reserve /\ CanOverwrite(old, s) THEN [old EXCEPT !.c.seq = s]
    ELSE make_set_string(s, d, reserve)
\* A changed string keeps its deadline and the room for one, and stays text.
Changed(o, s) == store_string(o, s, o.d, FALSE, o.slot)

\* kvobj_reheader: an object without room for a deadline is rebuilt with it.
kvobj_reheader(o, d) ==
    IF o.form \in {"raw", "extern"} THEN make_set_string(o.c.seq, d, o.slot)
    ELSE [o EXCEPT !.d = d, !.slot = TRUE,
                   !.room = IF is_embedded(o) THEN Least(good_size(encoded_bytes(o.c.seq)), EmbedMax) ELSE @]
set_expire(o, d) == IF o.slot THEN [o EXCEPT !.d = d] ELSE kvobj_reheader(o, d)

---------------------------------------------------------------------------
(* SET and its relatives.  An expiry argument is [kind, v]. *)

expiry_at(e, now) ==
    IF e.v <= 0 \/ (e.kind = "in" /\ e.v > IntLimit - now) THEN [ok |-> FALSE, at |-> -1]
    ELSE [ok |-> TRUE, at |-> IF e.kind = "in" THEN e.v + now ELSE e.v]
Elapsed(d, now) == d >= 0 /\ d <= now

SetTo(old, s, get, d, reserve, now) ==
    LET r == IF ~get THEN Ok ELSE IF old.type = "none" THEN Nil ELSE Str(string_bytes(old))
    IN IF Elapsed(d, now) THEN Out(NoObj, r) ELSE Out(store_string(old, s, d, TRUE, reserve), r)
\* w is the condition; keep stands for KEEPTTL, which excludes an expiry.
cmd_set(old, s, w, get, keep, e, now) ==
    LET due == expiry_at(e, now)
        has == old.type # "none"
    IN IF e.kind # "none" /\ ~due.ok THEN Out(old, Err)
       ELSE IF get /\ has /\ old.type # "string" THEN Out(old, Err)
       ELSE IF (w = "nx" /\ has) \/ (w = "xx" /\ ~has)
            THEN Out(old, IF get /\ has THEN Str(string_bytes(old)) ELSE Nil)
       ELSE SetTo(old, s, get, IF keep /\ has THEN old.d ELSE IF e.kind = "none" THEN -1 ELSE due.at,
                  keep /\ has /\ old.slot, now)
cmd_setnx(old, s) ==
    IF old.type # "none" THEN Out(old, Num(0)) ELSE Out(store_string(old, s, -1, TRUE, FALSE), Num(1))
setex_generic(old, s, e, now) ==
    LET due == expiry_at(e, now)
    IN IF due.ok THEN Out(store_string(old, s, due.at, TRUE, FALSE), Ok) ELSE Out(old, Err)
cmd_getset(old, s) ==
    Out(store_string(old, s, -1, TRUE, FALSE), IF old.type = "none" THEN Nil ELSE Str(string_bytes(old)))
cmd_get(o) == Out(o, IF o.type = "none" THEN Nil ELSE Str(string_bytes(o)))
cmd_getdel(o) == Out(NoObj, cmd_get(o).r)
persist(o) == [o EXCEPT !.d = -1]
cmd_getex(o, e, wants_persist, now) ==
    LET due == expiry_at(e, now)
        r == Str(string_bytes(o))
    IN IF o.type = "none" THEN Out(o, Nil)
       ELSE IF e.kind # "none"
            THEN IF ~due.ok THEN Out(o, Err)
                 ELSE IF due.at <= now THEN Out(NoObj, r) ELSE Out(set_expire(o, due.at), r)
       ELSE Out(IF wants_persist THEN persist(o) ELSE o, r)

---------------------------------------------------------------------------
(* Parts of strings *)

cmd_append(o, s) ==
    IF o.type = "none" THEN Out(store_string(o, s, -1, TRUE, FALSE), Num(Len(s)))
    ELSE IF s = <<>> /\ o.form # "int" THEN Out(o, Num(Len(string_bytes(o))))
    ELSE IF Len(string_bytes(o)) + Len(s) > MaxBulk THEN Out(o, Err)
    ELSE Out(Changed(o, string_bytes(o) \o s), Num(Len(string_bytes(o)) + Len(s)))
cmd_strlen(o) == Out(o, Num(Len(BytesOf(o))))

\* The range that two indices name, <<start, end>>, empty when start > end.
Clipped(start, end, total) ==
    <<Most(IF start < 0 THEN total + start ELSE start, 0),
      Least(Most(IF end < 0 THEN total + end ELSE end, 0), total - 1)>>
Backward(start, end) == start < 0 /\ end < 0 /\ start > end
cmd_getrange(o, start, end) ==
    LET s == BytesOf(o)
        r == Clipped(start, end, Len(s))
    IN Out(o, IF Backward(start, end) \/ r[1] > r[2] \/ s = <<>> THEN Str(<<>>)
              ELSE Str(SubSeq(s, r[1] + 1, r[2] + 1)))

Padded(s, n) == s \o [i \in 1 .. n - Len(s) |-> 0]
cmd_setrange(o, offset, s) ==
    LET old == BytesOf(o)
        new == Padded(old, offset + Len(s))
    IN IF offset < 0 THEN Out(o, Err)
       ELSE IF s = <<>> THEN Out(o, Num(Len(old)))
       ELSE IF offset + Len(s) > MaxBulk THEN Out(o, Err)
       ELSE Out(Changed(o, SubSeq(new, 1, offset) \o s \o SubSeq(new, offset + Len(s) + 1, Len(new))),
                Num(Len(new)))

---------------------------------------------------------------------------
(* Bits, the first of a byte being its most significant *)

MaskOf(p) == 2 ^ (ByteBits - 1 - (p % ByteBits))
ByteAt(s, p) == s[p \div ByteBits + 1]
BitAt(s, p) == IF p \div ByteBits < Len(s) THEN (ByteAt(s, p) \div MaskOf(p)) % 2 ELSE 0
cmd_getbit(o, p) == IF p < 0 \/ p \div ByteBits >= MaxBulk THEN Out(o, Err) ELSE Out(o, Num(BitAt(BytesOf(o), p)))
cmd_setbit(o, p, b) ==
    LET old == BytesOf(o)
        new == Padded(old, p \div ByteBits + 1)
        was == BitAt(old, p)
    IN IF p < 0 \/ p \div ByteBits >= MaxBulk THEN Out(o, Err)
       ELSE IF o.type # "none" /\ o.form # "int" /\ Len(new) = Len(old) /\ was = b THEN Out(o, Num(was))
       ELSE Out(Changed(o, [new EXCEPT ![p \div ByteBits + 1] = @ + (b - was) * MaskOf(p)]), Num(was))

popcount(b) == Cardinality({k \in 0 .. ByteBits - 1 : (b \div 2 ^ k) % 2 = 1})
bitmap_popcount(s) == FoldLeft(LAMBDA n, b : n + popcount(b), 0, s)
FirstMasked(b, start) == b % (2 ^ (ByteBits - (start % ByteBits)))
LastMasked(b, end) == b - (b % (2 ^ (ByteBits - 1 - (end % ByteBits))))
BitsIn(s, start, end) ==
    LET first == start \div ByteBits + 1
        last == end \div ByteBits + 1
    IN IF first = last THEN popcount(LastMasked(FirstMasked(s[first], start), end))
       ELSE popcount(FirstMasked(s[first], start)) + bitmap_popcount(SubSeq(s, first + 1, last - 1))
            + popcount(LastMasked(s[last], end))
\* ranged: indices were given; bits: they count bits.
cmd_bitcount(o, ranged, bits, start, end) ==
    LET s == BytesOf(o)
        r == Clipped(start, end, IF bits THEN Len(s) * ByteBits ELSE Len(s))
    IN Out(o, Num(IF ~ranged THEN bitmap_popcount(s)
                  ELSE IF Backward(start, end) \/ r[1] > r[2] THEN 0
                  ELSE IF bits THEN BitsIn(s, r[1], r[2])
                  ELSE bitmap_popcount(SubSeq(s, r[1] + 1, r[2] + 1))))

\* The bits up to a byte boundary, whole bytes, the bits of the last byte.
bitmap_find_bit(s, start, end, b) ==
    LET up == start + ((-start) % ByteBits)
        whole == {y \in 0 .. Len(s) - 1 : up <= y * ByteBits /\ y * ByteBits + ByteBits - 1 <= end}
        down == Most(up, ((end + 1) \div ByteBits) * ByteBits)
        hits(P) == {p \in P : BitAt(s, p) = b}
        other == IF b = 1 THEN 0 ELSE 2 ^ ByteBits - 1
        bytes == {y \in whole : s[y + 1] # other}
        least(P) == CHOOSE p \in P : \A q \in P : p <= q
    IN IF hits(start .. Least(end, up - 1)) # {} THEN least(hits(start .. Least(end, up - 1)))
       ELSE IF bytes # {} THEN least(hits(least(bytes) * ByteBits .. least(bytes) * ByteBits + ByteBits - 1))
       ELSE IF hits(down .. end) # {} THEN least(hits(down .. end))
       ELSE -1
\* start and end: -9 when not given.
NotGiven == -9
cmd_bitpos(o, b, bits, start, end) ==
    LET s == BytesOf(o)
        total == IF bits THEN Len(s) * ByteBits ELSE Len(s)
        r == IF start = NotGiven THEN <<0, Len(s) - 1>>
             ELSE Clipped(start, IF end = NotGiven THEN Len(s) - 1 ELSE end, total)
        found == bitmap_find_bit(s, IF bits THEN r[1] ELSE r[1] * ByteBits,
                                 IF bits THEN r[2] ELSE r[2] * ByteBits + ByteBits - 1, b)
    IN Out(o, Num(IF o.type = "none" THEN -b
                  ELSE IF r[1] > r[2] THEN -1
                  ELSE IF found = -1 /\ b = 0 /\ end = NotGiven THEN Len(s) * ByteBits
                  ELSE found))

---------------------------------------------------------------------------
(* Numbers *)

incr_decr(o, n) ==
    LET old == IF o.type = "none" THEN 0 ELSE IF o.form = "int" THEN o.n ELSE FloatOf(o.c.seq)
    IN IF o.type # "none" /\ o.form # "int" /\ ~IsI64(o.c.seq) THEN Out(o, Err)
       ELSE IF old + n > IntLimit \/ old + n < -IntLimit - 1 THEN Out(o, Err)
       ELSE Out(make_set_int(old + n, o.d, o.slot), Num(old + n))
cmd_decrby(o, n) == IF n = -IntLimit - 1 THEN Out(o, Err) ELSE incr_decr(o, -n)
cmd_incrbyfloat(o, n) ==
    LET old == IF o.type = "none" THEN 0 ELSE IF o.form = "int" THEN o.n ELSE FloatOf(o.c.seq)
    IN IF o.type # "none" /\ o.form # "int" /\ ~IsFloat(o.c.seq) THEN Out(o, Err)
       ELSE Out(Changed(o, TextOf(old + n)), Str(TextOf(old + n)))

string_snapshot_load(enc, s, d) == IF enc = "int" THEN make_set_int(s, d, FALSE) ELSE make_set_string(s, d, FALSE)

---------------------------------------------------------------------------
(* Deadlines of keys of any type *)

expire_generic(o, e, w, now) ==
    LET when == IF e.kind = "in" THEN e.v + now ELSE e.v
    IN IF e.kind = "in" /\ e.v > IntLimit - now THEN Out(o, Err)
       ELSE IF \/ o.type = "none"
               \/ w = "nx" /\ o.d >= 0
               \/ w \in {"xx", "xxgt", "xxlt"} /\ o.d < 0
               \/ w \in {"gt", "xxgt"} /\ (o.d < 0 \/ when <= o.d)
               \/ w \in {"lt", "xxlt"} /\ o.d >= 0 /\ when >= o.d
            THEN Out(o, Num(0))
       ELSE IF when <= now THEN Out(NoObj, Num(1))
       ELSE Out(set_expire(o, when), Num(1))
ttl_generic(o, absolute, now) ==
    Out(o, Num(IF o.type = "none" THEN -2 ELSE IF o.d < 0 THEN -1
               ELSE IF absolute THEN o.d ELSE Most(o.d - now, 0)))
cmd_persist(o) ==
    IF o.type = "none" \/ o.d < 0 THEN Out(o, Num(0)) ELSE Out(persist(o), Num(1))
=============================================================================
