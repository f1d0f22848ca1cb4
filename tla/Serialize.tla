----------------------------- MODULE Serialize -----------------------------
(***************************************************************************)
(* Saved forms of a value (cmd/serialize.cc).  A native image is what the  *)
(* snapshot hooks write and load: [type, enc, items].  A payload is an RDB *)
(* value, [rdb, min, count, body], sealed with a version and a checksum.   *)
(* The body holds RDB strings: plain, an integer, or LZF runs.  Redis has  *)
(* more forms of a value than DUMP writes here, and RESTORE reads them.    *)
(* A checksum is a copy of what it sums: none collide.                     *)
(***************************************************************************)
EXTENDS ListValue, SetValue, HashValue, ZsetValue, StringValue

CONSTANTS RdbVersion, MaxFreq   \* kRdbVersion, and the largest FREQ

---------------------------------------------------------------------------
(* Native images *)

Image(type, enc, items) == [type |-> type, enc |-> enc, items |-> items]
NoImage == Image("none", 0, <<>>)
snapshot_image(o) ==
    CASE o.type = "string" -> IF o.form = "int" THEN Image("string", "int", o.n) ELSE Image("string", "raw", o.c.seq)
      [] o.type = "list" -> Image("list", 0, Flat(o))
      [] o.type = "set" -> Image("set", 0, Members(o))
      [] o.type = "hash" -> Image("hash", IF o.aux.ttl.on THEN 1 ELSE 0, hash_snapshot_read(o))
      [] o.type = "zset" -> Image("zset", 0, Items(o))
\* The objects the load hook may build with the deadline d, none when the image is corrupt.
snapshot_load(m, d, now, ls) ==
    CASE m.type = "string" -> {string_snapshot_load(m.enc, m.items, d)}
      [] m.type = "list" -> {list_snapshot_load(m.items, d)}
      [] m.type = "set" -> {set_snapshot_load(m.items, d)}
      [] m.type = "hash" -> {hash_snapshot_load(m.items, d, now)}
      [] m.type = "zset" -> zset_snapshot_load(m.items, d, ls)

---------------------------------------------------------------------------
(* RDB strings, which the values of a string and the elements of a collection both are *)

Text(v) == [enc |-> "plain", v |-> v, n |-> 0]
AllTexts(s) == [i \in DOMAIN s |-> Text(s[i])]

\* Runs of literals, and references offset + 1 bytes back that may overlap what they write.
lzf_step(out, run, n) ==
    IF ~out.ok THEN out
    ELSE IF run.lit # <<>> THEN [s |-> out.s \o run.lit, ok |-> Len(out.s) + Len(run.lit) <= n]
    ELSE IF run.offset + 1 > Len(out.s) \/ run.length > n - Len(out.s) THEN [out EXCEPT !.ok = FALSE]
    ELSE [out EXCEPT !.s = FoldLeft(LAMBDA s, k : Append(s, s[Len(s) - run.offset]), @, [k \in 1 .. run.length |-> k])]
lzf_decompress(runs, n) == FoldLeft(LAMBDA out, run : lzf_step(out, run, n), [s |-> <<>>, ok |-> TRUE], runs)

\* The text of an integer: bytes in a string, one element in a collection.
read_rdb_string(r, assign_integer(_)) ==
    CASE r.enc = "plain" -> [ok |-> TRUE, s |-> r.v]
      [] r.enc = "int" -> [ok |-> TRUE, s |-> assign_integer(r.v)]
      [] r.enc = "lzf" -> LET out == lzf_decompress(r.v, r.n) IN [ok |-> out.ok /\ Len(out.s) = r.n, s |-> out.s]
Element(r) == read_rdb_string(r, Unbin).s
ElementsOf(rs) == [i \in DOMAIN rs |-> Element(rs[i])]

---------------------------------------------------------------------------
(* Encoding *)

Rdb(type, min, body) == [rdb |-> type, min |-> min, count |-> Len(body), body |-> body]
DeadlinesIn(items) == {items[i].at : i \in DOMAIN items} \ {-1}
\* One minimum, and for each field how far its deadline is after it: 0 is none.
encode_metadata(items) ==
    LET min == Min(DeadlinesIn(items))
    IN Rdb("hash metadata", min,
           [i \in DOMAIN items |-> [delta |-> IF items[i].at < 0 THEN 0 ELSE items[i].at - min + 1,
                                    f |-> Text(items[i].f), v |-> Text(items[i].v)]])
PairStrings(items) ==
    FoldLeft(LAMBDA s, p : s \o <<Text(p.f), Text(p.v)>>, <<>>, items)
encode_rdb_value(o) ==
    LET m == snapshot_image(o)
    IN CASE m.type = "string" -> Rdb("string", 0, <<Text(IF m.enc = "int" THEN TextOf(m.items) ELSE m.items)>>)
         [] m.type = "hash" /\ m.enc = 1 -> encode_metadata(m.items)
         [] m.type = "hash" -> [Rdb("hash", 0, PairStrings(m.items)) EXCEPT !.count = Len(m.items)]
         [] m.type = "zset" -> Rdb("zset2", 0, [i \in DOMAIN m.items |-> [m |-> Text(MemberOf(m.items[i])),
                                                                          score |-> ScoreOf(m.items[i])]])
         [] OTHER -> Rdb(m.type, 0, AllTexts(m.items))

Sum(p, version) == <<p, version>>
Seal(p, version) == [p |-> p, version |-> version, crc |-> Sum(p, version)]
verify_dump_payload(e) == e.version <= RdbVersion /\ e.crc = Sum(e.p, e.version)

---------------------------------------------------------------------------
(* Decoding.  NoImage: bad data *)

Checked(ok, m) == IF ok THEN m ELSE NoImage
\* A listpack: its entries, and how many it announces (-1: too many to say).
decode_listpack(lp) ==
    [ok |-> lp.announced \in {-1, Len(lp.entries)} /\ lp.entries # <<>>, s |-> ElementsOf(lp.entries)]
InGroupsOf(s, k, make(_)) == [i \in 1 .. Len(s) \div k |-> make(SubSeq(s, k * (i - 1) + 1, k * i))]
FieldPairs(s) == InGroupsOf(s, 2, LAMBDA t : FieldUntil(t[1], t[2], -1))

decode_plain_sequence(type, p) ==
    Checked(p.count # 0 /\ Len(p.body) = p.count * (IF type = "hash" THEN 2 ELSE 1),
            Image(type, 0, IF type = "hash" THEN FieldPairs(ElementsOf(p.body)) ELSE ElementsOf(p.body)))
\* decode_binary_zset and decode_legacy_zset: scores in eight bytes, or as text
decode_zset(p) ==
    Checked(p.count # 0 /\ Len(p.body) = p.count,
            Image("zset", 0, [i \in DOMAIN p.body |-> Scored(Element(p.body[i].m), p.body[i].score)]))
decode_hash_metadata(p) ==
    Checked(/\ p.count # 0 /\ Len(p.body) = p.count
            /\ \A i \in DOMAIN p.body : p.body[i].delta - 1 <= IntLimit - p.min,
            Image("hash", 1, [i \in DOMAIN p.body |->
                                FieldUntil(Element(p.body[i].f), Element(p.body[i].v),
                                           IF p.body[i].delta = 0 THEN -1 ELSE p.min + p.body[i].delta - 1)]))
\* The entries are triplets; the minimum before them must be theirs.
decode_hash_listpack_ex(p) ==
    LET lp == decode_listpack(p.body)
        items == InGroupsOf(lp.s, 3, LAMBDA t : FieldUntil(t[1], t[2], IF t[3] = 0 THEN -1 ELSE t[3]))
    IN IF lp.ok /\ Len(lp.s) % 3 = 0 THEN Checked(DeadlinesIn(items) # {} /\ p.min = Min(DeadlinesIn(items)), Image("hash", 1, items))
       ELSE NoImage
decode_intset(p) ==
    Checked(p.body.ints # <<>> /\ p.body.width \in {2, 4, 8}, Image("set", 0, [i \in DOMAIN p.body.ints |-> Unbin(p.body.ints[i])]))
decode_listpack_value(type, p) ==
    LET lp == decode_listpack(p.body)
        items == CASE type = "hash" -> FieldPairs(lp.s)
                   [] type = "zset" -> InGroupsOf(lp.s, 2, LAMBDA t : Scored(t[1], t[2]))
                   [] OTHER -> lp.s
    IN Checked(lp.ok /\ (type = "set" \/ Len(lp.s) % 2 = 0), Image(type, 0, items))
\* Nodes of one plain element or of a listpack
decode_quicklist2(p) ==
    LET values(node) == IF node.container = 1 THEN <<Element(node.v)>> ELSE decode_listpack(node.v).s
        ok(node) == node.container = 1 \/ (node.container = 2 /\ decode_listpack(node.v).ok)
    IN Checked(p.body # <<>> /\ \A i \in DOMAIN p.body : ok(p.body[i]),
               Image("list", 0, FoldLeft(LAMBDA s, node : s \o values(node), <<>>, p.body)))
decode_rdb_value(p) ==
    CASE p.rdb = "string" -> LET r == read_rdb_string(p.body[1], TextOf) IN Checked(r.ok, Image("string", "raw", r.s))
      [] p.rdb = "hash metadata" -> decode_hash_metadata(p)
      [] p.rdb = "hash listpack ex" -> decode_hash_listpack_ex(p)
      [] p.rdb \in {"list", "set", "hash"} -> decode_plain_sequence(p.rdb, p)
      [] p.rdb \in {"zset2", "zset"} -> decode_zset(p)
      [] p.rdb = "set intset" -> decode_intset(p)
      [] p.rdb = "hash listpack" -> decode_listpack_value("hash", p)
      [] p.rdb = "zset listpack" -> decode_listpack_value("zset", p)
      [] p.rdb = "set listpack" -> decode_listpack_value("set", p)
      [] p.rdb = "quicklist2" -> decode_quicklist2(p)
      [] OTHER -> NoImage

---------------------------------------------------------------------------
(* DUMP and RESTORE *)

\* Nil for no key, an error for a stream, else the sealed payload.
dump_reply(o) == IF o.type = "none" THEN Nil ELSE IF o.type = "stream" THEN Err ELSE Ok
dumped(o) == Seal(encode_rdb_value(o), RdbVersion)

\* Options in pairs: 1 is IDLETIME, 2 is FREQ; they exclude each other and are otherwise ignored.
parse_restore_options(s) ==
    /\ \A i \in {i \in DOMAIN s : i % 2 = 1} : s[i + 1] >= 0 /\ (s[i] = 2 => s[i + 1] <= MaxFreq)
    /\ Cardinality({s[i] : i \in {i \in DOMAIN s : i % 2 = 1}}) <= 1
\* A sum of 64-bit integers, read as signed
Wrapped(n) == ((n + IntLimit + 1) % (2 * (IntLimit + 1))) - IntLimit - 1
expire_at(ttl, absttl, now) == IF ttl = 0 THEN -1 ELSE IF absttl THEN ttl ELSE Wrapped(ttl + now)
\* e is the envelope, replacing and absttl the options, s the others.
Restored(o, m, ttl, at_ms, now, ls) ==
    IF m.type = "none" \/ snapshot_load(m, at_ms, now, ls) = {} THEN {Out(o, Err)}
    ELSE IF ttl # 0 /\ at_ms <= now THEN {Out(NoObj, Ok)}
    ELSE {Out(p, Ok) : p \in snapshot_load(m, at_ms, now, ls)}
cmd_restore(o, e, s, replacing, absttl, ttl, now, ls) ==
    IF \/ ~parse_restore_options(s) \/ (o.type # "none" /\ ~replacing)
       \/ ttl \notin 0 .. IntLimit \/ ~verify_dump_payload(e) THEN {Out(o, Err)}
    ELSE Restored(o, decode_rdb_value(e.p), ttl, expire_at(ttl, absttl, now), now, ls)
=============================================================================
