------------------------------ MODULE Keyspace ------------------------------
(***************************************************************************)
(* One key of a shard under the commands on strings, lists, sets, hashes,  *)
(* sorted sets and streams.  Its owner runs them one at a time; between    *)
(* them time passes, the expire cycle collects lapsed fields and a         *)
(* snapshot capture starts and ends.  A client may be scanning the         *)
(* collection meanwhile, and keeps the payload of its last DUMP.           *)
(*                                                                         *)
(* A command is a record: op; s, its elements, fields or ids; i and j,     *)
(* numbers; f and g, switches; w and e, the kind of a condition, a range   *)
(* or an expiry; n is set when it runs.                                    *)
(***************************************************************************)
EXTENDS Serialize, StreamValue, HyperLogLog

CONSTANTS Programs, \* [cmds, left, ticks, captures, rooms, levels]: what may happen, and how often
          NoCommand,
          Payloads, \* payloads of Redis, by name
          Meaning   \* the values they stand for

VARIABLES
    prog, left,   \* the program, and how many commands it still runs
    ticks, captures,
    obj,          \* the object of the key
    val,          \* Abs(obj), the value it represents
    now,
    cap,          \* snapshot_active_
    gate,         \* field_expires_ names the key
    scan,         \* the scan of a client: on, cursor, at (for sets), the elements seen,
                  \* those there since it began, those missed, and by_position: it has held a
                  \* position in a packed hash as its cursor
    dump,         \* what the last DUMP gave: its payload e, and of, the value it was made of
    op, reply     \* the last command and its reply
vars == <<prog, left, ticks, captures, obj, val, now, cap, gate, scan, dump, op, reply>>

NoScan == [on |-> FALSE, cursor |-> 0, at |-> NoCursor, seen |-> {}, must |-> {}, missed |-> {},
           by_position |-> FALSE]

MembersOf(items) == {MemberOf(items[i]) : i \in DOMAIN items}
FieldsOf(o) == {Pairs(o)[i].f : i \in 1 .. entries(o)}
\* What a collection holds: the elements of a set, the fields of a hash.
Elements(o) ==
    IF o.type = "set" THEN ToSet(Members(o))
    ELSE IF o.type = "hash" THEN FieldsOf(o)
    ELSE IF o.type = "zset" THEN MembersOf(Items(o))
    ELSE {}

ScoreMap(o) ==
    IF is_packed(o) THEN [v \in {MemberOf(o.c.seq[i]) : i \in DOMAIN o.c.seq} |-> zset_get_score(o, v)]
    ELSE o.x.score
Counters(h, gs) == [last |-> h.last, maxdel |-> h.maxdel, added |-> h.added, gs |-> gs]
NonZero(regs) == [i \in {i \in DOMAIN regs : regs[i] > 0} |-> regs[i]]
\* The value of the key as its commands describe it.
NoValue(o) == [type |-> o.type, seq |-> <<>>, map |-> <<>>, at |-> <<>>, more |-> <<>>, d |-> o.d]
Abs(o) ==
    CASE o.type = "list" -> [NoValue(o) EXCEPT !.seq = Flat(o)]
      [] o.type = "set" -> [NoValue(o) EXCEPT !.map = [v \in ToSet(Members(o)) |-> 1]]
      [] o.type = "hash" -> [NoValue(o) EXCEPT !.map = [f \in FieldsOf(o) |-> GetField(o, f)], !.at = o.aux.ttl.at]
      [] o.type = "zset" -> [NoValue(o) EXCEPT !.map = ScoreMap(o)]
      [] IsHll(o) -> [NoValue(o) EXCEPT !.seq = <<Hyll>>, !.map = NonZero(RegistersOf(o.c.seq))]
      [] o.type = "string" -> [NoValue(o) EXCEPT !.seq = string_bytes(o)]
      [] o.type = "stream" -> [NoValue(o) EXCEPT !.seq = scan_object(o), !.more = Counters(object_header(o), o.aux.gs)]
      [] OTHER -> NoValue(o)

NoDump == [e |-> <<>>, of |-> Abs(NoObj)]
Init ==
    /\ prog \in Programs
    /\ left = prog.left /\ ticks = prog.ticks /\ captures = prog.captures
    /\ obj = NoObj /\ now = 0 /\ cap = FALSE /\ gate = FALSE
    /\ val = Abs(NoObj) /\ scan = NoScan
    /\ dump = NoDump /\ op = NoCommand /\ reply = Nil

---------------------------------------------------------------------------
(* Running a command *)

deadline_elapsed(o) == o.d >= 0 /\ o.d <= now
store_find(o) == IF deadline_elapsed(o) THEN NoObj ELSE o
\* A hash whose last fields lapsed and that could not be retired reads as absent and stays.
Stored(seen, o) == IF seen.type = "none" /\ o.type = "none" /\ ~deadline_elapsed(obj) THEN obj ELSE o

Ran(c, o, r) ==
    /\ obj' = o /\ val' = Abs(o) /\ reply' = r /\ op' = [c EXCEPT !.n = left] /\ left' = left - 1
    /\ scan' = [scan EXCEPT !.must = @ \cap DOMAIN val'.map]
    /\ UNCHANGED <<prog, ticks, captures, now, cap>>
Done(c, o, r) == Ran(c, o, r) /\ UNCHANGED dump
Cmd(name) == {c \in prog.cmds : c.op = name /\ left > 0}

OnList(c, run(_)) ==
    /\ UNCHANGED gate
    /\ \E o \in {store_find(obj)} :
          \E r \in {IF o.type \in {"list", "none"} THEN run(o) ELSE Out(o, Err)} : Done(c, r.o, r.r)
OnSet(c, run(_)) ==
    /\ UNCHANGED gate
    /\ \E o \in {store_find(obj)} :
          \E r \in IF o.type \in {"set", "none"} THEN run(o) ELSE {Out(o, Err)} : Done(c, r.o, r.r)
OnZset(c, run(_)) ==
    /\ UNCHANGED gate
    /\ \E o \in {store_find(obj)} :
          \E r \in IF o.type \in {"zset", "none"} THEN run(o) ELSE {Out(o, Err)} : Done(c, r.o, r.r)
hash_lookup(room) == hash_ttl_on_access(store_find(obj), now, gate, cap, room)
\* o is the hash that hash_lookup gave the handler, outs what the handler may do.
OnHash(c, o, outs) ==
    \E r \in IF o.type \in {"hash", "none"} THEN outs ELSE {Out(o, Err)} :
       /\ Done(c, Stored(o, r.o), r.r)
       \* note_field_ttl
       /\ gate' = (gate \/ (c.op = "HEXPIRE" /\ \E i \in DOMAIN r.r.s : r.r.s[i] = 1))

---------------------------------------------------------------------------
(* Lists *)

Push == \E c \in Cmd("PUSH") : OnList(c, LAMBDA o : push_generic(o, c.s, c.f, FALSE))
Pushx == \E c \in Cmd("PUSHX") : OnList(c, LAMBDA o : push_generic(o, c.s, c.f, TRUE))
Pop == \E c \in Cmd("POP") : OnList(c, LAMBDA o : pop_generic(o, c.f, c.i))
Llen == \E c \in Cmd("LLEN") : OnList(c, LAMBDA o : llen(o))
Lindex == \E c \in Cmd("LINDEX") : OnList(c, LAMBDA o : lindex(o, c.i))
Lrange == \E c \in Cmd("LRANGE") : OnList(c, LAMBDA o : lrange(o, c.i, c.j))
Lset == \E c \in Cmd("LSET") : OnList(c, LAMBDA o : lset(o, c.i, c.s[1]))
Linsert == \E c \in Cmd("LINSERT") : OnList(c, LAMBDA o : linsert(o, c.f, c.s[1], c.s[2]))
Lrem == \E c \in Cmd("LREM") : OnList(c, LAMBDA o : lrem(o, c.i, c.s[1]))
Ltrim == \E c \in Cmd("LTRIM") : OnList(c, LAMBDA o : ltrim(o, c.i, c.j))
Lpos == \E c \in Cmd("LPOS") : OnList(c, LAMBDA o : lpos(o, c.s[1], c.i, c.j, IF c.f THEN 1 ELSE 0))
\* The hops of a move between shards: the destination gains the element that was chosen, then the
\* source loses it.
Give == \E c \in Cmd("GIVE") : OnList(c, LAMBDA o : xshard_push_list_element(o, c.f, c.s[1]))
Lmpop == \E c \in Cmd("LMPOP") : OnList(c, LAMBDA o : xshard_pop_list(o, c.f, c.i))
Take == \E c \in Cmd("TAKE") : OnList(c, LAMBDA o : xshard_remove_list_element(o, c.f, c.s[1]))

---------------------------------------------------------------------------
(* Sets *)

Sadd == \E c \in Cmd("SADD") : OnSet(c, LAMBDA o : {sadd(o, c.s)})
Srem == \E c \in Cmd("SREM") : OnSet(c, LAMBDA o : {srem(o, c.s)})
Smismember == \E c \in Cmd("SMISMEMBER") : OnSet(c, LAMBDA o : {smismember(o, c.s)})
Scard == \E c \in Cmd("SCARD") : OnSet(c, LAMBDA o : {scard(o)})
Smembers == \E c \in Cmd("SMEMBERS") : OnSet(c, LAMBDA o : {smembers(o)})
Spop == \E c \in Cmd("SPOP") : OnSet(c, LAMBDA o : spop(o, c.i))
Srandmember == \E c \in Cmd("SRANDMEMBER") : OnSet(c, LAMBDA o : srandmember(o, c.i))

\* SMOVE between shards
SetGive == \E c \in Cmd("SGIVE") : OnSet(c, LAMBDA o : {xshard_insert_set_element(o, c.s[1])})
SetTake == \E c \in Cmd("STAKE") : OnSet(c, LAMBDA o : {xshard_remove_set_element(o, c.s[1])})

---------------------------------------------------------------------------
(* Hashes *)

Hset(o) == \E c \in Cmd("HSET") : OnHash(c, o, {hset(o, c.s, gate)})
Hsetnx(o) == \E c \in Cmd("HSETNX") : OnHash(c, o, {hsetnx(o, FieldOf(c.s[1]), ValueOf(c.s[1]))})
Hget(o) == \E c \in Cmd("HGET") : OnHash(c, o, {hget(o, c.s[1])})
Hmget(o) == \E c \in Cmd("HMGET") : OnHash(c, o, {hmget(o, c.s)})
Hexists(o) == \E c \in Cmd("HEXISTS") : OnHash(c, o, {hexists(o, c.s[1])})
Hstrlen(o) == \E c \in Cmd("HSTRLEN") : OnHash(c, o, {hstrlen(o, c.s[1])})
Hlen(o) == \E c \in Cmd("HLEN") : OnHash(c, o, {hlen(o)})
Hgetall(o) == \E c \in Cmd("HGETALL") : OnHash(c, o, {hgetall(o)})
Hdel(o) == \E c \in Cmd("HDEL") : OnHash(c, o, {hdel(o, c.s, gate)})
Hincrby(o) == \E c \in Cmd("HINCRBY") : OnHash(c, o, {hincrby(o, c.s[1], c.i, c.f)})
Hrandfield(o) ==
    \E c \in Cmd("HRANDFIELD") : OnHash(c, o, hrandfield(o, c.i, select_unique(entries(o), c.i)))
Hexpire(o) == \E c \in Cmd("HEXPIRE") : OnHash(c, o, {hexpire_generic(o, c.i, c.w, c.s, now)})
Hexpiretime(o) == \E c \in Cmd("HEXPIRETIME") : OnHash(c, o, {hexpiretime(o, c.s, now)})
Hpersist(o) == \E c \in Cmd("HPERSIST") : OnHash(c, o, {hpersist(o, c.s, now)})

---------------------------------------------------------------------------
(* Sorted sets; w is the condition of a ZADD or what a range is by, f and g its switches *)

ZRange(o, c) == RangeBy(o, c.w, c.i, c.j, c.f, c.g)
Zadd == \E c \in Cmd("ZADD") : OnZset(c, LAMBDA o : zadd_generic(o, c.s, c.w, FALSE, c.f, prog.levels))
Zincrby == \E c \in Cmd("ZINCRBY") : OnZset(c, LAMBDA o : zadd_generic(o, c.s, c.w, TRUE, c.f, prog.levels))
Zrem == \E c \in Cmd("ZREM") : OnZset(c, LAMBDA o : {zrem(o, c.s)})
Zremrange == \E c \in Cmd("ZREMRANGE") : OnZset(c, LAMBDA o : {zremrange(o, ZRange(o, c))})
Zpop == \E c \in Cmd("ZPOP") : OnZset(c, LAMBDA o : {zpop_generic(o, c.i, c.f)})
Zmpop == \E c \in Cmd("ZMPOP") : OnZset(c, LAMBDA o : {xshard_pop_zset(o, c.i, c.f)})
Zcard == \E c \in Cmd("ZCARD") : OnZset(c, LAMBDA o : {zcard(o)})
Zmscore == \E c \in Cmd("ZMSCORE") : OnZset(c, LAMBDA o : {zmscore(o, c.s)})
Zcount == \E c \in Cmd("ZCOUNT") : OnZset(c, LAMBDA o : {zcount(o, ZRange(o, c))})
Zrange == \E c \in Cmd("ZRANGE") :
             OnZset(c, LAMBDA o : {zrange(o, ZRange(o, c), c.w, FALSE, c.s[1], c.s[2])})
Zrevrange == \E c \in Cmd("ZREVRANGE") :
                OnZset(c, LAMBDA o : {zrange(o, ZRange(o, c), c.w, TRUE, c.s[1], c.s[2])})
Zrank == \E c \in Cmd("ZRANK") : OnZset(c, LAMBDA o : {zrank(o, c.s[1], c.f)})
Zrandmember == \E c \in Cmd("ZRANDMEMBER") : OnZset(c, LAMBDA o : zrandmember(o, c.i))
\* Writes of GEOADD and of commands over several keys replace the whole value.
Zreplace == \E c \in Cmd("ZREPLACE") : OnZset(c, LAMBDA o : zset_owner_replace(o, c.s, prog.levels))
\* SORT ... BY nosort has the set in its ordered form.
Zsort == \E c \in Cmd("ZSORT") :
            OnZset(c, LAMBDA o : IF o.type = "none" THEN {Out(o, Ok)}
                                 ELSE {Out(p, Ok) : p \in zset_sort_promote_one(o, prog.levels)})

---------------------------------------------------------------------------
(* Strings; e is the kind of an expiry, i its number *)

Expiry(c) == [kind |-> c.e, v |-> c.i]
OnString(c, run(_)) ==
    /\ UNCHANGED gate
    /\ \E o \in {store_find(obj)} :
          \E r \in {IF o.type \in {"string", "none"} THEN run(o) ELSE Out(o, Err)} : Done(c, r.o, r.r)
\* SET, SETNX and SETEX look at no type, or only when the old value is asked for.
OnKey(c, run(_)) ==
    /\ UNCHANGED gate
    /\ \E o \in {store_find(obj)} : \E r \in {run(o)} : Done(c, r.o, r.r)
Set == \E c \in Cmd("SET") : OnKey(c, LAMBDA o : cmd_set(o, c.s, c.w, c.f, c.g, Expiry(c), now))
Setnx == \E c \in Cmd("SETNX") : OnKey(c, LAMBDA o : cmd_setnx(o, c.s))
Setex == \E c \in Cmd("SETEX") : OnKey(c, LAMBDA o : setex_generic(o, c.s, Expiry(c), now))
Getset == \E c \in Cmd("GETSET") : OnString(c, LAMBDA o : cmd_getset(o, c.s))
Get == \E c \in Cmd("GET") : OnString(c, LAMBDA o : cmd_get(o))
Getdel == \E c \in Cmd("GETDEL") : OnString(c, LAMBDA o : cmd_getdel(o))
Getex == \E c \in Cmd("GETEX") : OnString(c, LAMBDA o : cmd_getex(o, Expiry(c), c.f, now))
StringAppend == \E c \in Cmd("APPEND") : OnString(c, LAMBDA o : cmd_append(o, c.s))
Strlen == \E c \in Cmd("STRLEN") : OnString(c, LAMBDA o : cmd_strlen(o))
Getrange == \E c \in Cmd("GETRANGE") : OnString(c, LAMBDA o : cmd_getrange(o, c.i, c.j))
Setrange == \E c \in Cmd("SETRANGE") : OnString(c, LAMBDA o : cmd_setrange(o, c.i, c.s))
Getbit == \E c \in Cmd("GETBIT") : OnString(c, LAMBDA o : cmd_getbit(o, c.i))
Setbit == \E c \in Cmd("SETBIT") : OnString(c, LAMBDA o : cmd_setbit(o, c.i, c.j))
Bitcount == \E c \in Cmd("BITCOUNT") : OnString(c, LAMBDA o : cmd_bitcount(o, c.g, c.f, c.i, c.j))
Bitpos == \E c \in Cmd("BITPOS") : OnString(c, LAMBDA o : cmd_bitpos(o, c.s[1], c.f, c.i, c.j))
Incrby == \E c \in Cmd("INCRBY") : OnString(c, LAMBDA o : incr_decr(o, c.i))
Decrby == \E c \in Cmd("DECRBY") : OnString(c, LAMBDA o : cmd_decrby(o, c.i))
Incrbyfloat == \E c \in Cmd("INCRBYFLOAT") : OnString(c, LAMBDA o : cmd_incrbyfloat(o, c.i))

---------------------------------------------------------------------------
(* HyperLogLogs *)

Pfadd == \E c \in Cmd("PFADD") : OnKey(c, LAMBDA o : cmd_pfadd(o, c.s))
Pfcount == \E c \in Cmd("PFCOUNT") : OnKey(c, LAMBDA o : cmd_pfcount(o))
\* The other key has an image of the elements s, dense when f says so.
Pfmerge == \E c \in Cmd("PFMERGE") :
              OnKey(c, LAMBDA o : LET s == AddedAll(create_sparse, c.s).s IN pfmerge(o, IF c.f THEN sparse_to_dense(s) ELSE s))
Pfdebug == \E c \in Cmd("PFDEBUG") :
              OnKey(c, LAMBDA o : IF c.w = "todense" THEN pfdebug_todense(o) ELSE pfdebug_getreg(o))

---------------------------------------------------------------------------
(* Streams.  s begins with the group, the consumer and a third argument; i and j are ids, counts  *)
(* and times; w and e are the kinds of what is given; -1 stands for '$', '>' and no count.        *)

OnStream(c, run(_)) ==
    /\ UNCHANGED gate
    /\ \E o \in {store_find(obj)} :
          \E r \in {IF o.type \in {"stream", "none"} THEN run(o) ELSE Out(o, Err)} : Done(c, r.o, r.r)
\* A command on a group: an error where the key or the group is missing.
OnGroup(c, run(_)) ==
    OnStream(c, LAMBDA o : IF HasGroup(o, c.s[1]) THEN InGroups(o, run(o)) ELSE Out(o, Err))
Trim(c) == [kind |-> c.e, n |-> c.j]
Xadd == \E c \in Cmd("XADD") : OnStream(c, LAMBDA o : xadd(o, c.s[1], c.s[2], c.w, c.i, c.f, Trim(c), now))
Xlen == \E c \in Cmd("XLEN") : OnStream(c, LAMBDA o : xlen(o))
Xtrim == \E c \in Cmd("XTRIM") : OnStream(c, LAMBDA o : xtrim(o, Trim(c)))
Xdel == \E c \in Cmd("XDEL") : OnStream(c, LAMBDA o : xdel(o, c.s))
Xrange == \E c \in Cmd("XRANGE") : OnKey(c, LAMBDA o : range_generic(o, c.i, c.j, c.f, c.g, c.s[1], c.w = "rev"))
Xread == \E c \in Cmd("XREAD") : OnStream(c, LAMBDA o : xread_gather(o, c.i, c.j))
Xsetid == \E c \in Cmd("XSETID") : OnStream(c, LAMBDA o : xsetid(o, c.i, c.w, c.j))
Xgroup == \E c \in Cmd("XGROUP CREATE") : OnStream(c, LAMBDA o : cmd_xgroup_create(o, c.s[1], c.i, c.j, c.f))
XgroupDestroy ==
    \E c \in Cmd("XGROUP DESTROY") :
       OnStream(c, LAMBDA o : IF o.type = "none" THEN Out(o, Err) ELSE InGroups(o, xgroup_destroy(o.aux.gs, c.s[1])))
XgroupCreateconsumer ==
    \E c \in Cmd("XGROUP CREATECONSUMER") : OnGroup(c, LAMBDA o : xgroup_createconsumer(o.aux.gs, c.s[1], c.s[2], now))
XgroupDelconsumer ==
    \E c \in Cmd("XGROUP DELCONSUMER") : OnGroup(c, LAMBDA o : xgroup_delconsumer(o.aux.gs, c.s[1], c.s[2]))
XgroupSetid ==
    \E c \in Cmd("XGROUP SETID") :
       OnGroup(c, LAMBDA o : xgroup_setid(o.aux.gs, c.s[1], IF c.i = -1 THEN object_header(o).last ELSE c.i, c.j))
Xreadgroup ==
    \E c \in Cmd("XREADGROUP") :
       OnGroup(c, LAMBDA o : xreadgroup(o.aux.gs, c.s[1], c.s[2], c.i, c.j, c.f,
                                        LAMBDA id : scan_object_from(o, id), object_header(o).added, now))
Xack == \E c \in Cmd("XACK") :
           OnStream(c, LAMBDA o : IF o.type = "none" THEN Out(o, Num(0)) ELSE InGroups(o, xack(o.aux.gs, c.s[1], Tail(c.s))))
Xpending ==
    \E c \in Cmd("XPENDING") :
       OnGroup(c, LAMBDA o : Grouped(o.aux.gs, IF c.w = "summary" THEN xpending_summary(o.aux.gs.groups[c.s[1]])
                                              ELSE xpending_range(o.aux.gs.groups[c.s[1]], c.i, c.j, c.s[2], c.s[3], c.s[4], now)))
Claiming(c) ==
    [force |-> c.f, justid |-> c.g, kind |-> c.w, value |-> c.j,
     retry |-> IF c.e = "retry" THEN c.s[3] ELSE -1, lastid |-> IF c.e = "lastid" THEN c.s[3] ELSE -1]
Xclaim ==
    \E c \in Cmd("XCLAIM") :
       OnGroup(c, LAMBDA o : xclaim(o.aux.gs, c.s[1], c.s[2], c.i, SubSeq(c.s, 4, Len(c.s)), Claiming(c),
                                    LAMBDA id : scan_object_from(o, id), now))
Xautoclaim ==
    \E c \in Cmd("XAUTOCLAIM") :
       OnGroup(c, LAMBDA o : xautoclaim(o.aux.gs, c.s[1], c.s[2], c.i, c.j, c.s[3], c.g,
                                        LAMBDA id : stream_object_merge_scan(o, id), now))
XinfoOn(o, c) ==
    IF o.type = "none" \/ (c.w = "consumers" /\ ~HasGroup(o, c.s[1])) THEN Out(o, Err)
    ELSE IF c.w = "stream" THEN xinfo_stream(o)
    ELSE IF c.w = "groups"
    THEN Out(o, xinfo_groups(o.aux.gs, LAMBDA id : scan_object_from(o, id), object_header(o).added))
    ELSE Out(o, xinfo_consumers(o.aux.gs.groups[c.s[1]], now))
Xinfo == \E c \in Cmd("XINFO") : OnStream(c, LAMBDA o : XinfoOn(o, c))

---------------------------------------------------------------------------
(* Scans *)

\* A call of the client's scan.  must keeps what has been there since the scan began.
Scanned(o, met, cursor, place, ended, by_position) ==
    IF ended
    THEN [NoScan EXCEPT !.missed = (IF scan.on THEN scan.must ELSE Elements(o)) \ (scan.seen \cup met),
                        !.by_position = scan.on /\ scan.by_position]
    ELSE [on |-> TRUE, cursor |-> cursor, at |-> place, seen |-> scan.seen \cup met,
          must |-> IF scan.on THEN scan.must ELSE Elements(o), missed |-> {},
          by_position |-> (scan.on /\ scan.by_position) \/ by_position]
Call(c, o, s) ==
    /\ scan' = s /\ obj' = o /\ val' = Abs(o) /\ reply' = Nil /\ op' = [c EXCEPT !.n = left] /\ left' = left - 1
    /\ UNCHANGED <<prog, ticks, captures, now, cap, gate, dump>>
Sscan ==
    \E c \in Cmd("SSCAN") : \E o \in {store_find(obj)} :
       IF o.type # "set" THEN Call(c, o, NoScan)
       ELSE \E r \in {sscan(o, scan.at, c.i)} :
               Call(c, o, Scanned(o, r.seen, 0, r.cursor, r.cursor = NoCursor, FALSE))
Zscan ==
    \E c \in Cmd("ZSCAN") : \E o \in {store_find(obj)} :
       IF o.type # "zset" THEN Call(c, o, NoScan)
       ELSE \E r \in {zscan(o, scan.cursor, c.i)} :
               Call(c, o, Scanned(o, r.seen, r.cursor, NoCursor, r.cursor = 0, FALSE))
Hscan(o) ==
    \E c \in Cmd("HSCAN") :
       IF o.type # "hash" THEN Call(c, o, NoScan)
       ELSE \E r \in {hscan(o, scan.cursor, c.i)} :
               Call(c, o, Scanned(o, r.seen, r.cursor, NoCursor, r.cursor = 0, is_packed(o)))

---------------------------------------------------------------------------
(* Any type *)

Del == \E c \in Cmd("DEL") : \E o \in {store_find(obj)} :
          /\ UNCHANGED gate
          /\ Done(c, NoObj, Num(IF o.type = "none" THEN 0 ELSE 1))
Expire == \E c \in Cmd("EXPIRE") : OnKey(c, LAMBDA o : expire_generic(o, Expiry(c), c.w, now))
Ttl == \E c \in Cmd("TTL") : OnKey(c, LAMBDA o : ttl_generic(o, c.f, now))
Persist == \E c \in Cmd("PERSIST") : OnKey(c, LAMBDA o : cmd_persist(o))
Exists == \E c \in Cmd("EXISTS") : OnKey(c, LAMBDA o : Out(o, Num(IF o.type = "none" THEN 0 ELSE 1)))
Type == \E c \in Cmd("TYPE") : OnKey(c, LAMBDA o : Out(o, [Ok EXCEPT !.t = o.type]))
\* COPY and RENAME, and a restart: the value goes through its saved form.
Reloaded(o) ==
    CASE o.type = "none" -> {o}
      [] o.type = "stream" -> {stream_snapshot_load(o)}
      [] OTHER -> snapshot_load(snapshot_image(o), o.d, now, prog.levels)
note_loaded_object(o) == gate \/ (o.type = "hash" /\ o.aux.ttl.on)
Reload == \E c \in Cmd("RELOAD") : \E o \in Reloaded(store_find(obj)) :
             Done(c, o, Ok) /\ gate' = note_loaded_object(o)
Dump == \E c \in Cmd("DUMP") : \E o \in {store_find(obj)} :
           /\ Ran(c, o, dump_reply(o)) /\ UNCHANGED gate
           /\ dump' = IF dump_reply(o) = Ok THEN [e |-> dumped(o), of |-> [Abs(o) EXCEPT !.d = -1]] ELSE dump
\* The payload of c: the client's own or one of Redis, possibly damaged or of a newer version.
Envelope(c) ==
    LET e == IF c.w = "own" THEN dump.e ELSE Seal(Payloads[c.w], RdbVersion)
    IN CASE c.e = "damaged" -> [e EXCEPT !.p.count = @ + 1]
         [] c.e = "newer" -> Seal(e.p, RdbVersion + 1)
         [] OTHER -> e
Restore == \E c \in Cmd("RESTORE") :
              /\ c.w = "own" => dump.of.type # "none"
              /\ \E o \in {store_find(obj)} :
                    \E r \in cmd_restore(o, Envelope(c), c.s, c.f, c.g, c.i, now, prog.levels) :
                       Done(c, r.o, r.r) /\ gate' = IF r.r = Ok THEN note_loaded_object(r.o) ELSE gate

---------------------------------------------------------------------------
(* Beside the commands *)

HasTtls(o) == o.type = "hash" /\ o.aux.ttl.on
active_expire_fields ==
    /\ gate /\ ~cap
    /\ \/ ~HasTtls(obj) /\ gate' = FALSE /\ UNCHANGED <<obj, val, scan>>
       \/ HasTtls(obj) /\ \E o \in {OrErased(reap_due(obj, now))} :
             /\ obj' = o /\ val' = Abs(o) /\ gate' = (o.type # "none")
             /\ scan' = [scan EXCEPT !.must = @ \cap DOMAIN val'.map]
    /\ UNCHANGED <<prog, left, ticks, captures, now, cap, dump, op, reply>>
Tick == ticks > 0 /\ ticks' = ticks - 1 /\ now' = now + 1
        /\ UNCHANGED <<prog, left, captures, obj, val, cap, gate, scan, dump, op, reply>>
SnapshotBegin == captures > 0 /\ ~cap /\ cap' = TRUE /\ captures' = captures - 1
                 /\ UNCHANGED <<prog, left, ticks, obj, val, now, gate, scan, dump, op, reply>>
SnapshotEnd == cap /\ cap' = FALSE
               /\ UNCHANGED <<prog, left, ticks, captures, obj, val, now, gate, scan, dump, op, reply>>

ListNext == Push \/ Pushx \/ Pop \/ Llen \/ Lindex \/ Lrange \/ Lset \/ Linsert \/ Lrem \/ Ltrim \/ Lpos
            \/ Give \/ Lmpop \/ Take
SetNext == Sadd \/ Srem \/ Smismember \/ Scard \/ Smembers \/ Spop \/ Srandmember \/ SetGive
           \/ SetTake \/ Sscan
HashNext ==
    \E room \in prog.rooms : \E o \in {hash_lookup(room)} :
       \/ Hset(o) \/ Hsetnx(o) \/ Hget(o) \/ Hmget(o) \/ Hexists(o) \/ Hstrlen(o) \/ Hlen(o)
       \/ Hgetall(o) \/ Hdel(o) \/ Hincrby(o) \/ Hrandfield(o) \/ Hexpire(o) \/ Hexpiretime(o)
       \/ Hpersist(o) \/ Hscan(o)
ZsetNext == Zadd \/ Zincrby \/ Zrem \/ Zremrange \/ Zpop \/ Zmpop \/ Zcard \/ Zmscore \/ Zcount \/ Zrange \/ Zrevrange
            \/ Zrank \/ Zrandmember \/ Zreplace \/ Zsort \/ Zscan
StringNext == Set \/ Setnx \/ Setex \/ Getset \/ Get \/ Getdel \/ Getex \/ StringAppend \/ Strlen \/ Getrange \/ Setrange
              \/ Getbit \/ Setbit \/ Bitcount \/ Bitpos \/ Incrby \/ Decrby \/ Incrbyfloat
HllNext == Pfadd \/ Pfcount \/ Pfmerge \/ Pfdebug
StreamNext == Xadd \/ Xlen \/ Xtrim \/ Xdel \/ Xrange \/ Xread \/ Xsetid \/ Xgroup \/ XgroupDestroy
              \/ XgroupCreateconsumer \/ XgroupDelconsumer \/ XgroupSetid \/ Xreadgroup \/ Xack \/ Xpending \/ Xclaim
              \/ Xautoclaim \/ Xinfo
KeyNext == Del \/ Expire \/ Ttl \/ Persist \/ Exists \/ Type \/ Reload \/ Dump \/ Restore
Next == ListNext \/ SetNext \/ HashNext \/ ZsetNext \/ StringNext \/ HllNext \/ StreamNext \/ KeyNext \/ active_expire_fields \/ Tick
        \/ SnapshotBegin \/ SnapshotEnd
Spec == Init /\ [][Next]_vars

---------------------------------------------------------------------------
(* Properties *)

ListOk(o) ==
    is_packed(o) \/ /\ \A k \in DOMAIN o.x : WellPacked(o.x[k]) /\ o.x[k].seq # <<>>
                    /\ o.n = Len(Flat(o)) /\ o.bytes = payload_bytes(Flat(o))
SetOk(o) ==
    /\ IsInjective(Members(o))
    /\ \A v \in Elements(o) : Size(v) <= o.aux.max /\ contains_member(o, v)
    /\ is_packed(o) \/ /\ o.n = Len(o.x.live) /\ ToSet(o.x.live) = Occupied(o.x.slots)
                       /\ \A p \in DOMAIN o.x.live : o.x.pos[o.x.live[p]] = p - 1
                       /\ o.x.tombs = Cardinality({i \in DOMAIN o.x.slots : o.x.slots[i] = Tomb})
                       /\ o.bytes = payload_bytes(Members(o))
HashOk(o) ==
    /\ IsInjective([i \in 1 .. entries(o) |-> Pairs(o)[i].f])
    /\ \A i \in 1 .. entries(o) : HasField(o, Pairs(o)[i].f) /\ GetField(o, Pairs(o)[i].f) = Pairs(o)[i].v
    /\ FoldLeft(LAMBDA n, p : n + Weight(p), 0, Pairs(o)) = IF is_packed(o) THEN o.aux.payload ELSE o.bytes
    /\ is_packed(o) \/ o.n = Len(o.x.nodes)
    /\ DOMAIN o.aux.ttl.at \subseteq Elements(o)
    /\ o.aux.ttl.on <=> DOMAIN o.aux.ttl.at # {}
    /\ o.aux.ttl.on => ~is_embedded(o) /\ gate
    /\ \A f \in DOMAIN o.aux.ttl.at : o.aux.ttl.min <= o.aux.ttl.at[f]

\* The nodes in order, and on every level the links, the spans and the last node.
ZsetOk(o) ==
    /\ \E I \in {Items(o)} : \A i \in 1 .. Len(I) - 1 :
          tuple_less(ScoreOf(I[i]), MemberOf(I[i]), ScoreOf(I[i + 1]), MemberOf(I[i + 1]))
    /\ \A v \in Elements(o) : HasMember(o, v)
    /\ is_packed(o) \/
       LET x == o.x
           L == Level0(x)
           on(i) == {k \in DOMAIN L : Len(x.fwd[L[k]]) >= i}
           pos(n) == IF n = header THEN 0 ELSE CHOOSE k \in DOMAIN L : L[k] = n
           next(n, i) == {k \in on(i) : k > pos(n) /\ \A j \in on(i) : j > pos(n) => j >= k}
       IN /\ o.n = x.length /\ o.bytes = payload_bytes(Items(o)) /\ x.length = Cardinality(DOMAIN x.score)
          /\ x.tail = L[Len(L)] /\ x.back[L[1]] = null /\ \A k \in 2 .. Len(L) : x.back[L[k]] = L[k - 1]
          /\ on(x.level) # {} /\ \A n \in DOMAIN x.score : Len(x.fwd[n]) <= x.level
          /\ \A i \in 1 .. x.level : \A n \in {header} \cup {L[k] : k \in on(i)} :
                \/ /\ next(n, i) = {} /\ x.fwd[n][i] = null /\ x.span[n][i] = x.length - pos(n)
                   /\ x.ltail[i] = n
                \/ \E k \in next(n, i) : x.fwd[n][i] = L[k] /\ x.span[n][i] = k - pos(n)
          /\ x.tombs = Cardinality({i \in DOMAIN x.new : x.new[i] = Tomb})

\* Every opcode can hold its run.
OpsFit(ops) ==
    \A k \in DOMAIN ops : IF IsVal(ops[k]) THEN RunOf(ops[k]) <= RunMax /\ RankIn(ops[k]) <= RankMax
                          ELSE RunOf(ops[k]) <= IF IsXzero(ops[k]) THEN Registers ELSE ZeroMax
StringOk(o) ==
    /\ o.form = "raw" => Len(o.c.seq) <= EmbedThreshold /\ o.room = kvobj_capacity(o)
    /\ o.form = "extern" => Len(o.c.seq) > EmbedThreshold
    /\ o.form = "int" => o.n \in -IntLimit - 1 .. IntLimit
    /\ IsHll(o) => /\ Len(RegistersOf(o.c.seq)) = Registers
                   /\ cache_valid(o.c.seq) => o.c.seq[3] = Estimate(histogram(RegistersOf(o.c.seq)))
                   /\ ~is_dense(o.c.seq) => Len(o.c.seq) <= SparseMaxBytes /\ OpsFit(Ops(o.c.seq))

\* The ids ascend and none is after the last one; the nodes, their index and the counters
\* describe the records; groups are on external streams only.
StreamOk(o) ==
    LET s == scan_object(o)
        h == object_header(o)
        nodes == o.x.nodes
    IN /\ \A i \in DOMAIN s : s[i].id <= h.last /\ (i > 1 => s[i - 1].id < s[i].id)
       /\ h.maxdel <= h.last /\ stream_live_length(o) = Len(LiveRecords(s)) /\ h.added >= Len(LiveRecords(s))
       /\ stream_object_last_id(o) = h.last
       /\ GroupsOk(o.aux.gs) /\ (o.aux.gs.on => ~is_embedded(o))
       /\ is_packed(o) => compact_header(o.c) = h /\ h.base = FirstId(s)
       /\ is_packed(o) \/
          /\ o.x.first = FirstId(LiveRecords(s)) /\ o.x.tail = LastNames(s)
          /\ o.x.index = [i \in DOMAIN nodes |-> [base |-> nodes[i].base, node |-> i]]
          /\ \A i \in DOMAIN nodes :
                LET t == node_records(o.x, i)
                IN /\ WellPacked(nodes[i].log) /\ nodes[i].physical = Len(t) /\ Len(t) > 0
                   /\ nodes[i].base <= FirstId(t) /\ nodes[i].last = LastId(t)
                   /\ i > 1 => nodes[i - 1].last < nodes[i].base

\* The representation of the key is sound whatever the history of conversions: the entries are
\* where the index says, embedded ones fit their object, the counters are what they count, the
\* dense arrays and the tables name each other, a cached count is that of the registers, no empty collection is kept, every deadline of
\* a field belongs to a field and the gate of the shard is open for it.
RepresentationIsSound ==
    /\ obj.type \notin {"none", "string", "stream"} => entries(obj) > 0 \/ deadline_elapsed(obj)
    /\ is_embedded(obj) => encoded_bytes(obj.c.seq) <= obj.room
    /\ obj.form = "compact" => WellPacked(obj.c)
    /\ obj.d >= 0 => obj.slot
    /\ obj.type = "list" => ListOk(obj)
    /\ obj.type = "set" => SetOk(obj)
    /\ obj.type = "hash" => HashOk(obj)
    /\ obj.type = "zset" => ZsetOk(obj)
    /\ obj.type = "string" => StringOk(obj)
    /\ obj.type = "stream" => StreamOk(obj)

\* A scan that went from cursor 0 back to 0 returned every element that was there throughout
\* (store/flatstore.h: "THE guarantee every SCAN family member owes"), unless it held a position
\* in a packed hash.
ScansSeeWhatStays == scan.missed = {} \/ scan.by_position

\* Replies whose order is not promised.
Unordered == {"SMEMBERS", "HGETALL", "SPOP", "HRANDFIELD"}
Rank(S, m) == CHOOSE x \in S : Cardinality({y \in S : y <= x}) = m
AbsReply ==
    IF op.op \in Unordered \/ (op.op \in {"SRANDMEMBER", "ZRANDMEMBER"} /\ op.i > 0)
    THEN [reply EXCEPT !.s = [m \in DOMAIN @ |-> Rank(ToSet(@), m)]] ELSE reply
V == INSTANCE Values WITH reply <- AbsReply, saved <- dump.of
\* Every command has the effect and the reply its type promises, in every representation and
\* across every conversion between them.
ImplementsValues == V!Spec
=============================================================================
