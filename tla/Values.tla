------------------------------- MODULE Values -------------------------------
(***************************************************************************)
(* What the commands on a key promise, whatever the representation: the    *)
(* key holds nothing, a sequence, a set or a map whose entries may have    *)
(* deadlines, and every command has its effect on that value and its       *)
(* reply.  Emptied collections are gone; a command of another type is      *)
(* refused and changes nothing.                                            *)
(***************************************************************************)
EXTENDS StreamGroups

CONSTANTS Size(_), Pair(_, _), FieldOf(_), ValueOf(_), IsNumber(_), MaxInt,
          Scored(_, _), MemberOf(_), ScoreOf(_), Precedes(_, _), MaxBulk,
          Meaning, MaxFreq, Hyll, Registers, RankTop, IndexOf(_), RankOf(_), Estimate(_)

VARIABLES val,    \* [type, seq, map, at, more, d]; the members of a set are the domain of map
          now,
          cap,    \* a capture is running: lapsed fields are still there
          saved,  \* the value of the last DUMP
          op,     \* the last command, with a number
          reply

Nothing == [type |-> "none", seq |-> <<>>, map |-> <<>>, at |-> <<>>, more |-> <<>>, d |-> -1]
Does(v, r) == [v |-> IF v.seq = <<>> /\ v.map = <<>> THEN Nothing ELSE v, r |-> r]
Says(v, r) == [v |-> v, r |-> r]

\* The elements of S as a sequence, by the number of elements before each.
Lined(S, before(_, _)) ==
    FoldLeft(LAMBDA s, k : Append(s, CHOOSE x \in S : Cardinality({y \in S : before(y, x)}) = k - 1),
             <<>>, [k \in 1 .. Cardinality(S) |-> k])
Sorted(S) == Lined(S, LAMBDA x, y : x < y)
Restricted(f, S) == [x \in DOMAIN f \cap S |-> f[x]]
Lesser(a, b) == IF a < b THEN a ELSE b

---------------------------------------------------------------------------
(* Lists *)

Normal(i, n) == IF i < 0 THEN i + n ELSE i
RangeOf(s, i, j) ==
    LET a == IF Normal(i, Len(s)) < 0 THEN 0 ELSE Normal(i, Len(s))
    IN SubSeq(s, a + 1, Lesser(Normal(j, Len(s)), Len(s) - 1) + 1)
At(s, i) == s[Normal(i, Len(s)) + 1]
Within(s, i) == Normal(i, Len(s)) \in 0 .. Len(s) - 1
FirstOf(s, x) == SelectInSeq(s, LAMBDA y : y = x)
AllOf(s, x) == {i \in DOMAIN s : s[i] = x}
\* The k occurrences of x nearest to the head, or to the tail.
Nearest(s, x, k, left) ==
    {i \in AllOf(s, x) : Cardinality({j \in AllOf(s, x) : IF left THEN j <= i ELSE j >= i}) <= k}
Dropped(s, I) == LET kept == Sorted(DOMAIN s \ I) IN [m \in DOMAIN kept |-> s[kept[m]]]
Removed(s, x, count) ==
    IF count = 0 THEN AllOf(s, x) ELSE Nearest(s, x, IF count < 0 THEN -count ELSE count, count > 0)

OfList(c, v) ==
    LET s == v.seq
        has == v.type = "list"
        to(t) == IF has THEN [v EXCEPT !.seq = t] ELSE [Nothing EXCEPT !.type = "list", !.seq = t]
        taken == Lesser(IF c.i = -1 THEN 1 ELSE c.i, Len(s))
        head == IF c.f THEN SubSeq(s, 1, taken) ELSE Reverse(SubSeq(s, Len(s) - taken + 1, Len(s)))
        rest == IF c.f THEN SubSeq(s, taken + 1, Len(s)) ELSE SubSeq(s, 1, Len(s) - taken)
        pivot == FirstOf(s, c.s[1])
        gone == Removed(s, c.s[1], c.i)
    IN CASE c.op = "PUSH" -> Does(to(IF c.f THEN Reverse(c.s) \o s ELSE s \o c.s), Num(Len(s) + Len(c.s)))
         [] c.op = "PUSHX" -> IF has THEN Does(to(IF c.f THEN Reverse(c.s) \o s ELSE s \o c.s), Num(Len(s) + Len(c.s)))
                              ELSE Says(v, Num(0))
         [] c.op = "POP" -> IF ~has THEN Says(v, Nil)
                            ELSE Does(to(rest), IF c.i = -1 THEN Bulk(head[1]) ELSE Bulks(head))
         [] c.op = "LLEN" -> Says(v, Num(Len(s)))
         [] c.op = "LINDEX" -> Says(v, IF Within(s, c.i) THEN Bulk(At(s, c.i)) ELSE Nil)
         [] c.op = "LRANGE" -> Says(v, Bulks(RangeOf(s, c.i, c.j)))
         [] c.op = "LSET" -> IF Within(s, c.i) THEN Does(to([s EXCEPT ![Normal(c.i, Len(s)) + 1] = c.s[1]]), Ok)
                             ELSE Says(v, Err)
         [] c.op = "LINSERT" -> IF ~has THEN Says(v, Num(0))
                                ELSE IF pivot = 0 THEN Says(v, Num(-1))
                                ELSE Does(to(InsertAt(s, IF c.f THEN pivot ELSE pivot + 1, c.s[2])), Num(Len(s) + 1))
         [] c.op = "LREM" -> IF has THEN Does(to(Dropped(s, gone)), Num(Cardinality(gone))) ELSE Says(v, Num(0))
         [] c.op = "LTRIM" -> IF has THEN Does(to(RangeOf(s, c.i, c.j)), Ok) ELSE Says(v, Ok)
         [] c.op = "LPOS" ->
              Says(v, LET order == IF c.i < 0 THEN Reverse(Sorted(AllOf(s, c.s[1]))) ELSE Sorted(AllOf(s, c.s[1]))
                          found == SubSeq(order, IF c.i < 0 THEN -c.i ELSE c.i, Len(order))
                          near == SelectSeq(found, LAMBDA p : c.f =>
                                              (IF c.i < 0 THEN Len(s) - p < 1 ELSE p <= 1))
                          at0 == [m \in DOMAIN near |-> near[m] - 1]
                      IN IF c.j # -1 THEN Bulks(IF c.j = 0 THEN at0 ELSE SubSeq(at0, 1, Lesser(c.j, Len(at0))))
                         ELSE IF at0 = <<>> THEN Nil ELSE Num(at0[1]))
         [] c.op = "GIVE" -> Does(to(IF c.f THEN c.s \o s ELSE s \o c.s), Ok)
         [] c.op = "LMPOP" -> IF has THEN Does(to(rest), Bulks(head)) ELSE Says(v, Nil)
         [] c.op = "TAKE" -> IF c.s[1] \in ToSet(s)
                             THEN Does(to(Dropped(s, Nearest(s, c.s[1], 1, c.f))), Ok) ELSE Says(v, Nil)

---------------------------------------------------------------------------
(* Sets *)

OfSet(c, v) ==
    LET S == DOMAIN v.map
        to(T) == [IF v.type = "set" THEN v ELSE [Nothing EXCEPT !.type = "set"] EXCEPT !.map = [x \in T |-> 1]]
        args == ToSet(c.s)
        n == IF c.i = -1 THEN 1 ELSE c.i
    IN CASE c.op = "SADD" -> {Does(to(S \cup args), Num(Cardinality(args \ S)))}
         [] c.op = "SGIVE" -> {Does(to(S \cup args), Ok)}
         [] c.op = "STAKE" -> {IF args \subseteq S THEN Does(to(S \ args), Ok) ELSE Says(v, Nil)}
         [] c.op = "SREM" -> {Does(to(S \ args), Num(Cardinality(args \cap S)))}
         [] c.op = "SMISMEMBER" -> {Says(v, Bulks([i \in DOMAIN c.s |-> IF c.s[i] \in S THEN 1 ELSE 0]))}
         [] c.op = "SCARD" -> {Says(v, Num(Cardinality(S)))}
         [] c.op = "SMEMBERS" -> {Says(v, Bulks(Sorted(S)))}
         [] c.op = "SPOP" ->
              IF c.i = -1 THEN {Does(to(S \ {x}), Bulk(x)) : x \in S} \cup {Says(x, Nil) : x \in {y \in {v} : S = {}}}
              ELSE {Does(to(S \ T), Bulks(Sorted(T))) : T \in {U \in SUBSET S : Cardinality(U) = Lesser(n, Cardinality(S))}}
         [] c.op = "SRANDMEMBER" ->
              IF S = {} THEN {Says(v, Bulks(<<>>))}
              ELSE IF c.i < 0 THEN {Says(v, Bulks(p)) : p \in [1 .. -c.i -> S]}
              ELSE {Says(v, Bulks(Sorted(T))) : T \in {U \in SUBSET S : Cardinality(U) = Lesser(c.i, Cardinality(S))}}

---------------------------------------------------------------------------
(* Hashes *)

Lapsed(v) == {f \in DOMAIN v.at : v.at[f] <= now}
Without(v, F) == [v EXCEPT !.map = Restricted(@, DOMAIN @ \ F), !.at = Restricted(@, DOMAIN @ \ F)]
Live(v) == IF v.type = "hash" THEN Does(Without(v, Lapsed(v)), Nil).v ELSE v

OfHash(c, v) ==
    LET m == v.map
        F == DOMAIN m
        base == IF v.type = "hash" THEN v ELSE [Nothing EXCEPT !.type = "hash"]
        put == FoldLeft(LAMBDA g, e : (FieldOf(e) :> ValueOf(e)) @@ g, m, c.s)
        names == {FieldOf(c.s[i]) : i \in DOMAIN c.s}
        f == c.s[1]
        get(g) == IF g \in F THEN m[g] ELSE 0
        n == IF f \in F THEN m[f] + c.i ELSE c.i
        deadline(g) == IF g \notin F \ Lapsed(v) THEN -2 ELSE IF g \in DOMAIN v.at THEN v.at[g] ELSE -1
        allowed(g) == \/ c.w = "none"
                      \/ c.w = "nx" /\ deadline(g) = -1
                      \/ c.w = "xx" /\ deadline(g) >= 0
                      \/ c.w = "gt" /\ deadline(g) >= 0 /\ c.i > deadline(g)
                      \/ c.w = "lt" /\ (deadline(g) = -1 \/ c.i < deadline(g))
        hit == {g \in ToSet(c.s) : deadline(g) # -2 /\ allowed(g)}
    IN CASE c.op = "HSET" ->
              {Does([base EXCEPT !.map = put, !.at = Restricted(@, DOMAIN @ \ names)], Num(Cardinality(names \ F)))}
         [] c.op = "HSETNX" -> IF FieldOf(f) \in F THEN {Says(v, Num(0))}
                               ELSE {Does([base EXCEPT !.map = put], Num(1))}
         [] c.op = "HGET" -> {Says(v, IF f \in F THEN Bulk(m[f]) ELSE Nil)}
         [] c.op = "HMGET" -> {Says(v, Bulks([i \in DOMAIN c.s |-> get(c.s[i])]))}
         [] c.op = "HEXISTS" -> {Says(v, Num(IF f \in F THEN 1 ELSE 0))}
         [] c.op = "HSTRLEN" -> {Says(v, Num(IF f \in F THEN Size(m[f]) ELSE 0))}
         [] c.op = "HLEN" -> {Says(v, Num(Cardinality(F)))}
         [] c.op = "HGETALL" -> {Says(v, Bulks(Sorted({Pair(g, m[g]) : g \in F})))}
         [] c.op = "HDEL" -> {Does(Without(v, ToSet(c.s)), Num(Cardinality(F \cap ToSet(c.s))))}
         [] c.op = "HINCRBY" -> IF (f \in F /\ ~IsNumber(m[f])) \/ (c.f /\ n > MaxInt) THEN {Says(v, Err)}
                                ELSE {Does([base EXCEPT !.map = (f :> n) @@ @], IF c.f THEN Num(n) ELSE Bulk(n))}
         [] c.op = "HRANDFIELD" ->
              {Says(v, Bulks(Sorted(T))) : T \in {U \in SUBSET F : Cardinality(U) = Lesser(c.i, Cardinality(F))}}
         [] c.op = "HEXPIRE" ->
              {Does(IF c.i <= now THEN Without(v, hit)
                    ELSE [v EXCEPT !.at = [g \in hit |-> c.i] @@ @],
                    Bulks([i \in DOMAIN c.s |-> IF deadline(c.s[i]) = -2 THEN -2
                                                ELSE IF ~allowed(c.s[i]) THEN 0 ELSE IF c.i <= now THEN 2 ELSE 1]))}
         [] c.op = "HEXPIRETIME" -> {Says(v, Bulks([i \in DOMAIN c.s |-> deadline(c.s[i])]))}
         [] c.op = "HPERSIST" ->
              {Says([v EXCEPT !.at = Restricted(@, DOMAIN @ \ {g \in ToSet(c.s) : deadline(g) # -2})],
                    Bulks([i \in DOMAIN c.s |-> IF deadline(c.s[i]) < 0 THEN deadline(c.s[i]) ELSE 1]))}

---------------------------------------------------------------------------
(* Sorted sets *)

Before(m, v, w) == m[v] < m[w] \/ (m[v] = m[w] /\ Precedes(v, w))
\* The members of a map by score, and by name where scores are equal.
InOrder(m, S) == Lined(S, LAMBDA v, w : Before(m, v, w))
Above(i, x, excluded, less(_, _)) == less(i, x) \/ (x = i /\ ~excluded)

OfZset(c, v) ==
    LET m == v.map
        S == DOMAIN m
        all == InOrder(m, S)
        n == Len(all)
        item(w) == Scored(w, m[w])
        to(g) == [IF v.type = "zset" THEN v ELSE [Nothing EXCEPT !.type = "zset"] EXCEPT !.map = g]
        incr == c.op = "ZINCRBY"
        new(g, e) == ScoreOf(e) + (IF incr /\ MemberOf(e) \in DOMAIN g THEN g[MemberOf(e)] ELSE 0)
        taken(g, e) == IF MemberOf(e) \in DOMAIN g
                       THEN /\ c.w # "nx" /\ (c.w = "gt" => new(g, e) > g[MemberOf(e)])
                            /\ (c.w = "lt" => new(g, e) < g[MemberOf(e)])
                       ELSE c.w # "xx"
        put == FoldLeft(LAMBDA g, e : IF taken(g, e) THEN (MemberOf(e) :> new(g, e)) @@ g ELSE g, m, c.s)
        changed == {w \in S : put[w] # m[w]}
        score(w) == IF w \in S THEN m[w] ELSE -1
        inside(k) == IF c.w = "rank"
                     THEN LET r == IF c.op = "ZREVRANGE" THEN n - k ELSE k - 1
                          IN r >= Normal(c.i, n) /\ r <= Normal(c.j, n)
                     ELSE IF c.w = "score"
                     THEN /\ Above(c.i, m[all[k]], c.f, LAMBDA a, b : a < b)
                          /\ Above(m[all[k]], c.j, c.g, LAMBDA a, b : a < b)
                     ELSE Above(c.i, all[k], c.f, Precedes) /\ Above(all[k], c.j, c.g, Precedes)
        hits == Sorted({k \in 1 .. n : inside(k)})
        listed == [k \in DOMAIN hits |-> item(all[hits[k]])]
        along == IF c.op = "ZREVRANGE" THEN Reverse(listed) ELSE listed
        pop == Lesser(c.i, n)
        ends == IF c.f THEN Reverse(SubSeq(all, n - pop + 1, n)) ELSE SubSeq(all, 1, pop)
    IN CASE c.op \in {"ZADD", "ZINCRBY"} ->
              {Does(to(put), IF incr THEN IF taken(m, c.s[1]) THEN Num(put[MemberOf(c.s[1])]) ELSE Nil
                             ELSE Num(Cardinality(DOMAIN put \ S) + IF c.f THEN Cardinality(changed) ELSE 0))}
         [] c.op = "ZREM" -> {Does(to(Restricted(m, S \ ToSet(c.s))), Num(Cardinality(S \cap ToSet(c.s))))}
         [] c.op = "ZREMRANGE" ->
              {Does(to(Restricted(m, S \ {all[hits[k]] : k \in DOMAIN hits})), Num(Len(hits)))}
         [] c.op \in {"ZPOP", "ZMPOP"} ->
              {IF S = {} THEN Says(v, IF c.op = "ZPOP" THEN Bulks(<<>>) ELSE Nil)
               ELSE Does(to(Restricted(m, S \ ToSet(ends))), Bulks([k \in DOMAIN ends |-> item(ends[k])]))}
         [] c.op = "ZCARD" -> {Says(v, Num(n))}
         [] c.op = "ZMSCORE" -> {Says(v, Bulks([k \in DOMAIN c.s |-> score(c.s[k])]))}
         [] c.op = "ZCOUNT" -> {Says(v, Num(Len(hits)))}
         [] c.op \in {"ZRANGE", "ZREVRANGE"} ->
              {Says(v, Bulks(SubSeq(along, c.s[1] + 1,
                                    IF c.s[2] < 0 THEN Len(along) ELSE Lesser(c.s[1] + c.s[2], Len(along)))))}
         [] c.op = "ZRANK" ->
              {Says(v, IF c.s[1] \notin S THEN Nil
                       ELSE LET below == Cardinality({w \in S : Before(m, w, c.s[1])})
                            IN Num(IF c.f THEN n - 1 - below ELSE below))}
         [] c.op = "ZRANDMEMBER" ->
              IF S = {} THEN {Says(v, Bulks(<<>>))}
              ELSE IF c.i < 0 THEN {Says(v, Bulks([k \in DOMAIN p |-> item(p[k])])) : p \in [1 .. -c.i -> S]}
              ELSE {Says(v, Bulks(Sorted({item(w) : w \in T}))) :
                      T \in {U \in SUBSET S : Cardinality(U) = Lesser(c.i, n)}}
         [] c.op = "ZREPLACE" -> {Does(to(FoldLeft(LAMBDA g, e : (MemberOf(e) :> ScoreOf(e)) @@ g, <<>>, c.s)), Ok)}
         [] c.op = "ZSORT" -> {Says(v, Ok)}

---------------------------------------------------------------------------
(* Strings *)

\* The number whose text a string is, if there is one.
NumberIn(s) == {n \in -IntLimit - 1 .. IntLimit : TextOf(n) = s}
Zeros(s, n) == s \o [i \in 1 .. n - Len(s) |-> 0]
BitsOf(s) == [p \in 0 .. Len(s) * ByteBits - 1 |->
                (s[p \div ByteBits + 1] \div 2 ^ (ByteBits - 1 - (p % ByteBits))) % 2]
Deadline(c) == IF c.e = "in" THEN c.i + now ELSE c.i
BadDeadline(c) == c.e # "none" /\ (c.i <= 0 \/ (c.e = "in" /\ c.i + now > IntLimit))
\* Positions of a range that may count from the end; bounds outside are moved inside.
Indices(i, j, n) ==
    LET first == Normal(i, n)
        last == Normal(j, n)
    IN IF i < 0 /\ j < 0 /\ i > j THEN {}
       ELSE {k \in 0 .. n - 1 : k >= first /\ (k <= last \/ (last < 0 /\ k = 0))}

OfString(c, v) ==
    LET s == v.seq
        has == v.type # "none"
        to(t) == [v EXCEPT !.type = "string", !.seq = t]
        fresh(t, d) == [Nothing EXCEPT !.type = "string", !.seq = t, !.d = d]
        old == IF has THEN Str(s) ELSE Nil
        new == Zeros(s, c.i + Len(c.s))
        bits == BitsOf(s)
        bit(p) == IF p \in DOMAIN bits THEN bits[p] ELSE 0
        units == IF c.f THEN Len(s) * ByteBits ELSE Len(s)
        within(i, j) == IF c.f THEN Indices(i, j, units)
                        ELSE {p \in DOMAIN bits : p \div ByteBits \in Indices(i, j, units)}
        sum == CHOOSE n \in {m + (IF c.op = "DECRBY" THEN -c.i ELSE c.i) :
                                m \in IF has THEN NumberIn(s) ELSE {0}} : TRUE
        first(P) == CHOOSE p \in P : \A q \in P : p <= q
    IN CASE c.op = "SET" ->
              IF BadDeadline(c) \/ (c.f /\ v.type \notin {"none", "string"}) THEN Says(v, Err)
              ELSE IF c.w = (IF has THEN "nx" ELSE "xx") THEN Says(v, IF c.f THEN old ELSE Nil)
              ELSE LET d == IF c.g /\ has THEN v.d ELSE IF c.e = "none" THEN -1 ELSE Deadline(c)
                   IN Says(IF d >= 0 /\ d <= now THEN Nothing ELSE fresh(c.s, d), IF c.f THEN old ELSE Ok)
         [] c.op = "SETNX" -> IF has THEN Says(v, Num(0)) ELSE Says(fresh(c.s, -1), Num(1))
         [] c.op = "SETEX" -> IF BadDeadline(c) THEN Says(v, Err) ELSE Says(fresh(c.s, Deadline(c)), Ok)
         [] c.op = "GETSET" -> Says(fresh(c.s, -1), old)
         [] c.op = "GET" -> Says(v, old)
         [] c.op = "GETDEL" -> Says(Nothing, old)
         [] c.op = "GETEX" ->
              IF ~has THEN Says(v, Nil) ELSE IF BadDeadline(c) THEN Says(v, Err)
              ELSE IF c.e = "none" THEN Says(IF c.f THEN [v EXCEPT !.d = -1] ELSE v, old)
              ELSE Says(IF Deadline(c) <= now THEN Nothing ELSE [v EXCEPT !.d = Deadline(c)], old)
         [] c.op = "APPEND" -> IF has /\ c.s # <<>> /\ Len(s) + Len(c.s) > MaxBulk THEN Says(v, Err)
                               ELSE Says(to(s \o c.s), Num(Len(s) + Len(c.s)))
         [] c.op = "STRLEN" -> Says(v, Num(Len(s)))
         [] c.op = "GETRANGE" -> Says(v, LET I == Indices(c.i, c.j, Len(s))
                                         IN Str(IF I = {} THEN <<>> ELSE SubSeq(s, first(I) + 1, first(I) + Cardinality(I))))
         [] c.op = "SETRANGE" ->
              IF c.i < 0 \/ (c.s # <<>> /\ c.i + Len(c.s) > MaxBulk) THEN Says(v, Err)
              ELSE IF c.s = <<>> THEN Says(v, Num(Len(s)))
              ELSE Says(to([k \in DOMAIN new |-> IF k - c.i \in DOMAIN c.s THEN c.s[k - c.i] ELSE new[k]]),
                        Num(Len(new)))
         [] c.op = "GETBIT" -> Says(v, IF c.i \div ByteBits >= MaxBulk THEN Err ELSE Num(bit(c.i)))
         [] c.op = "SETBIT" ->
              IF c.i \div ByteBits >= MaxBulk THEN Says(v, Err)
              ELSE Says(to(CHOOSE t \in {[Zeros(s, c.i \div ByteBits + 1) EXCEPT ![c.i \div ByteBits + 1] = b] :
                                            b \in 0 .. 2 ^ ByteBits - 1} :
                             LET after == BitsOf(t)
                             IN \A p \in DOMAIN after : after[p] = IF p = c.i THEN c.j ELSE bit(p)),
                        Num(bit(c.i)))
         [] c.op = "BITCOUNT" ->
              Says(v, Num(Cardinality({p \in IF c.g THEN within(c.i, c.j) ELSE DOMAIN bits : bits[p] = 1})))
         [] c.op = "BITPOS" ->
              Says(v, LET all == c.i = -9
                          P == IF all THEN DOMAIN bits ELSE within(c.i, IF c.j = -9 THEN -1 ELSE c.j)
                          hits == {p \in P : bits[p] = c.s[1]}
                      IN Num(IF ~has THEN -c.s[1] ELSE IF hits # {} THEN first(hits)
                             ELSE IF c.s[1] = 0 /\ c.j = -9 /\ P # {} THEN Len(s) * ByteBits ELSE -1))
         [] c.op \in {"INCRBY", "DECRBY"} ->
              IF \/ has /\ NumberIn(s) = {}
                 \/ c.op = "DECRBY" /\ c.i = -IntLimit - 1
                 \/ sum \notin -IntLimit - 1 .. IntLimit
              THEN Says(v, Err) ELSE Says(to(TextOf(sum)), Num(sum))
         [] c.op = "INCRBYFLOAT" ->
              IF has /\ ~IsFloat(s) THEN Says(v, Err)
              ELSE LET t == TextOf(c.i + IF has THEN FloatOf(s) ELSE 0) IN Says(to(t), Str(t))

---------------------------------------------------------------------------
(* Streams: seq is the log, deleted records included, more the counters and the groups *)

NoStream == [last |-> 0, maxdel |-> 0, added |-> 0, gs |-> NoGroups]
LogOf(s) == SelectSeq(s, LAMBDA r : ~r.del)
\* The ids an XADD may give its entry, the least of which it gives.
Addable(c, last) ==
    {id \in last + 1 .. MaxId : CASE c.w = "auto" -> id >= now * IdBase
                                  [] c.w = "ms" -> id \div IdBase = c.i
                                  [] c.w = "id" -> id = c.i}
\* What trimming leaves: the longest rest of the log that is short enough, or late enough, without
\* deleted records at its head unless it was left alone.
Trimmed(s, kind, n) ==
    LET rest(k) == SubSeq(s, k + 1, Len(s))
        fits(k) == IF kind = "maxlen" THEN Len(LogOf(rest(k))) <= n ELSE k = Len(s) \/ s[k + 1].id >= n
        clean(k) == kind = "maxlen" /\ k > 0 /\ k < Len(s) => ~s[k + 1].del
    IN IF kind = "none" \/ LogOf(s) = <<>> THEN s
       ELSE rest(CHOOSE k \in 0 .. Len(s) : fits(k) /\ clean(k) /\ \A j \in 0 .. k - 1 : ~(fits(j) /\ clean(j)))
OfRange(c, s) ==
    LET start == c.i + (IF c.f THEN 1 ELSE 0)
        end == c.j - (IF c.g THEN 1 ELSE 0)
        in == SelectSeq(s, LAMBDA r : ~r.del /\ r.id >= start /\ r.id <= end)
    IN Bulks(Written(Firsts(IF c.w = "rev" THEN Reverse(in) ELSE in, c.s[1])))
OfXinfo(v) ==
    LET live == LogOf(v.seq)
    IN <<Len(live), IF v.seq = <<>> THEN 0 ELSE 1, v.more.last, v.more.maxdel, v.more.added,
         IF live = <<>> THEN 0 ELSE live[1].id, Cardinality(DOMAIN v.more.gs.groups)>>
       \o (IF live = <<>> THEN <<>> ELSE Written(<<live[1], Last(live)>>))
ClaimOptions(c) ==
    [force |-> c.f, justid |-> c.g, kind |-> c.w, value |-> c.j,
     retry |-> IF c.e = "retry" THEN c.s[3] ELSE -1, lastid |-> IF c.e = "lastid" THEN c.s[3] ELSE -1]
OfStream(c, w) ==
    LET has == w.type # "none"
        v == IF has THEN w ELSE [Nothing EXCEPT !.type = "stream", !.more = NoStream]
        m == v.more
        s == v.seq
        live == LogOf(s)
        from(id) == s
        last(id) == IF id = -1 THEN m.last ELSE id
        in(res) == Says([v EXCEPT !.more = [m EXCEPT !.gs = res.gs]], res.r)
        of(g) == has /\ has_group(m.gs, g)
        refused == Says(w, Err)
        gone == {s[i].id : i \in {i \in DOMAIN s : ~s[i].del}} \cap ToSet(c.s)
    IN CASE c.op = "XADD" ->
              IF ~has /\ c.f /\ ~(c.w = "id" /\ c.i = 0) THEN Says(w, Nil)
              ELSE IF Addable(c, m.last) = {} THEN refused
              ELSE LET id == CHOOSE x \in Addable(c, m.last) : \A y \in Addable(c, m.last) : x <= y
                   IN Says([v EXCEPT !.seq = Trimmed(Append(s, [id |-> id, del |-> FALSE, f |-> c.s[1], v |-> c.s[2]]), c.e, c.j),
                                     !.more = [m EXCEPT !.last = id, !.added = @ + 1]], Num(id))
         [] c.op = "XLEN" -> Says(w, Num(Len(live)))
         [] c.op = "XTRIM" ->
              IF ~has THEN Says(w, Num(0))
              ELSE Says([v EXCEPT !.seq = Trimmed(s, c.e, c.j)], Num(Len(live) - Len(LogOf(Trimmed(s, c.e, c.j)))))
         [] c.op = "XDEL" ->
              IF gone = {} THEN Says(w, Num(0))
              ELSE Says([v EXCEPT !.seq = [i \in DOMAIN s |-> IF s[i].id \in gone THEN [s[i] EXCEPT !.del = TRUE] ELSE s[i]],
                                  !.more = [m EXCEPT !.maxdel = CHOOSE x \in gone \cup {@} : \A y \in gone \cup {@} : y <= x]],
                        Num(Cardinality(gone)))
         [] c.op = "XREAD" ->
              LET got == Firsts(SelectSeq(live, LAMBDA r : r.id > last(c.i)), c.j)
              IN Says(w, IF got = <<>> THEN Nil ELSE Bulks(Written(got)))
         [] c.op = "XSETID" ->
              IF \/ ~has \/ (s # <<>> /\ c.i < Last(s).id)
                 \/ c.i < (IF c.w = "deleted" THEN c.j ELSE m.maxdel)
                 \/ (IF c.w = "added" THEN c.j ELSE m.added) < Len(live) THEN refused
              ELSE Says([v EXCEPT !.more = [m EXCEPT !.last = c.i, !.maxdel = IF c.w = "deleted" THEN c.j ELSE @,
                                                     !.added = IF c.w = "added" THEN c.j ELSE @]], Ok)
         [] c.op = "XGROUP CREATE" ->
              IF of(c.s[1]) \/ (~has /\ ~c.f) THEN refused ELSE in(xgroup_create(m.gs, c.s[1], last(c.i), c.j))
         [] c.op = "XACK" -> IF has THEN in(xack(m.gs, c.s[1], Tail(c.s))) ELSE Says(w, Num(0))
         [] c.op = "XGROUP DESTROY" -> IF has THEN in(xgroup_destroy(m.gs, c.s[1])) ELSE refused
         [] c.op = "XINFO" /\ c.w = "stream" -> IF has THEN Says(w, Bulks(OfXinfo(v))) ELSE refused
         [] c.op = "XINFO" /\ c.w = "groups" -> IF has THEN Says(w, xinfo_groups(m.gs, from, m.added)) ELSE refused
         [] ~of(c.s[1]) -> refused
         [] c.op = "XGROUP CREATECONSUMER" -> in(xgroup_createconsumer(m.gs, c.s[1], c.s[2], now))
         [] c.op = "XGROUP DELCONSUMER" -> in(xgroup_delconsumer(m.gs, c.s[1], c.s[2]))
         [] c.op = "XGROUP SETID" -> in(xgroup_setid(m.gs, c.s[1], last(c.i), c.j))
         [] c.op = "XREADGROUP" -> in(xreadgroup(m.gs, c.s[1], c.s[2], c.i, c.j, c.f, from, m.added, now))
         [] c.op = "XPENDING" ->
              Says(w, IF c.w = "summary" THEN xpending_summary(m.gs.groups[c.s[1]])
                      ELSE xpending_range(m.gs.groups[c.s[1]], c.i, c.j, c.s[2], c.s[3], c.s[4], now))
         [] c.op = "XCLAIM" ->
              in(xclaim(m.gs, c.s[1], c.s[2], c.i, SubSeq(c.s, 4, Len(c.s)), ClaimOptions(c), from, now))
         [] c.op = "XAUTOCLAIM" ->
              in(xautoclaim(m.gs, c.s[1], c.s[2], c.i, c.j, c.s[3], c.g,
                            LAMBDA id : Sought(SelectSeq(s, LAMBDA r : r.id = id), id), now))
         [] c.op = "XINFO" -> Says(w, xinfo_consumers(m.gs.groups[c.s[1]], now))

---------------------------------------------------------------------------
(* HyperLogLogs: the registers that are not zero *)

Higher(f, g) ==
    [i \in DOMAIN f \cup DOMAIN g |->
       IF i \notin DOMAIN g \/ (i \in DOMAIN f /\ f[i] >= g[i]) THEN f[i] ELSE g[i]]
Hashed(es) == FoldLeft(LAMBDA m, e : Higher(m, (IndexOf(e) + 1 :> RankOf(e))), <<>>, es)
Rank(m, i) == IF i \in DOMAIN m THEN m[i] ELSE 0
Ranks(m) == [r \in 0 .. RankTop |-> Cardinality({i \in 1 .. Registers : Rank(m, i) = r})]
OfHll(c, v) ==
    LET has == v.type # "none"
        with(m) == [v EXCEPT !.type = "string", !.seq = <<Hyll>>, !.map = m]
        new == Higher(v.map, Hashed(c.s))
    IN CASE has /\ (v.type # "string" \/ v.seq # <<Hyll>>) -> {Says(v, Err)}
         [] c.op = "PFADD" -> {IF has /\ new = v.map THEN Says(v, Num(0)) ELSE Says(with(new), Num(1))}
         [] c.op = "PFCOUNT" -> {Says(v, Num(IF has THEN Estimate(Ranks(v.map)) ELSE 0))}
         [] c.op = "PFMERGE" -> {Says(with(new), Ok)}
         [] ~has -> {Says(v, Err)}
         [] c.w = "todense" -> {Says(v, Num(0)), Says(v, Num(1))}
         [] OTHER -> {Says(v, Bulks([i \in 1 .. Registers |-> Rank(v.map, i)]))}

---------------------------------------------------------------------------
(* Any type *)

HllCommands == {"PFADD", "PFCOUNT", "PFMERGE", "PFDEBUG"}

StreamCommands == {"XADD", "XLEN", "XTRIM", "XDEL", "XREAD", "XSETID", "XGROUP CREATE", "XGROUP DESTROY",
                   "XGROUP CREATECONSUMER", "XGROUP DELCONSUMER", "XGROUP SETID", "XREADGROUP", "XACK", "XPENDING",
                   "XCLAIM", "XAUTOCLAIM", "XINFO"}
ListCommands == {"PUSH", "PUSHX", "POP", "LLEN", "LINDEX", "LRANGE", "LSET", "LINSERT", "LREM", "LTRIM",
                 "LPOS", "GIVE", "LMPOP", "TAKE"}
SetCommands == {"SADD", "SREM", "SMISMEMBER", "SCARD", "SMEMBERS", "SPOP", "SRANDMEMBER", "SGIVE", "STAKE"}
HashCommands == {"HSET", "HSETNX", "HGET", "HMGET", "HEXISTS", "HSTRLEN", "HLEN", "HGETALL", "HDEL", "HINCRBY",
                 "HRANDFIELD", "HEXPIRE", "HEXPIRETIME", "HPERSIST"}
ZsetCommands == {"ZADD", "ZINCRBY", "ZREM", "ZREMRANGE", "ZPOP", "ZMPOP", "ZCARD", "ZMSCORE", "ZCOUNT", "ZRANGE",
                 "ZREVRANGE", "ZRANK", "ZRANDMEMBER", "ZREPLACE", "ZSORT"}

StringCommands == {"SETNX", "SETEX", "GETSET", "GET", "GETDEL", "GETEX", "APPEND", "STRLEN", "GETRANGE", "SETRANGE",
                   "GETBIT", "SETBIT", "BITCOUNT", "BITPOS", "INCRBY", "DECRBY", "INCRBYFLOAT"}

Expired(v) == v.d >= 0 /\ v.d <= now
Gone(v) == Expired(v) \/ Live(v) = Nothing
\* The conditions of EXPIRE: no deadline counts as the latest.
Allowed(w, d, when) ==
    /\ w = "nx" => d < 0
    /\ w \in {"xx", "xxgt", "xxlt"} => d >= 0
    /\ w \in {"gt", "xxgt"} => d >= 0 /\ when > d
    /\ w \in {"lt", "xxlt"} => d < 0 \/ when < d
\* The value w under its own deadline, without the fields that have lapsed since it was dumped.
OfRestore(c, v, w) ==
    LET when == IF c.i = 0 THEN -1 ELSE IF c.g THEN c.i ELSE c.i + now
        refused == \/ Len(c.s) > 2 \/ (c.s # <<>> /\ (c.s[2] < 0 \/ (c.s[1] = 2 /\ c.s[2] > MaxFreq)))
                   \/ (v.type # "none" /\ ~c.f) \/ c.i < 0 \/ c.i > IntLimit
                   \/ c.e # "none" \/ w.type = "none"
    IN IF refused THEN Says(v, Err)
       ELSE IF c.i # 0 /\ when \notin now + 1 .. IntLimit THEN Says(Nothing, Ok)
       ELSE Says(Live([w EXCEPT !.d = when]), Ok)
OfAny(c, v) ==
    CASE c.op = "DEL" -> {Says(Nothing, Num(IF v.type = "none" THEN 0 ELSE 1))}
      [] c.op = "EXPIRE" ->
           {IF c.e = "in" /\ c.i + now > IntLimit THEN Says(v, Err)
            ELSE IF v.type = "none" \/ ~Allowed(c.w, v.d, Deadline(c)) THEN Says(v, Num(0))
            ELSE Says(IF Deadline(c) <= now THEN Nothing ELSE [v EXCEPT !.d = Deadline(c)], Num(1))}
      [] c.op = "TTL" -> {Says(v, Num(IF v.type = "none" THEN -2 ELSE IF v.d < 0 THEN -1
                                      ELSE IF c.f THEN v.d ELSE v.d - now))}
      [] c.op = "PERSIST" -> {Says([v EXCEPT !.d = -1], Num(IF v.d < 0 THEN 0 ELSE 1))}
      [] c.op = "EXISTS" -> {Says(v, Num(IF v.type = "none" THEN 0 ELSE 1))}
      [] c.op = "TYPE" -> {Says(v, [Ok EXCEPT !.t = v.type])}
      [] c.op = "SET" -> {OfString(c, v)}
      [] c.op = "XRANGE" -> {Says(v, IF c.s[1] < 0 THEN Nil
                                     ELSE IF \/ v.type \notin {"stream", "none"} \/ (c.f /\ c.i = MaxId)
                                             \/ (c.g /\ c.j = 0) THEN Err
                                     ELSE OfRange(c, v.seq))}
      [] c.op = "RELOAD" /\ v.type = "stream" ->
           {Says([v EXCEPT !.more = [v.more EXCEPT !.gs = stream_groups_snapshot_load(v.more.gs)]], Ok)}
      [] c.op = "RELOAD" -> {Says(Live(v), Ok)}
      [] c.op = "DUMP" -> {Says(v, IF v.type = "none" THEN Nil ELSE IF v.type = "stream" THEN Err ELSE Ok)}
      [] c.op = "RESTORE" -> {OfRestore(c, v, IF c.w = "own" THEN saved ELSE Meaning[c.w])}
      [] c.op \in {"SSCAN", "HSCAN", "ZSCAN"} -> {Says(v, Nil), Says(Live(v), Nil)}

\* A hash command is given the live fields, except under a capture, where all are still there.
Answered(c, v) ==
    IF c.op \in ListCommands THEN IF v.type \in {"list", "none"} THEN {OfList(c, v)} ELSE {Says(v, Err)}
    ELSE IF c.op \in SetCommands THEN IF v.type \in {"set", "none"} THEN OfSet(c, v) ELSE {Says(v, Err)}
    ELSE IF c.op \in ZsetCommands THEN IF v.type \in {"zset", "none"} THEN OfZset(c, v) ELSE {Says(v, Err)}
    ELSE IF c.op \in StreamCommands THEN {IF v.type \in {"stream", "none"} THEN OfStream(c, v) ELSE Says(v, Err)}
    ELSE IF c.op \in HllCommands THEN OfHll(c, v)
    ELSE IF c.op = "SETNX" /\ v.type # "none" THEN {Says(v, Num(0))}
    ELSE IF c.op = "SETEX" THEN {OfString(c, v)}
    ELSE IF c.op \in StringCommands THEN {IF v.type \in {"string", "none"} THEN OfString(c, v) ELSE Says(v, Err)}
    ELSE IF c.op \in HashCommands
         THEN IF v.type \in {"hash", "none"} THEN OfHash(c, IF cap THEN v ELSE Live(v)) ELSE {Says(v, Err)}
    ELSE OfAny(c, v)

Command ==
    /\ op' # op
    /\ UNCHANGED <<now, cap>>
    /\ \E v \in {IF Expired(val) THEN Nothing ELSE val} : \E a \in Answered(op', v) :
          /\ reply' = a.r
          /\ saved' = IF op'.op = "DUMP" /\ a.r = Ok THEN [v EXCEPT !.d = -1] ELSE saved
          \* what reads as absent may be left to be collected later
          /\ \/ val' = a.v
             \/ a.v = Nothing /\ Gone(val') /\ (val' = val \/ op'.op \in {"RELOAD", "RESTORE"})
\* Lapsed fields are collected by accesses and by the expire cycle.
Collect == val' = Live(val) /\ ~cap /\ UNCHANGED <<now, cap, saved, op, reply>>
Tick == now' = now + 1 /\ UNCHANGED <<val, cap, saved, op, reply>>
Capture == cap' = ~cap /\ UNCHANGED <<val, now, saved, op, reply>>

Init == val = Nothing /\ now = 0 /\ ~cap /\ saved = Nothing /\ reply = Nil /\ op.op = "none"
Next == Command \/ Collect \/ Tick \/ Capture
Spec == Init /\ [][Next]_<<val, now, cap, saved, op, reply>>
=============================================================================
