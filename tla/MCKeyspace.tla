----------------------------- MODULE MCKeyspace -----------------------------
(***************************************************************************)
(* A key under small families of commands.  Numbers stand for bytes: 1..9  *)
(* are integers, 11 and 12 short texts, 13 a text longer than packed       *)
(* collections take; 100*w + v is an integer in w bytes, 1000*f + v a      *)
(* field with its value.                                                   *)
(***************************************************************************)
EXTENDS Keyspace

MCSize(e) ==
    LET text(v) == IF v = 0 THEN 0 ELSE IF v <= 2 THEN 1 ELSE IF v < 10 THEN 5 ELSE IF v = 13 THEN 9 ELSE 2
    IN IF e < 100 THEN text(e) ELSE IF e < 1000 THEN e \div 100
       ELSE IF e < 100000 THEN 1 + text(e \div 1000) + text(e % 1000)
       ELSE IF e < 1000000 THEN 2 + text((e \div 10) % 100)
       ELSE IF e < 10000000 THEN text((e \div 100) % 100) + text(e % 100)
       ELSE 2
MCIsInt(v) == v < 10
MCLess(v, w) == v < w
MCWidthFor(v) == IF v <= 2 THEN 2 ELSE 4
MCHashOf(v) == IF v < 10 THEN 3 * v ELSE v
MCBin(v, w) == 100 * w + v
MCUnbin(e) == e % 100
MCPair(f, v) == 1000 * f + v
MCFieldOf(e) == e \div 1000
MCValueOf(e) == e % 1000
MCScored(v, s) == 100000 + 10 * v + s
MCMemberOf(e) == (e \div 10) % 100
MCScoreOf(e) == e % 10

C(name, s, i, j, f) == [op |-> name, s |-> s, i |-> i, j |-> j, f |-> f, g |-> FALSE, w |-> "none", e |-> "none", n |-> 0]
W(i, w, s) == [op |-> "HEXPIRE", s |-> s, i |-> i, j |-> 0, f |-> FALSE, g |-> FALSE, w |-> w, e |-> "none", n |-> 0]
Z(name, s, w, f) == [C(name, s, 0, 0, f) EXCEPT !.w = w]
R(name, w, i, j, f, g, s) == [C(name, s, i, j, f) EXCEPT !.w = w, !.g = g]
Z1(v, s) == MCScored(v, s)
MCNoCommand == C("none", <<>>, 0, 0, FALSE)
E(name, s, e, i, w) == [C(name, s, i, 0, FALSE) EXCEPT !.e = e, !.w = w]
P(cmds, n) == [cmds |-> cmds, left |-> n, ticks |-> 0, captures |-> 0, rooms |-> {TRUE}, levels |-> {1, 2}]

\* Lists: pushes and pops at both ends
Ends == P({C("PUSH", <<1, 11>>, 0, 0, TRUE), C("PUSH", <<12, 2>>, 0, 0, FALSE), C("PUSH", <<13>>, 0, 0, FALSE),
           C("POP", <<>>, -1, 0, TRUE), C("POP", <<>>, 2, 0, FALSE), C("LRANGE", <<>>, 0, -1, FALSE),
           C("RELOAD", <<>>, 0, 0, FALSE)}, 6)
\* Lists: changes in the middle
Middle == P({C("PUSH", <<11, 12, 11>>, 0, 0, FALSE), C("LSET", <<13>>, -1, 0, FALSE), C("LSET", <<1>>, 1, 0, FALSE),
             C("LINSERT", <<12, 2>>, 0, 0, TRUE), C("LINSERT", <<11, 13>>, 0, 0, FALSE),
             C("LREM", <<11>>, 1, 0, FALSE), C("LREM", <<11>>, -2, 0, FALSE), C("LTRIM", <<>>, 1, -2, FALSE),
             C("TAKE", <<12>>, 0, 0, TRUE), C("POP", <<>>, -1, 0, TRUE)}, 4)
\* Lists: reads
Reading == P({C("PUSH", <<11, 12, 11>>, 0, 0, FALSE), C("PUSHX", <<2>>, 0, 0, TRUE), C("LLEN", <<>>, 0, 0, FALSE),
              C("LINDEX", <<>>, -2, 0, FALSE), C("LINDEX", <<>>, 3, 0, FALSE), C("LRANGE", <<>>, -3, 7, FALSE),
              C("LPOS", <<11>>, 1, -1, FALSE), C("LPOS", <<11>>, -2, 0, FALSE), C("LPOS", <<11>>, 2, 1, FALSE),
              C("LPOS", <<11>>, -1, 1, TRUE), C("TAKE", <<11>>, 0, 0, FALSE)}, 4)
\* Lists and sets: the hops of moves
Moves == P({C("GIVE", <<11>>, 0, 0, TRUE), C("GIVE", <<13>>, 0, 0, FALSE), C("LMPOP", <<>>, 2, 0, TRUE), C("TAKE", <<11>>, 0, 0, FALSE),
            C("SGIVE", <<1>>, 0, 0, FALSE), C("SGIVE", <<11>>, 0, 0, FALSE), C("SGIVE", <<13>>, 0, 0, FALSE),
            C("STAKE", <<11>>, 0, 0, FALSE), C("STAKE", <<13>>, 0, 0, FALSE)}, 6)
\* Sets: integers, texts and the table
Changing == P({C("SADD", <<1>>, 0, 0, FALSE), C("SADD", <<3, 2>>, 0, 0, FALSE), C("SADD", <<2, 11>>, 0, 0, FALSE),
               C("SADD", <<13>>, 0, 0, FALSE), C("SREM", <<2>>, 0, 0, FALSE), C("SREM", <<1, 11>>, 0, 0, FALSE),
               C("SMEMBERS", <<>>, 0, 0, FALSE), C("RELOAD", <<>>, 0, 0, FALSE)}, 5)
\* Sets: random members
Random == P({C("SADD", <<1, 2, 11>>, 0, 0, FALSE), C("SADD", <<13>>, 0, 0, FALSE), C("SPOP", <<>>, -1, 0, FALSE),
             C("SPOP", <<>>, 2, 0, FALSE), C("SRANDMEMBER", <<>>, 2, 0, FALSE),
             C("SRANDMEMBER", <<>>, -2, 0, FALSE), C("SMISMEMBER", <<1, 12, 13>>, 0, 0, FALSE),
             C("SCARD", <<>>, 0, 0, FALSE)}, 4)
\* Sets: a scan while the table is rebuilt
SetScan == P({C("SADD", <<11, 12, 1, 13>>, 0, 0, FALSE), C("SADD", <<2, 3>>, 0, 0, FALSE),
              C("SREM", <<11>>, 0, 0, FALSE), C("SREM", <<2>>, 0, 0, FALSE), C("SSCAN", <<>>, 1, 0, FALSE)}, 7)
\* Hashes: packed and expanded
Fields == P({C("HSET", <<11001>>, 0, 0, FALSE), C("HSET", <<12002, 11003>>, 0, 0, FALSE),
             C("HSET", <<1013>>, 0, 0, FALSE), C("HSETNX", <<13001>>, 0, 0, FALSE),
             C("HDEL", <<11>>, 0, 0, FALSE), C("HDEL", <<12, 1>>, 0, 0, FALSE),
             C("HINCRBY", <<11>>, 1, 0, TRUE), C("HINCRBY", <<12>>, 1, 0, FALSE),
             C("RELOAD", <<>>, 0, 0, FALSE)}, 4)
\* Hashes: reads
Looking == P({C("HSET", <<11001, 12013>>, 0, 0, FALSE), C("HSETNX", <<12001>>, 0, 0, FALSE),
              C("HGET", <<11>>, 0, 0, FALSE), C("HMGET", <<12, 13>>, 0, 0, FALSE),
              C("HEXISTS", <<12>>, 0, 0, FALSE), C("HSTRLEN", <<12>>, 0, 0, FALSE), C("HLEN", <<>>, 0, 0, FALSE),
              C("HGETALL", <<>>, 0, 0, FALSE), C("HRANDFIELD", <<>>, 1, 0, FALSE),
              C("HINCRBY", <<12>>, 1, 0, TRUE), C("HDEL", <<11>>, 0, 0, FALSE)}, 4)
\* Hashes: a scan while the map grows and shrinks
MapScan == P({C("HSET", <<11001, 12001, 13001>>, 0, 0, FALSE), C("HSET", <<1001, 2001, 3001>>, 0, 0, FALSE),
              C("HDEL", <<11, 1, 2>>, 0, 0, FALSE), C("HDEL", <<12, 3>>, 0, 0, FALSE),
              C("HSET", <<13001>>, 0, 0, FALSE), C("HSCAN", <<>>, 1, 0, FALSE)}, 6)
\* Hashes: deadlines of fields
Lapses == [P({C("HSET", <<11001, 12002>>, 0, 0, FALSE), C("HSETNX", <<11003>>, 0, 0, FALSE),
              C("HDEL", <<11>>, 0, 0, FALSE), C("HINCRBY", <<11>>, 1, 0, TRUE), C("HLEN", <<>>, 0, 0, FALSE),
              W(1, "none", <<11, 12>>), W(2, "gt", <<11>>), W(0, "none", <<12>>),
              C("HPERSIST", <<12>>, 0, 0, FALSE), C("RELOAD", <<>>, 0, 0, FALSE), C("DEL", <<>>, 0, 0, FALSE)}, 4)
             EXCEPT !.ticks = 2, !.captures = 1, !.rooms = BOOLEAN]
Conditions == [P({C("HSET", <<11001, 12002>>, 0, 0, FALSE), W(2, "nx", <<11>>), W(1, "lt", <<11, 13>>),
                  W(2, "xx", <<12, 11>>), W(1, "none", <<12>>), C("HEXPIRETIME", <<11, 12>>, 0, 0, FALSE),
                  C("HPERSIST", <<11>>, 0, 0, FALSE)}, 5) EXCEPT !.ticks = 2]
\* Sorted sets: members come, move and go
Scores == P({Z("ZADD", <<Z1(11, 5), Z1(12, 3)>>, "none", FALSE), Z("ZADD", <<Z1(13, 4)>>, "none", FALSE),
             Z("ZADD", <<Z1(11, 4), Z1(1, 3)>>, "gt", TRUE),
             Z("ZADD", <<Z1(12, 1), Z1(2, 5)>>, "lt", TRUE), Z("ZINCRBY", <<Z1(12, 2)>>, "none", FALSE),
             Z("ZREM", <<11, 2>>, "none", FALSE), C("ZPOP", <<>>, 2, 0, TRUE), C("ZMPOP", <<>>, 1, 0, FALSE),
             C("RELOAD", <<>>, 0, 0, FALSE)}, 4)
\* Sorted sets: ranges
Ranges == P({Z("ZADD", <<Z1(11, 2), Z1(12, 3), Z1(1, 3)>>, "nx", FALSE), Z("ZADD", <<Z1(13, 2), Z1(11, 4), Z1(12, 3), Z1(1, 3)>>, "none", FALSE),
             C("ZSORT", <<>>, 0, 0, FALSE),
             R("ZREMRANGE", "rank", 1, -2, FALSE, FALSE, <<>>), R("ZREMRANGE", "score", 2, 3, TRUE, FALSE, <<>>),
             R("ZCOUNT", "score", 2, 4, FALSE, TRUE, <<>>), R("ZCOUNT", "score", 3, 3, FALSE, TRUE, <<>>),
             R("ZRANGE", "score", 1, 3, FALSE, FALSE, <<1, 1>>), R("ZREVRANGE", "score", 2, 4, FALSE, TRUE, <<1, -1>>),
             R("ZRANGE", "rank", -3, 9, FALSE, FALSE, <<0, -1>>), R("ZREVRANGE", "rank", 1, 2, FALSE, FALSE, <<0, -1>>),
             Z("ZRANK", <<11>>, "none", TRUE), Z("ZRANK", <<1>>, "none", FALSE),
             C("ZMSCORE", <<11, 2>>, 0, 0, FALSE), C("ZCARD", <<>>, 0, 0, FALSE),
             C("ZRANDMEMBER", <<>>, 2, 0, FALSE), C("ZRANDMEMBER", <<>>, -2, 0, FALSE),
             Z("ZADD", <<Z1(12, 9), Z1(2, 1)>>, "xx", TRUE), Z("ZINCRBY", <<Z1(12, 1)>>, "nx", FALSE)}, 3)
\* Sorted sets: ranges by member, all scores equal
Lex == P({Z("ZADD", <<Z1(11, 1), Z1(2, 1)>>, "none", FALSE), Z("ZADD", <<Z1(13, 1), Z1(12, 1)>>, "none", FALSE),
          R("ZREMRANGE", "lex", 2, 12, TRUE, TRUE, <<>>), R("ZCOUNT", "lex", 2, 12, FALSE, FALSE, <<>>),
          R("ZRANGE", "lex", 3, 99, FALSE, FALSE, <<0, 1>>), R("ZREVRANGE", "lex", 0, 12, FALSE, TRUE, <<0, -1>>),
          C("ZREPLACE", <<Z1(1, 1), Z1(12, 1)>>, 0, 0, FALSE), C("ZREPLACE", <<>>, 0, 0, FALSE)}, 4)
\* Sorted sets: a scan while the table of members grows
ZsetScan == [P({Z("ZADD", <<Z1(11, 1), Z1(12, 1), Z1(13, 1)>>, "none", FALSE),
                Z("ZADD", <<Z1(1, 2), Z1(2, 2)>>, "none", FALSE), Z("ZADD", <<Z1(3, 2)>>, "none", FALSE),
                Z("ZREM", <<11, 1>>, "none", FALSE), C("ZSCAN", <<>>, 1, 0, FALSE)}, 7) EXCEPT !.levels = {1}]
\* Streams: entries come, are trimmed and deleted
X(name, s, i, j) == C(name, s, i, j, FALSE)
Add(f, v, w, i, e, j) == [C("XADD", <<f, v>>, i, j, FALSE) EXCEPT !.w = w, !.e = e]
By(name, w, s, i, j) == [C(name, s, i, j, FALSE) EXCEPT !.w = w]
Shorten(kind, n) == [C("XTRIM", <<>>, 0, n, FALSE) EXCEPT !.e = kind]
Small == [bytes |-> 14, entries |-> 2]
Default == [bytes |-> 18, entries |-> 3]
Log == [P({Add(1, 1, "auto", 0, "none", 0), Add(11, 12, "id", 6, "none", 0), Add(2, 2, "auto", 0, "maxlen", 3),
           Add(2, 1, "auto", 0, "minid", 3), X("XDEL", <<1, 5>>, 0, 0), X("XDEL", <<2>>, 0, 0), Shorten("maxlen", 1),
           Shorten("minid", 6), X("RELOAD", <<>>, 0, 0)}, 4) EXCEPT !.ticks = 1]
\* Streams: many entries in several nodes
Rolls == P({Add(1, 1, "auto", 0, "none", 0), Add(2, 13, "auto", 0, "none", 0), X("XDEL", <<3>>, 0, 0),
            X("XDEL", <<1, 2>>, 0, 0), Shorten("maxlen", 2), Shorten("minid", 4), X("RELOAD", <<>>, 0, 0)}, 6)
\* Streams: reads, and the ids that may be given
Given == [P({Add(1, 1, "ms", 0, "none", 0), Add(1, 2, "ms", 1, "none", 0), Add(1, 2, "id", 14, "none", 0),
                [Add(2, 1, "auto", 0, "none", 0) EXCEPT !.f = TRUE], X("XDEL", <<2>>, 0, 0),
                By("XRANGE", "rev", <<0>>, 2, 15), R("XRANGE", "rev", 1, 5, FALSE, TRUE, <<1>>),
                R("XRANGE", "fwd", 1, 14, TRUE, FALSE, <<2>>), R("XRANGE", "fwd", 15, 15, TRUE, FALSE, <<0>>),
                By("XRANGE", "fwd", <<-1>>, 0, 15),
                X("XREAD", <<>>, 1, 1), X("XREAD", <<>>, -1, 0), X("XLEN", <<>>, 0, 0), By("XINFO", "stream", <<>>, 0, 0),
                By("XSETID", "none", <<>>, 15, 0), By("XSETID", "added", <<>>, 5, 1), By("XSETID", "deleted", <<>>, 6, 4)}, 4)
               EXCEPT !.ticks = 1]
\* Streams: groups
Groups == [P({Add(1, 1, "auto", 0, "none", 0), C("XGROUP CREATE", <<1>>, 0, -1, TRUE), X("XREADGROUP", <<1, 3>>, -1, 1),
              X("XREADGROUP", <<1, 1>>, -1, -1), X("XREADGROUP", <<1, 3>>, 0, -1), X("XACK", <<1, 1>>, 0, 0),
              By("XCLAIM", "none", <<1, 1, 0, 1, 2>>, 1, 0), X("XAUTOCLAIM", <<1, 3, 1>>, 0, 0), X("XDEL", <<1>>, 0, 0),
              X("XGROUP DELCONSUMER", <<1, 3>>, 0, 0), X("RELOAD", <<>>, 0, 0)}, 5) EXCEPT !.ticks = 1]
\* Streams: what is pending
Pending == [P({Add(1, 1, "auto", 0, "none", 0), C("XGROUP CREATE", <<1>>, -1, 0, FALSE), X("XGROUP SETID", <<1>>, 0, 1),
               X("XGROUP CREATECONSUMER", <<1, 3>>, 0, 0), X("XGROUP DESTROY", <<1>>, 0, 0),
               C("XREADGROUP", <<1, 1>>, -1, 1, TRUE), X("XREADGROUP", <<1, 1>>, -1, -1),
               By("XPENDING", "summary", <<1>>, 0, 0), By("XPENDING", "range", <<1, 1, 0, 1>>, 0, 9),
               By("XINFO", "groups", <<1>>, 0, 0), By("XINFO", "consumers", <<1>>, 0, 0),
               [R("XCLAIM", "idle", 0, 1, TRUE, FALSE, <<1, 3, 2, 1>>) EXCEPT !.e = "retry"],
               [R("XCLAIM", "time", 0, 1, FALSE, TRUE, <<1, 3, 2, 1>>) EXCEPT !.e = "lastid"],
               [X("XAUTOCLAIM", <<1, 3, 2>>, 1, 0) EXCEPT !.g = TRUE]}, 5) EXCEPT !.ticks = 2]
\* All types under one key, with a deadline of the key
Mixed == [P({C("PUSH", <<11>>, 0, 0, FALSE), C("SADD", <<1, 13>>, 0, 0, FALSE), C("HSET", <<11001>>, 0, 0, FALSE),
             C("PUSH", <<12, 12, 12>>, 0, 0, TRUE), C("SADD", <<12>>, 0, 0, FALSE), C("HSET", <<12013>>, 0, 0, FALSE),
             Z("ZADD", <<Z1(11, 1)>>, "none", FALSE), E("EXPIRE", <<>>, "at", 2, "none"), C("DEL", <<>>, 0, 0, FALSE), C("RELOAD", <<>>, 0, 0, FALSE),
             C("SSCAN", <<>>, 1, 0, FALSE), C("HSCAN", <<>>, 1, 0, FALSE)}, 4) EXCEPT !.ticks = 2]

\* Strings: SET, numbers and text
Texts == P({C("SET", <<2, 3>>, 0, 0, FALSE), C("SET", <<14>>, 0, 0, TRUE), C("SETNX", <<11, 4>>, 0, 0, FALSE),
            C("GETSET", <<1, 8>>, 0, 0, FALSE), C("APPEND", <<3>>, 0, 0, FALSE), C("APPEND", <<>>, 0, 0, FALSE),
            C("APPEND", <<14, 12, 13>>, 0, 0, FALSE),
            C("INCRBY", <<>>, 2, 0, FALSE), C("INCRBY", <<>>, -13, 0, FALSE), C("DECRBY", <<>>, 7, 0, FALSE),
            C("DECRBY", <<>>, -13, 0, FALSE), C("INCRBYFLOAT", <<>>, 5, 0, FALSE), C("GETDEL", <<>>, 0, 0, FALSE),
            C("RELOAD", <<>>, 0, 0, FALSE)}, 4)
\* Strings: parts and bits
Parts == P({C("SET", <<15, 0, 9>>, 0, 0, FALSE), C("SET", <<2, 1>>, 0, 0, FALSE), C("APPEND", <<15, 15>>, 0, 0, FALSE),
            C("GETRANGE", <<>>, 1, -1, FALSE), C("GETRANGE", <<>>, -2, -3, FALSE), C("GETRANGE", <<>>, -9, -8, FALSE),
            C("SETRANGE", <<12>>, 4, 0, FALSE), C("SETRANGE", <<13, 14>>, 1, 0, FALSE), C("SETRANGE", <<>>, 1, 0, FALSE),
            C("SETRANGE", <<12>>, 9, 0, FALSE), C("STRLEN", <<>>, 0, 0, FALSE), C("GET", <<>>, 0, 0, FALSE),
            C("SETBIT", <<>>, 6, 1, FALSE), C("SETBIT", <<>>, 2, 0, FALSE), C("SETBIT", <<>>, 30, 0, FALSE),
            C("GETBIT", <<>>, 5, 0, FALSE), C("GETBIT", <<>>, 11, 0, FALSE),
            C("BITCOUNT", <<>>, 0, 0, FALSE), R("BITCOUNT", "none", 1, -2, FALSE, TRUE, <<>>),
            R("BITCOUNT", "none", 2, 9, TRUE, TRUE, <<>>), R("BITCOUNT", "none", -3, -1, TRUE, TRUE, <<>>),
            R("BITCOUNT", "none", -1, -3, TRUE, TRUE, <<>>),
            C("BITPOS", <<0>>, -9, -9, FALSE), C("BITPOS", <<1>>, 1, -9, FALSE), C("BITPOS", <<0>>, 2, -1, FALSE),
            C("BITPOS", <<1>>, 3, 10, TRUE), C("BITPOS", <<0>>, -7, -2, TRUE)}, 3)
\* Deadlines of keys
Deadlines == [P({C("SET", <<2>>, 0, 0, FALSE), E("SET", <<12>>, "at", 2, "xx"), E("SET", <<13>>, "in", 1, "nx"),
                 E("SET", <<13>>, "in", 12, "none"), E("SETEX", <<15, 15, 15, 15, 15>>, "in", 2, "none"),
                 R("SET", "none", 0, 0, TRUE, TRUE, <<14, 14>>), R("SET", "none", 0, 0, FALSE, TRUE, <<3>>),
                 C("PUSH", <<11>>, 0, 0, FALSE), C("APPEND", <<12>>, 0, 0, FALSE), C("INCRBY", <<>>, 1, 0, FALSE),
                 E("GETEX", <<>>, "at", 1, "none"), C("GETEX", <<>>, 0, 0, TRUE), E("SETEX", <<3>>, "in", 0, "none"),
                 E("EXPIRE", <<>>, "at", 2, "gt"), E("EXPIRE", <<>>, "in", 1, "lt"), E("EXPIRE", <<>>, "at", 3, "nx"),
                 E("EXPIRE", <<>>, "at", 1, "xxlt"), E("EXPIRE", <<>>, "at", 3, "xxgt"), E("EXPIRE", <<>>, "in", 12, "none"),
                 C("TTL", <<>>, 0, 0, FALSE), C("TTL", <<>>, 0, 0, TRUE), C("PERSIST", <<>>, 0, 0, FALSE),
                 C("EXISTS", <<>>, 0, 0, FALSE), C("TYPE", <<>>, 0, 0, FALSE), C("RELOAD", <<>>, 0, 0, FALSE)}, 3)
                EXCEPT !.ticks = 2]

\* DUMP and RESTORE: payloads of Redis, with the values they stand for
IntText(v) == [enc |-> "int", v |-> v, n |-> 0]
Lzf(runs, n) == [enc |-> "lzf", v |-> runs, n |-> n]
Lit(s) == [lit |-> s, offset |-> 0, length |-> 0]
Back(offset, length) == [lit |-> <<>>, offset |-> offset, length |-> length]
Listpack(s) == [announced |-> Len(s), entries |-> s]
Whole(type, min, body) == [rdb |-> type, min |-> min, count |-> 1, body |-> body]
Scores2(s) == [i \in DOMAIN s |-> [m |-> Text(MCMemberOf(s[i])), score |-> MCScoreOf(s[i])]]
MCPayloads ==
    [int8 |-> Rdb("string", 0, <<IntText(-12)>>),
     lzf |-> Rdb("string", 0, <<Lzf(<<Lit(<<12, 13>>), Back(1, 3), Lit(<<14>>)>>, 6)>>),
     short |-> Rdb("string", 0, <<Lzf(<<Lit(<<12, 13>>), Back(0, 2)>>, 5)>>),
     list |-> Rdb("list", 0, <<IntText(MCBin(3, 2)), Text(11), Text(13)>>),
     quicklist |-> Whole("quicklist2", 0, <<[container |-> 2, v |-> Listpack(<<IntText(MCBin(1, 2)), Text(12)>>)],
                                            [container |-> 1, v |-> Text(13)]>>),
     intset |-> Whole("set intset", 0, [width |-> 2, ints |-> <<MCBin(1, 2), MCBin(2, 2)>>]),
     setlp |-> Whole("set listpack", 0, Listpack(<<IntText(MCBin(4, 4)), Text(11)>>)),
     hashlp |-> Whole("hash listpack", 0, Listpack(<<Text(11), IntText(MCBin(1, 2)), Text(12), Text(13)>>)),
     odd |-> Whole("hash listpack", 0, Listpack(<<Text(11), Text(12), Text(12)>>)),
     hashex |-> Whole("hash listpack ex", 1, Listpack(<<Text(11), Text(12), IntText(MCBin(1, 2)), Text(12), Text(11), IntText(MCBin(0, 2))>>)),
     hashmin |-> Whole("hash listpack ex", 2, Listpack(<<Text(11), Text(12), IntText(MCBin(1, 2))>>)),
     fields |-> Rdb("hash metadata", 1, <<[delta |-> 1, f |-> Text(11), v |-> Text(12)],
                                          [delta |-> 2, f |-> Text(12), v |-> Text(11)]>>),
     zsetlp |-> Whole("zset listpack", 0, Listpack(<<Text(11), IntText(MCBin(3, 2)), Text(12), IntText(MCBin(1, 2))>>)),
     zset |-> Rdb("zset", 0, Scores2(<<MCScored(13, 2), MCScored(11, 1)>>)),
     twice |-> Rdb("zset2", 0, Scores2(<<MCScored(11, 2), MCScored(11, 1)>>)),
     module |-> Rdb("module", 0, <<Text(11)>>)]
Holds(type, seq, map, until) == [type |-> type, seq |-> seq, map |-> map, at |-> until, more |-> <<>>, d |-> -1]
Unreadable == Holds("none", <<>>, <<>>, <<>>)
MCMeaning ==
    [int8 |-> Holds("string", <<11, 2, 3>>, <<>>, <<>>), lzf |-> Holds("string", <<12, 13, 12, 13, 12, 14>>, <<>>, <<>>),
     list |-> Holds("list", <<3, 11, 13>>, <<>>, <<>>), quicklist |-> Holds("list", <<1, 12, 13>>, <<>>, <<>>),
     intset |-> Holds("set", <<>>, [v \in {1, 2} |-> 1], <<>>), setlp |-> Holds("set", <<>>, [v \in {4, 11} |-> 1], <<>>),
     hashlp |-> Holds("hash", <<>>, (11 :> 1) @@ (12 :> 13), <<>>),
     hashex |-> Holds("hash", <<>>, (11 :> 12) @@ (12 :> 11), 11 :> 1),
     fields |-> Holds("hash", <<>>, (11 :> 12) @@ (12 :> 11), (11 :> 1) @@ (12 :> 2)),
     zsetlp |-> Holds("zset", <<>>, (11 :> 3) @@ (12 :> 1), <<>>), zset |-> Holds("zset", <<>>, (13 :> 2) @@ (11 :> 1), <<>>),
     short |-> Unreadable, odd |-> Unreadable, hashmin |-> Unreadable, twice |-> Unreadable, module |-> Unreadable]

From(w, ttl, over) == [C("RESTORE", <<>>, ttl, 0, over) EXCEPT !.w = w]
\* What Redis dumped
Foreign == [P({From(w, 0, TRUE) : w \in DOMAIN MCPayloads} \cup {C("HLEN", <<>>, 0, 0, FALSE), C("DUMP", <<>>, 0, 0, FALSE)}, 2)
              EXCEPT !.ticks = 2]
\* What was dumped here, of every type
Dumps == [P({C("SET", <<2, 3>>, 0, 0, FALSE), C("SADD", <<1, 13>>, 0, 0, FALSE), C("PUSH", <<11, 1>>, 0, 0, FALSE),
             Add(1, 1, "auto", 0, "none", 0), C("HSET", <<11001, 12002>>, 0, 0, FALSE), Z("ZADD", <<Z1(11, 5), Z1(13, 4)>>, "none", FALSE),
             W(1, "none", <<11>>), W(2, "none", <<12>>), C("DUMP", <<>>, 0, 0, FALSE),
             C("DEL", <<>>, 0, 0, FALSE), From("own", 0, FALSE), From("own", 1, TRUE)}, 5)
            EXCEPT !.ticks = 2, !.levels = {1}]
\* The options of RESTORE
Sealed == [P({C("SET", <<12>>, 0, 0, FALSE), E("EXPIRE", <<>>, "at", 1, "none"), From("lzf", 0, FALSE), From("lzf", -1, TRUE),
              From("lzf", 13, TRUE), From("lzf", 12, TRUE), [From("lzf", 1, TRUE) EXCEPT !.g = TRUE],
              [From("zset", 2, FALSE) EXCEPT !.e = "damaged"], [From("zset", 2, TRUE) EXCEPT !.e = "newer"],
              [From("zset", 2, FALSE) EXCEPT !.s = <<1, 5>>], [From("zset", 2, TRUE) EXCEPT !.s = <<2, 8>>],
              [From("zset", 2, TRUE) EXCEPT !.s = <<2, -1>>], [From("zset", 2, TRUE) EXCEPT !.s = <<1, 5, 2, 1>>]}, 3)
             EXCEPT !.ticks = 2]

\* HyperLogLogs: element 10*i + r goes to register i with rank r
MCIndexOf(e) == e \div 10
MCRankOf(e) == e % 10
MCEstimate(h) == h[1] + 9 * h[2] + 81 * h[3] + 729 * h[4]
Counting == P({C("PFADD", <<41, 51>>, 0, 0, FALSE), C("PFADD", <<61>>, 0, 0, FALSE), C("PFADD", <<52>>, 0, 0, FALSE),
               C("PFADD", <<3, 41>>, 0, 0, FALSE), C("PFADD", <<74>>, 0, 0, FALSE), C("PFADD", <<>>, 0, 0, FALSE),
               C("PFCOUNT", <<>>, 0, 0, FALSE), C("PFMERGE", <<22, 41>>, 0, 0, FALSE), C("PFMERGE", <<71>>, 0, 0, TRUE),
               Z("PFDEBUG", <<>>, "todense", FALSE), Z("PFDEBUG", <<>>, "getreg", FALSE),
               C("SET", <<2>>, 0, 0, FALSE), C("RELOAD", <<>>, 0, 0, FALSE)}, 5)

MCPrograms == {Ends, Middle, Reading, Moves, Changing, Random, SetScan, Fields, Looking, MapScan, Lapses, Conditions,
               Scores, Ranges, Lex, ZsetScan, Texts, Parts, Deadlines, Log, Rolls, Given, Groups, Pending, Mixed,
               Foreign, Dumps, Sealed, Counting}
=============================================================================
