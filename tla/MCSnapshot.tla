----------------------------- MODULE MCSnapshot -----------------------------
EXTENDS Snapshot

Op(o, k, v, d) == [op |-> o, k |-> k, v |-> v, d |-> d]
Set(k, v) == Op("set", k, v, -1)
Do(o, k) == Op(o, k, 0, -1)
Rec(k, v, d) == [k |-> k, v |-> v, d |-> d]

\* Keys 1 and 2 share a home in a table of four slots, and no longer in one of eight.
MCHash == [k \in Key |-> IF k < 5 THEN <<1, 5, 7, 10>>[k] ELSE (k * 5) \div 2]
MCShardOf == [k \in Key |-> IF k < 20 THEN 1 ELSE 2]
MCGroupKey == <<1, 20>>
Plain == [load |-> <<<<>>>>, ops |-> <<<<>>>>, groups |-> 0, saves |-> 1, blocking |-> FALSE,
          max |-> 0, fails |-> 0, ticks |-> 0]

\* Every kind of command against keys ahead of, at and behind the walk of a capture.
Captured ==
    [Plain EXCEPT !.load = <<<<Rec(1, 1, -1), Rec(2, 1, 1)>>>>, !.ticks = 1,
                  !.ops = <<<<{Set(1, 2), Set(1, 3), Do("del", 1), Do("persist", 2),
                               Op("expire", 1, 0, 1), Op("expire", 2, 0, 2), Do("flush", 0)},
                              {Set(3, 1), Set(2, 1), Do("del", 2), Do("get", 2)}>>>>]
\* Resizes both ways, before, between and after the calls of a SCAN.
Scans == {Do("scan", 0)}
Resized ==
    [Plain EXCEPT !.saves = 0,
                  !.ops = <<<<{Set(1, 1)}, {Set(2, 1)}, Scans, {Set(3, 1), Set(2, 2)},
                              Scans \cup {Set(4, 1)}, Scans, Scans \cup {Do("del", 4)},
                              Scans \cup {Do("del", 1)}, Scans, Scans>>>>]
\* A capture suspends eviction.
Evicted ==
    [Plain EXCEPT !.load = <<<<Rec(1, 1, -1), Rec(2, 1, -1)>>>>, !.max = 2,
                  !.ops = <<<<{Set(3, 1), Set(1, 2)}, {Set(4, 1), Set(2, 3)}>>>>]
\* A failed save leaves marks behind for the next one.
Retried ==
    [Plain EXCEPT !.load = <<<<Rec(1, 1, -1), Rec(2, 1, -1)>>>>, !.saves = 2, !.fails = 1,
                  !.ops = <<<<{Set(2, 2), Do("del", 1)}, {Set(1, 2)}>>>>]
\* Two shards: the cut against a group, failures at every step, SAVE.
Two == [Plain EXCEPT !.load = <<<<Rec(1, 1, -1)>>, <<>>>>, !.ops = <<<<>>, <<>>>>]
Grouped == [Two EXCEPT !.groups = 1]
Aborted == [Two EXCEPT !.ops = <<<<{Set(1, 2)}>>, <<>>>>, !.saves = 2, !.fails = 1]
Blocking ==
    [Two EXCEPT !.load = <<<<Rec(1, 1, -1)>>, <<Rec(20, 1, -1)>>>>, !.blocking = TRUE,
                !.ops = <<<<{Set(1, 2)}>>, <<{Set(20, 2)}>>>>]
MCPrograms == {Captured, Resized, Evicted, Retried, Grouped, Aborted, Blocking}
=============================================================================
