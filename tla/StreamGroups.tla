---------------------------- MODULE StreamGroups ----------------------------
(***************************************************************************)
(* Consumer groups of a stream (cmd/t_stream_groups.cc).  The container is *)
(* on once XGROUP has created a group; it maps a group's name to the id    *)
(* last delivered to it, the number of entries read (-1: unknown), its     *)
(* consumers and the entries pending on them, and bytes is what it counts  *)
(* as allocated.  A name is the number of its bytes.                       *)
(*                                                                         *)
(* An id is ms * IdBase + seq.  The operators see the log of the stream    *)
(* through from(id), the records that a scan seeking id visits: [id, del,  *)
(* f, v], deleted ones included.                                           *)
(***************************************************************************)
EXTENDS Replies

CONSTANTS IdBase,        \* UINT64_MAX + 1, for both halves of an id
          ScanFactor     \* XAUTOCLAIM visits at most this many pending entries for each of COUNT

MaxId == IdBase * IdBase - 1
NoGroups == [on |-> FALSE, bytes |-> 0, groups |-> <<>>]
Grouped(s, r) == [gs |-> s, r |-> r]

ConsumerBytes(who) == 1 + who
PendingBytes(p) == 1 + p.cap
group_allocation_bytes(name, g) ==
    1 + name + MapThenSumSet(ConsumerBytes, DOMAIN g.consumers)
    + MapThenSumSet(LAMBDA id : PendingBytes(g.pending[id]), DOMAIN g.pending)
recompute_groups_allocation_bytes(s) ==
    1 + MapThenSumSet(LAMBDA n : group_allocation_bytes(n, s.groups[n]), DOMAIN s.groups)

has_group(s, name) == s.on /\ name \in DOMAIN s.groups
Sans(m, K) == [k \in DOMAIN m \ K |-> m[k]]
Put(s, name, g, bytes) == [s EXCEPT !.groups = (name :> g) @@ s.groups, !.bytes = @ + bytes]
Ascending(S) ==
    FoldLeft(LAMBDA s, k : Append(s, CHOOSE x \in S : Cardinality({y \in S : y < x}) = k - 1),
             <<>>, [k \in 1 .. Cardinality(S) |-> k])

---------------------------------------------------------------------------
(* What a scan of the log finds *)

Firsts(s, count) == IF count = 0 \/ Len(s) <= count THEN s ELSE SubSeq(s, 1, count)
stream_object_collect(visited, start, exclusive, count, deleted_too) ==
    Firsts(SelectSeq(visited, LAMBDA r : /\ r.id > start \/ (r.id = start /\ ~exclusive)
                                         /\ deleted_too \/ ~r.del), count)
Tombstone(id) == [id |-> id, del |-> TRUE, f |-> 0, v |-> 0]
\* A record that is not there counts as a deleted one.
Sought(s, id) == IF s # <<>> /\ s[1].id = id THEN s[1] ELSE Tombstone(id)
stream_object_find(visited, id) == Sought(stream_object_collect(visited, id, FALSE, 1, TRUE), id)
Written(s) == FoldLeft(LAMBDA t, r : t \o (IF r.del THEN <<r.id, 0, 0>> ELSE <<r.id, r.f, r.v>>), <<>>, s)
IdsIn(s) == [i \in DOMAIN s |-> s[i].id]

infer_entries_read(all, added, delivered) ==
    LET after == Cardinality({i \in DOMAIN all : all[i].id > delivered})
    IN IF (delivered # 0 /\ \A i \in DOMAIN all : all[i].id # delivered) \/ after > added THEN -1
       ELSE added - after
\* -1: the lag is not known.
group_lag(from(_), added, g) ==
    LET cursor == stream_object_collect(from(g.last), g.last, FALSE, 1, TRUE)
        inferred == infer_entries_read(from(0), added, g.last)
    IN IF cursor # <<>> /\ cursor[1].id = g.last /\ cursor[1].del THEN -1
       ELSE IF g.read >= 0 /\ inferred >= 0 /\ inferred # g.read THEN added - g.read
       ELSE Len(stream_object_collect(from(g.last), g.last, TRUE, 0, FALSE))

---------------------------------------------------------------------------
(* XGROUP *)

Group(last, read) == [last |-> last, read |-> read, consumers |-> <<>>, pending |-> <<>>]
ensure_group_container(s) == IF s.on THEN s ELSE [NoGroups EXCEPT !.on = TRUE, !.bytes = 1]
maybe_release_groups(s) == IF s.on /\ s.groups = <<>> THEN NoGroups ELSE s

xgroup_create(s, name, last, read) ==
    Grouped(Put(ensure_group_container(s), name, Group(last, read), 1 + name), Ok)
xgroup_destroy(s, name) ==
    IF ~has_group(s, name) THEN Grouped(s, Num(0))
    ELSE Grouped(maybe_release_groups(
                    [s EXCEPT !.groups = Sans(@, {name}),
                              !.bytes = @ - group_allocation_bytes(name, s.groups[name])]), Num(1))
xgroup_setid(s, name, last, read) ==
    Grouped(Put(s, name, [s.groups[name] EXCEPT !.last = last, !.read = read], 0), Ok)

\* The consumer exists afterwards; seen tells whether the caller also marks it seen.
create_consumer(s, name, who, now, seen) ==
    LET g == s.groups[name]
    IN IF who \in DOMAIN g.consumers
       THEN IF seen THEN Put(s, name, [g EXCEPT !.consumers = (who :> [g.consumers[who] EXCEPT !.seen = now]) @@ g.consumers], 0)
            ELSE s
       ELSE Put(s, name, [g EXCEPT !.consumers = (who :> [seen |-> now, active |-> -1]) @@ g.consumers],
                ConsumerBytes(who))
xgroup_createconsumer(s, name, who, now) ==
    Grouped(create_consumer(s, name, who, now, FALSE), Num(IF who \in DOMAIN s.groups[name].consumers THEN 0 ELSE 1))
Active(g, who, now) == (who :> [g.consumers[who] EXCEPT !.active = now]) @@ g.consumers

erase_pending(s, name, ids) ==
    LET g == s.groups[name]
    IN Put(s, name, [g EXCEPT !.pending = Sans(@, ids)],
           -MapThenSumSet(LAMBDA id : PendingBytes(g.pending[id]), ids))
PendingOf(g, who) == {id \in DOMAIN g.pending : g.pending[id].who = who}
\* The consumer goes, once its pending entries are gone.
Dismissed(s, name, who) ==
    Put(s, name, [s.groups[name] EXCEPT !.consumers = Sans(@, {who})], -ConsumerBytes(who))
xgroup_delconsumer(s, name, who) ==
    IF who \notin DOMAIN s.groups[name].consumers THEN Grouped(s, Num(0))
    ELSE Grouped(Dismissed(erase_pending(s, name, PendingOf(s.groups[name], who)), name, who),
                 Num(Cardinality(PendingOf(s.groups[name], who))))

---------------------------------------------------------------------------
(* Delivery *)

Delivery(who, now, count) == [who |-> who, cap |-> who, at |-> now, count |-> count]
\* PEL entries are prepared aside; publishing one replaces what was pending for the id.
Published(s, name, who, now, ids) ==
    LET g == s.groups[name]
        old == ids \cap DOMAIN g.pending
    IN Put(s, name, [g EXCEPT !.pending = [id \in ids |-> Delivery(who, now, 1)] @@ g.pending,
                              !.consumers = Active(g, who, now)],
           Cardinality(ids) * PendingBytes(Delivery(who, now, 1))
           - MapThenSumSet(LAMBDA id : PendingBytes(g.pending[id]), old))
Advanced(s, name, last, read) == Put(s, name, [s.groups[name] EXCEPT !.last = last, !.read = read], 0)
Delivered(s, name, who, got, noack, read(_), now) ==
    IF got = <<>> THEN Grouped(s, Nil)
    ELSE Grouped(Advanced(IF noack THEN s ELSE Published(s, name, who, now, {got[i].id : i \in DOMAIN got}),
                          name, Last(got).id, read(Last(got).id)), Bulks(Written(got)))

\* The history of a consumer: what is pending on it after the cursor, delivered once more.
History(g, who, cursor, count) ==
    LET ids == Ascending({id \in PendingOf(g, who) : id > cursor})
    IN IF count < 0 \/ Len(ids) <= count THEN ids ELSE SubSeq(ids, 1, count)
Redelivered(s, name, ids, from(_), now) ==
    LET g == s.groups[name]
    IN Grouped(Put(s, name, [g EXCEPT !.pending =
                       [id \in ToSet(ids) |-> [g.pending[id] EXCEPT !.at = now, !.count = @ + 1]] @@ g.pending], 0),
               Bulks(Written([i \in DOMAIN ids |-> stream_object_find(from(ids[i]), ids[i])])))

\* stream_xreadgroup_execute; cursor -1 is '>', and count -1 none given.
xreadgroup(s, name, who, cursor, count, noack, from(_), added, now) ==
    LET t == create_consumer(s, name, who, now, TRUE)
        last == s.groups[name].last
    IN IF cursor = -1
       THEN Delivered(t, name, who, stream_object_collect(from(last), last, TRUE, IF count < 0 THEN 0 ELSE count, FALSE),
                      noack, LAMBDA id : infer_entries_read(from(0), added, id), now)
       ELSE Redelivered(t, name, History(s.groups[name], who, cursor, count), from, now)

xack(s, name, ids) ==
    IF ~has_group(s, name) THEN Grouped(s, Num(0))
    ELSE LET gone == ToSet(ids) \cap DOMAIN s.groups[name].pending
         IN Grouped(erase_pending(s, name, gone), Num(Cardinality(gone)))

---------------------------------------------------------------------------
(* Looking at what is pending, and taking it over *)

Idle(p, now) == IF now > p.at THEN now - p.at ELSE 0
xpending_summary(g) ==
    LET ids == Ascending(DOMAIN g.pending)
        owners == Ascending({g.pending[id].who : id \in DOMAIN g.pending})
    IN IF ids = <<>> THEN Bulks(<<0>>)
       ELSE Bulks(<<Len(ids), ids[1], Last(ids)>>
                  \o FlattenSeq([k \in DOMAIN owners |-> <<owners[k], Cardinality(PendingOf(g, owners[k]))>>]))
\* who 0: of every consumer.
xpending_range(g, start, end, count, who, min_idle, now) ==
    LET all == Ascending({id \in DOMAIN g.pending : /\ id >= start /\ id <= end
                                                    /\ Idle(g.pending[id], now) >= min_idle
                                                    /\ who \in {0, g.pending[id].who}})
        ids == IF count <= 0 THEN <<>> ELSE Firsts(all, count)
        line(id) == <<id, g.pending[id].who, Idle(g.pending[id], now), g.pending[id].count>>
    IN Bulks(FlattenSeq([k \in DOMAIN ids |-> line(ids[k])]))

\* assign_pending_consumer: a string that is long enough keeps its allocation.
Taken(s, name, id, who, at, count, now) ==
    LET g == s.groups[name]
        p == g.pending[id]
        q == [who |-> who, cap |-> IF who > p.cap THEN who ELSE p.cap, at |-> at, count |-> count]
    IN Put(s, name, [g EXCEPT !.pending = (id :> q) @@ g.pending, !.consumers = Active(g, who, now)], q.cap - p.cap)
Forced(s, name, id, who, now, count) ==
    LET g == s.groups[name]
    IN Put(s, name, [g EXCEPT !.pending = (id :> Delivery(who, now, count)) @@ g.pending], PendingBytes(Delivery(who, now, count)))

\* opt: [force, justid, kind, value, retry, lastid]; retry and lastid -1 where not given.
DeliveryTime(opt, now) ==
    IF opt.kind = "time" THEN IF opt.value > now THEN now ELSE opt.value
    ELSE IF opt.kind = "idle" THEN IF opt.value > now THEN 0 ELSE now - opt.value
    ELSE now
Recount(opt, count) == IF opt.retry >= 0 THEN opt.retry ELSE IF opt.justid THEN count ELSE count + 1
Claim(a, name, who, min_idle, opt, r, now) ==
    LET g == a.gs.groups[name]
        id == r.id
        new == id \notin DOMAIN g.pending
        taken(s, count) == [gs |-> Taken(s, name, id, who, DeliveryTime(opt, now), count, now), got |-> Append(a.got, r)]
    IN IF r.del THEN IF new THEN a ELSE [a EXCEPT !.gs = erase_pending(a.gs, name, {id})]
       ELSE IF new THEN IF opt.force THEN taken(Forced(a.gs, name, id, who, now, 1), Recount(opt, 1)) ELSE a
       ELSE IF Idle(g.pending[id], now) < min_idle THEN a ELSE taken(a.gs, Recount(opt, g.pending[id].count))
Claimed(a, name, opt) ==
    Grouped(IF opt.lastid > a.gs.groups[name].last
            THEN Put(a.gs, name, [a.gs.groups[name] EXCEPT !.last = opt.lastid], 0) ELSE a.gs,
            Bulks(IF opt.justid THEN IdsIn(a.got) ELSE Written(a.got)))
xclaim(s, name, who, min_idle, ids, opt, from(_), now) ==
    Claimed(FoldLeft(LAMBDA a, id : Claim(a, name, who, min_idle, opt, stream_object_find(from(id), id), now),
                     [gs |-> create_consumer(s, name, who, now, TRUE), got |-> <<>>], ids), name, opt)

\* merge(id) is what the merged walk of log and pending entries meets for id.
Swept(a, name, who, min_idle, justid, r, now) ==
    LET p == a.gs.groups[name].pending[r.id]
        b == [a EXCEPT !.scanned = @ + 1]
    IN IF r.del THEN [b EXCEPT !.gs = erase_pending(a.gs, name, {r.id}), !.gone = Append(@, r.id)]
       ELSE IF Idle(p, now) < min_idle THEN b
       ELSE [b EXCEPT !.gs = Taken(a.gs, name, r.id, who, now, IF justid THEN p.count ELSE p.count + 1, now),
                      !.got = Append(@, r)]
xautoclaim(s, name, who, min_idle, start, count, justid, merge(_), now) ==
    LET ids == Ascending({id \in DOMAIN s.groups[name].pending : id >= start})
        full(a) == a.scanned >= count * ScanFactor \/ Len(a.got) + Len(a.gone) >= count
        step(a, id) == IF full(a) THEN IF a.cursor = 0 THEN [a EXCEPT !.cursor = id] ELSE a
                       ELSE Swept(a, name, who, min_idle, justid, merge(id), now)
        end == FoldLeft(step, [gs |-> create_consumer(s, name, who, now, TRUE), got |-> <<>>, gone |-> <<>>,
                               scanned |-> 0, cursor |-> 0], ids)
    IN Grouped(end.gs, Bulks(<<end.cursor, Len(end.got)>> \o (IF justid THEN IdsIn(end.got) ELSE Written(end.got)) \o end.gone))

---------------------------------------------------------------------------
(* XINFO *)

Nullable(n) == IF n < 0 THEN -1 ELSE n
xinfo_groups(s, from(_), added) ==
    LET names == IF s.on THEN Ascending(DOMAIN s.groups) ELSE <<>>
        line(n, g) == <<n, Cardinality(DOMAIN g.consumers), Cardinality(DOMAIN g.pending), g.last,
                        Nullable(g.read), group_lag(from, added, g)>>
    IN Bulks(FlattenSeq([k \in DOMAIN names |-> line(names[k], s.groups[names[k]])]))
Since(t, now) == IF now < t THEN 0 ELSE now - t
xinfo_consumers(g, now) ==
    LET names == Ascending(DOMAIN g.consumers)
        line(n, c) == <<n, Cardinality(PendingOf(g, n)), IF c.seen < 0 THEN 0 ELSE Since(c.seen, now),
                        IF c.active < 0 THEN -1 ELSE Since(c.active, now)>>
    IN Bulks(FlattenSeq([k \in DOMAIN names |-> line(names[k], g.consumers[names[k]])]))

---------------------------------------------------------------------------
\* The container as it is built anew from its saved form, strings without spare room.
stream_groups_snapshot_load(s) ==
    LET fresh(g) == [g EXCEPT !.pending = [id \in DOMAIN g.pending |-> [g.pending[id] EXCEPT !.cap = g.pending[id].who]]]
        t == [s EXCEPT !.groups = [n \in DOMAIN s.groups |-> fresh(s.groups[n])]]
    IN IF s.on THEN [t EXCEPT !.bytes = recompute_groups_allocation_bytes(t)] ELSE NoGroups

\* Every pending entry is on a consumer of its group, and the bytes are those allocated.
GroupsOk(s) ==
    /\ s.on <=> s.groups # <<>>
    /\ s.bytes = IF s.on THEN recompute_groups_allocation_bytes(s) ELSE 0
    /\ \A n \in DOMAIN s.groups : \A id \in DOMAIN s.groups[n].pending :
          s.groups[n].pending[id].who \in DOMAIN s.groups[n].consumers
=============================================================================
