---------------------------- MODULE StreamValue ----------------------------
(***************************************************************************)
(* Streams (cmd/t_stream.cc).  A small stream is packed: its first entry   *)
(* is the header, the others are records whose ids are deltas and whose    *)
(* field names are left out when the record before has the same.  A large  *)
(* one is a sequence of nodes, each such a log, with an index of the ids   *)
(* they are based on; head is the field names of the last record trimmed   *)
(* from the first node, tail those of the last record.  A deleted record   *)
(* stays where it is, marked.                                              *)
(*                                                                         *)
(* aux is [h, last, gs]: the header of an external stream, the last id an  *)
(* embedded one keeps outside its log, and the consumer groups.  Field     *)
(* names and values are texts below 100; 0 stands for no names.            *)
(***************************************************************************)
EXTENDS CollectionRef, StreamGroups

CONSTANTS stream_limits, default_limits   \* [bytes, entries] of a node; 0: no limit

Ms(id) == id \div IdBase
Sub(id) == id % IdBase
Header(base, last, maxdel, added) == [base |-> base, last |-> last, maxdel |-> maxdel, added |-> added]
NoHeader == Header(0, 0, 0, 0)
Record(id, del, f, v) == [id |-> id, del |-> del, f |-> f, v |-> v]

---------------------------------------------------------------------------
(* The bytes of headers and records, as numbers *)

HeaderMark == 10000000
RecordMark == 1000000
header_bytes(h) == HeaderMark + ((h.base * (MaxId + 1) + h.last) * (MaxId + 1) + h.maxdel) * (MaxId + 1) + h.added
ReadHeader(n) ==
    Header(n \div (MaxId + 1) ^ 3, (n \div (MaxId + 1) ^ 2) % (MaxId + 1), (n \div (MaxId + 1)) % (MaxId + 1), n % (MaxId + 1))
compact_header(c) == ReadHeader(at(c, 0) - HeaderMark)

Flag(b) == IF b THEN 1 ELSE 0
Coded(dms, dseq, del, same, f, v) ==
    RecordMark + ((((dms * IdBase + dseq) * 2 + Flag(del)) * 2 + Flag(same)) * 100 + (IF same THEN 0 ELSE f)) * 100 + v
FieldsIn(e) == (e \div 100) % 100
ValuesIn(e) == e % 100
SameIn(e) == (e \div 10000) % 2 = 1
DeletedIn(e) == (e \div 20000) % 2 = 1
DeltaIn(e) == (e - RecordMark) \div 40000

encode_record(r, previous, names, first_in_node) ==
    Coded(Ms(r.id) - Ms(previous), IF Ms(r.id) = Ms(previous) THEN Sub(r.id) - Sub(previous) ELSE Sub(r.id),
          r.del, ~first_in_node /\ r.f = names, r.f, r.v)
decode_record(e, previous, names) ==
    Record(IF Ms(DeltaIn(e)) = 0 THEN previous + Sub(DeltaIn(e))
           ELSE (Ms(previous) + Ms(DeltaIn(e))) * IdBase + Sub(DeltaIn(e)),
           DeletedIn(e), IF SameIn(e) THEN names ELSE FieldsIn(e), ValuesIn(e))
\* The mark of a record, set in place.
Marked(e) == e + 20000

scan_compact(c, base, names) ==
    FoldLeft(LAMBDA s, i : Append(s, IF s = <<>> THEN decode_record(at(c, i), base, names)
                                     ELSE decode_record(at(c, i), Last(s).id, Last(s).f)),
             <<>>, [i \in 1 .. Entries(c) - 1 |-> i])

---------------------------------------------------------------------------
(* Reading *)

node_records(x, i) == scan_compact(x.nodes[i].log, x.nodes[i].base, IF i = 1 THEN x.head ELSE 0)
NodesFrom(x, i) == FoldLeft(LAMBDA s, k : s \o node_records(x, i + k - 1), <<>>, [k \in 1 .. Len(x.nodes) - i + 1 |-> k])
scan_object(o) == IF is_packed(o) THEN scan_compact(o.c, compact_header(o.c).base, 0) ELSE NodesFrom(o.x, 1)
\* std::upper_bound in the index: how many nodes are based on id or before it.
upper_bound(x, id) == Cardinality({i \in DOMAIN x.index : x.index[i].base <= id})
scan_object_from(o, start) ==
    IF is_packed(o) THEN scan_object(o)
    ELSE IF upper_bound(o.x, start) = 0 THEN NodesFrom(o.x, 1)
    ELSE NodesFrom(o.x, o.x.index[upper_bound(o.x, start)].node)
scan_object_reverse(o, end) ==
    IF is_packed(o) THEN Reverse(scan_object(o))
    ELSE IF upper_bound(o.x, end) = 0 THEN <<>>
    ELSE Reverse(FoldLeft(LAMBDA s, i : s \o node_records(o.x, i), <<>>,
                          [i \in 1 .. o.x.index[upper_bound(o.x, end)].node |-> i]))

object_header(o) == IF is_embedded(o) THEN compact_header(o.c) ELSE o.aux.h
update_object_header(o, h) ==
    LET p == IF is_packed(o) THEN ref_replace(o, 0, header_bytes(h)) ELSE o
    IN IF is_embedded(o) THEN [p EXCEPT !.aux = [o.aux EXCEPT !.last = h.last]]
       ELSE [p EXCEPT !.aux = [o.aux EXCEPT !.h = h]]

LiveRecords(s) == SelectSeq(s, LAMBDA r : ~r.del)
stream_live_length(o) == IF is_packed(o) THEN Len(LiveRecords(scan_object(o))) ELSE o.n
FirstId(s) == IF s = <<>> THEN 0 ELSE s[1].id
LastId(s) == IF s = <<>> THEN 0 ELSE Last(s).id
LastNames(s) == IF s = <<>> THEN 0 ELSE Last(s).f
stream_object_last_id(o) == IF is_embedded(o) THEN o.aux.last ELSE o.aux.h.last

\* stream_object_merge_scan skips the nodes that end before the id it looks for.
MergeNode(x, id) ==
    LET from == IF upper_bound(x, id) = 0 THEN 1 ELSE x.index[upper_bound(x, id)].node
        S == {i \in from .. Len(x.nodes) : id <= x.nodes[i].last}
    IN IF S = {} THEN 0 ELSE CHOOSE i \in S : \A j \in S : i <= j
stream_object_merge_scan(o, id) ==
    LET s == IF is_packed(o) THEN scan_object(o)
             ELSE IF MergeNode(o.x, id) = 0 THEN <<>> ELSE node_records(o.x, MergeNode(o.x, id))
    IN Sought(SelectSeq(s, LAMBDA r : r.id = id), id)

---------------------------------------------------------------------------
(* Nodes *)

NoNodes == [nodes |-> <<>>, index |-> <<>>, head |-> 0, tail |-> 0, first |-> 0]
StreamNode(log, base, last, physical) == [log |-> log, base |-> base, last |-> last, physical |-> physical]
node_header(h, n) == header_bytes([h EXCEPT !.base = n.base, !.last = n.last, !.added = n.physical])
write_node_header(n, h) == [n EXCEPT !.log = replace(n.log, 0, node_header(h, n))]

start_node(x, h, r) ==
    LET n == StreamNode(NoCompact, r.id, r.id, 1)
    IN [x EXCEPT !.nodes = Append(@, [n EXCEPT !.log = Packed(<<node_header(h, n), encode_record(r, r.id, 0, TRUE)>>)]),
                 !.index = Append(@, [base |-> r.id, node |-> Len(x.nodes) + 1]),
                 !.tail = r.f]
TailWith(x, h, r, n, e) ==
    [x EXCEPT !.nodes = Append(Front(@), write_node_header(StreamNode(append(n.log, e), n.base, r.id, n.physical + 1), h)),
              !.tail = r.f]
rolls(n, e, limits) ==
    \/ limits.bytes > 0 /\ encoded_bytes(n.log.seq) + Span(e) > limits.bytes
    \/ limits.entries > 0 /\ n.physical >= limits.entries
\* append_owned_external and append_op_external
append_external(x, h, r, limits) ==
    IF x.nodes = <<>> THEN start_node(x, h, r)
    ELSE LET n == Last(x.nodes)
             e == encode_record(r, n.last, x.tail, FALSE)
         IN IF rolls(n, e, limits) THEN start_node(x, h, r) ELSE TailWith(x, h, r, n, e)

build_external(o, h, records, limits) ==
    LET x == FoldLeft(LAMBDA y, r : append_external(y, h, r, limits), NoNodes, records)
    IN [promote(o, [x EXCEPT !.first = FirstId(LiveRecords(records))], Len(LiveRecords(records)), 0)
          EXCEPT !.room = 0, !.aux = [o.aux EXCEPT !.h = h]]
externalize_stream(o) ==
    IF is_embedded(o) THEN build_external(o, compact_header(o.c), scan_object(o), stream_limits) ELSE o

---------------------------------------------------------------------------
(* Adding and trimming *)

StreamOf(c, h) == Obj("stream", c, [h |-> h, last |-> 0, gs |-> NoGroups])
adopt_stream(o) == LET p == adopt(o) IN IF is_embedded(p) THEN [p EXCEPT !.aux = [o.aux EXCEPT !.h = NoHeader, !.last = o.aux.h.last]] ELSE p
rebuild_compact(h, records) ==
    <<header_bytes([h EXCEPT !.base = FirstId(records)])>>
    \o FoldLeft(LAMBDA s, i : Append(s, IF i = 1 THEN encode_record(records[1], records[1].id, 0, TRUE)
                                        ELSE encode_record(records[i], records[i - 1].id, records[i - 1].f, FALSE)),
                <<>>, [i \in DOMAIN records |-> i])

\* kind: "auto", "ms" or "id"; -1 is an error.
resolve_add_id(last, kind, id, now) ==
    IF last = MaxId THEN -1
    ELSE IF kind = "auto"
    THEN IF now > Ms(last) THEN now * IdBase ELSE last + 1
    ELSE IF kind = "ms"
    THEN IF id < Ms(last) \/ (id = Ms(last) /\ Sub(last) = IdBase - 1) THEN -1
         ELSE IF id = Ms(last) THEN last + 1 ELSE IF id = 0 THEN 1 ELSE id * IdBase
    ELSE IF id = 0 \/ id <= last THEN -1 ELSE id

FreshStream(r) ==
    LET h == Header(r.id, r.id, 0, 1)
        o == StreamOf(Packed(<<header_bytes(h), encode_record(r, r.id, 0, TRUE)>>), h)
    IN IF encoded_bytes(o.c.seq) > EmbedMax THEN build_external(o, h, <<r>>, stream_limits) ELSE adopt_stream(o)

AddToNodes(o, h, r) ==
    LET g == IF o.x.nodes = <<>> THEN [h EXCEPT !.base = r.id] ELSE h
        x == append_external(o.x, g, r, stream_limits)
    IN [o EXCEPT !.x = [x EXCEPT !.first = IF @ = 0 THEN r.id ELSE @], !.n = @ + 1, !.aux = [o.aux EXCEPT !.h = g]]
AddToLog(o, h, r, e) ==
    IF is_embedded(o) /\ ~embedded_bytes_fit(o, encoded_bytes(o.c.seq) + Span(e))
    THEN AddToNodes(externalize_stream(o), h, r)
    ELSE update_object_header(ref_append(o, e), h)
AddTo(o, r) ==
    LET h == [object_header(o) EXCEPT !.last = r.id, !.added = @ + 1]
        s == scan_compact(o.c, h.base, 0)
    IN IF ~is_packed(o) THEN AddToNodes(o, h, r)
       ELSE IF Entries(o.c) = 1 THEN AddToLog(o, [h EXCEPT !.base = r.id], r, encode_record(r, r.id, 0, TRUE))
       ELSE AddToLog(o, h, r, encode_record(r, Last(s).id, Last(s).f, FALSE))

\* trim: [kind, n], kind "none", "maxlen" or "minid".  How many records go, from the head.
trim_cut(s, trim, live) ==
    LET gone(k) == Len(LiveRecords(SubSeq(s, 1, k)))
        enough(k) == IF trim.kind = "maxlen"
                     THEN gone(k) >= live - trim.n /\ (k < Len(s) => ~s[k + 1].del)
                     ELSE k < Len(s) => s[k + 1].id >= trim.n
    IN CHOOSE k \in 0 .. Len(s) : (enough(k) \/ k = Len(s)) /\ \A j \in 0 .. k - 1 : ~enough(j)
CutNode(n, h, s, k) ==
    LET m == [n EXCEPT !.base = s[k].id, !.physical = @ - k]
        bare == FoldLeft(LAMBDA c, i : pop_front(c), n.log, [i \in 1 .. k + 1 |-> i])
    IN [m EXCEPT !.log = prepend(bare, node_header(h, m))]
\* The field names that the first record left may be sharing.
\* Mutant: they are not kept.
NamesForgotten(s, k) == 0
head_fields(s, k) == s[k].f
CutHead(a, s, k) ==
    LET x == a.x
        b == [a EXCEPT !.live = @ - Len(LiveRecords(SubSeq(s, 1, k)))]
        n == CutNode(x.nodes[1], compact_header(x.nodes[1].log), s, k)
    IN IF k = 0 THEN [a EXCEPT !.stop = TRUE]
       ELSE IF k = Len(s)
       THEN [b EXCEPT !.x = [x EXCEPT !.nodes = Tail(@), !.head = 0,
                                      !.index = [i \in 1 .. Len(@) - 1 |-> [base |-> @[i + 1].base, node |-> i]]]]
       ELSE [b EXCEPT !.stop = TRUE,
                      !.x = [x EXCEPT !.nodes = <<n>> \o Tail(@), !.head = head_fields(s, k),
                                      !.index = <<[@[1] EXCEPT !.base = n.base]>> \o Tail(@)]]
TrimHead(a, trim) ==
    IF a.stop THEN a
    ELSE LET s == node_records(a.x, 1) IN CutHead(a, s, trim_cut(s, trim, a.live))
Headed(o, a) ==
    LET none == a.x.nodes = <<>>
        o2 == [o EXCEPT !.x = a.x, !.n = a.live,
                        !.aux = [o.aux EXCEPT !.h.base = IF none THEN 0 ELSE a.x.nodes[1].base]]
    IN [o2 EXCEPT !.x = [a.x EXCEPT !.first = FirstId(LiveRecords(scan_object(o2))),
                                    !.tail = IF none THEN 0 ELSE LastNames(node_records(a.x, Len(a.x.nodes)))]]
TrimLog(o, h, s) ==
    update_object_header(replace_compact(o, rebuild_compact(h, s)), [h EXCEPT !.base = FirstId(s)])
trim_stream(o, trim) ==
    LET live == stream_live_length(o)
        h == object_header(o)
        s == scan_compact(o.c, h.base, 0)
    IN IF \/ trim.kind = "none" \/ (trim.kind = "maxlen" /\ live <= trim.n)
          \/ (trim.kind = "minid" /\ live = 0) THEN o
       ELSE IF is_packed(o) THEN TrimLog(o, h, SubSeq(s, trim_cut(s, trim, live) + 1, Len(s)))
       ELSE Headed(o, FoldLeft(LAMBDA a, n : TrimHead(a, trim), [x |-> o.x, live |-> live, stop |-> FALSE], o.x.nodes))

---------------------------------------------------------------------------
(* The commands *)

xadd(o, f, v, kind, id, nomkstream, trim, now) ==
    LET none == o.type = "none"
        new == resolve_add_id(IF none THEN 0 ELSE object_header(o).last, kind, id, now)
        r == Record(new, FALSE, f, v)
    IN IF none /\ nomkstream /\ ~(kind = "id" /\ id = 0) THEN Out(o, Nil)
       ELSE IF new = -1 THEN Out(o, Err)
       ELSE Out(trim_stream(IF none THEN FreshStream(r) ELSE AddTo(o, r), trim), Num(new))
xlen(o) == Out(o, Num(IF o.type = "none" THEN 0 ELSE stream_live_length(o)))
xtrim(o, trim) ==
    IF o.type = "none" THEN Out(o, Num(0))
    ELSE LET p == trim_stream(o, trim) IN Out(p, Num(stream_live_length(o) - stream_live_length(p)))

\* count 0: all.  start and end are included; the scan stops past the far one.
emit_entries(o, start, end, count, reverse) ==
    LET s == IF reverse THEN scan_object_reverse(o, end) ELSE scan_object_from(o, start)
    IN Firsts(SelectSeq(s, LAMBDA r : ~r.del /\ r.id >= start /\ r.id <= end), count)
\* count -1: one was given that asks for nothing.  A bound may be excluded.
range_generic(o, start, end, not_start, not_end, count, reverse) ==
    IF count < 0 THEN Out(o, Nil)
    ELSE IF (not_start /\ start = MaxId) \/ (not_end /\ end = 0) \/ o.type \notin {"none", "stream"} THEN Out(o, Err)
    ELSE IF o.type = "none" THEN Out(o, Bulks(<<>>))
    ELSE Out(o, Bulks(Written(emit_entries(o, start + Flag(not_start), end - Flag(not_end), count, reverse))))
\* cursor -1 is '$'.
xread_gather(o, cursor, count) ==
    LET start == IF cursor = -1 THEN stream_object_last_id(o) ELSE cursor
        got == emit_entries(o, start + 1, MaxId, count, FALSE)
    IN Out(o, IF o.type = "none" \/ start = MaxId \/ got = <<>> THEN Nil ELSE Bulks(Written(got)))

MarkIn(s, id) == {i \in DOMAIN s : s[i].id = id /\ ~s[i].del}
DeleteInNode(o, k, s, id) ==
    LET n == o.x.nodes[k]
        hit == MarkIn(s, id)
    IN IF hit = {} THEN o
       ELSE LET i == CHOOSE i \in hit : TRUE
            IN [o EXCEPT !.n = @ - 1,
                         !.x = [o.x EXCEPT !.nodes = SubSeq(@, 1, k - 1)
                                 \o <<[n EXCEPT !.log = replace(n.log, i, Marked(at(n.log, i)))]>>
                                 \o SubSeq(@, k + 1, Len(@))]]
delete_one(o, id) ==
    IF is_packed(o)
    THEN LET hit == MarkIn(scan_object(o), id)
         IN IF hit = {} THEN o
            ELSE LET i == CHOOSE i \in hit : TRUE IN ref_replace(o, i, Marked(at(o.c, i)))
    ELSE IF upper_bound(o.x, id) = 0 THEN o
    ELSE LET k == o.x.index[upper_bound(o.x, id)].node IN DeleteInNode(o, k, node_records(o.x, k), id)
Deleted(a, id) ==
    LET p == delete_one(a.o, id)
    IN IF stream_live_length(p) = stream_live_length(a.o) THEN a
       ELSE [o |-> p, removed |-> a.removed + 1, maxdel |-> Most(a.maxdel, id)]
Refirst(o) == IF is_packed(o) THEN o ELSE [o EXCEPT !.x = [o.x EXCEPT !.first = FirstId(LiveRecords(scan_object(o)))]]
xdel(o, ids) ==
    IF o.type = "none" THEN Out(o, Num(0))
    ELSE LET h == object_header(o)
             a == FoldLeft(Deleted, [o |-> o, removed |-> 0, maxdel |-> h.maxdel], ids)
         IN IF a.removed = 0 THEN Out(o, Num(0))
            ELSE Out(Refirst(update_object_header(a.o, [h EXCEPT !.maxdel = a.maxdel])), Num(a.removed))

\* given: "none", "added" or "deleted", the option whose value n is.
xsetid(o, id, given, n) ==
    LET h == object_header(o)
        maxdel == IF given = "deleted" THEN n ELSE h.maxdel
        added == IF given = "added" THEN n ELSE h.added
    IN IF o.type = "none" \/ id < LastId(scan_object(o)) \/ id < maxdel \/ added < stream_live_length(o)
       THEN Out(o, Err)
       ELSE Out(update_object_header(o, [h EXCEPT !.last = id, !.maxdel = maxdel, !.added = added]), Ok)

xinfo_stream(o) ==
    LET s == scan_object(o)
        h == object_header(o)
        live == LiveRecords(s)
        n == stream_live_length(o)
        first == FirstId(live)
        last == LastId(live)
    IN IF o.type = "none" THEN Out(o, Err)
       ELSE Out(o, Bulks(<<n, IF s = <<>> THEN 0 ELSE 1, h.last, h.maxdel, h.added, first, Cardinality(DOMAIN o.aux.gs.groups)>>
                         \o (IF n = 0 THEN <<>>
                             ELSE Written(stream_object_collect(scan_object_from(o, first), first, FALSE, 1, FALSE))
                                  \o Written(<<stream_object_find(scan_object_from(o, last), last)>>))))

---------------------------------------------------------------------------
(* Groups on a stream *)

stream_create_empty_external == StreamOf(Packed(<<header_bytes(NoHeader)>>), NoHeader)
InGroups(o, res) == Out([o EXCEPT !.aux = [o.aux EXCEPT !.gs = res.gs]], res.r)
HasGroup(o, name) == o.type = "stream" /\ has_group(o.aux.gs, name)
\* id -1 is '$'.
CreateGroup(o, name, id, read) ==
    InGroups(o, xgroup_create(o.aux.gs, name, IF id = -1 THEN object_header(o).last ELSE id, read))
cmd_xgroup_create(o, name, id, read, mkstream) ==
    IF HasGroup(o, name) \/ (o.type = "none" /\ ~mkstream) THEN Out(o, Err)
    ELSE CreateGroup(IF o.type = "none" THEN stream_create_empty_external ELSE externalize_stream(o), name, id, read)

stream_snapshot_load(o) ==
    LET h == object_header(o)
        s == scan_object(o)
        c == rebuild_compact(h, s)
        gs == stream_groups_snapshot_load(o.aux.gs)
        bare == Kept(StreamOf(NoCompact, h), o)
        p == IF is_packed(o) /\ encoded_bytes(c) <= EmbedMax THEN [bare EXCEPT !.c = Packed(c)]
             ELSE build_external(bare, h, s, default_limits)
        q == [p EXCEPT !.aux = [p.aux EXCEPT !.gs = gs], !.slot = o.d >= 0]
    IN IF gs.on THEN q ELSE adopt_stream(q)
=============================================================================
