---------------------------- MODULE ForeignReads ----------------------------
(***************************************************************************)
(* Reads of foreign shards: GET and MGET that a fused thread answers from  *)
(* another thread's table without asking it (store/flatstore.h,            *)
(* store/foreign_read_safety.h, store/resize_retirement.h,                 *)
(* core/read_local.h, core/thread.h, core/server.h, core/ex_loop.h).       *)
(*                                                                         *)
(* The owner of a shard is its only writer.  It publishes one word at a    *)
(* time: slot words, the two table pointers, the table word that brackets  *)
(* moves of tables and atomic exchanges, and a counting filter of keys     *)
(* whose raw value must not be read.  A reader samples the word and the    *)
(* filter, probes, copies, and looks at them again.  What the owner        *)
(* unlinks is reclaimed when every thread has published a tick past the    *)
(* epoch it was sealed with, or is parked.                                 *)
(*                                                                         *)
(* A command of an owner is the sequence of its stores, in program order,  *)
(* and each is a step; so is each load of a reader.  The build is x86:     *)
(* stores become visible in program order, and what must precede a later   *)
(* load is a locked or sequentially consistent operation.                  *)
(***************************************************************************)
EXTENDS Integers, Sequences, FiniteSets, FiniteSetsExt, SequencesExt

CONSTANTS
    NThreads,    \* the fused threads are 1..NThreads
    Owner,       \* shard |-> thread; a thread owns one shard at most
    KeysAt,      \* shard |-> its keys, in the order of their slots
    Cell, Fingerprint, \* key |-> filter cell and fingerprint
    CountMax,    \* kCountMask: where the count of a cell saturates
    RingCap,     \* kReadLocalRetireRingCapacity
    BatchCap,    \* kBatchCapacity
    Attempts,    \* kAttempts of an MGET
    MaxTables,   \* bound on the tables a shard ever has
    Groups,      \* group |-> the keys it writes
    Scenes       \* [todo: per thread its commands; spins: the threads that go on rotating
                 \*  when idle; parks: those that may park; moves: whether tables move]

Threads == 1 .. NThreads
Shards == DOMAIN Owner
Keys == DOMAIN Cell
Cells == Range(Cell)
Mine(t) == CHOOSE s \in Shards : Owner[s] = t
Home(k) == CHOOSE s \in Shards : k \in Range(KeysAt[s])
NoTable == 0
Infinity == 1000    \* UINT64_MAX

VARIABLES
    scene,    \* what happens in this behaviour
    todo,     \* per thread: the commands still to come
    store,    \* per shard: its table words and filter, see ReadsInit
    group,    \* per group: who installed, the decision, what was displaced
    epoch,    \* the read-local epoch
    tick,     \* per thread: its publication
    ring,     \* per thread: ReadLocalRetireRing and ResizeRetireQueue
    freed,    \* the objects and tables reclaimed
    pc, work, \* per thread: where it is, and the stores its command has still to make
    scan,     \* per thread: its drain_ready
    rd,       \* per thread: the local read it is making
    past,     \* history: the committed values, oldest first
    told      \* history: per thread, the earliest instant its last answer can have

graceVars == <<epoch, tick, ring, freed>>
historyVars == <<past, told>>
readVars == <<scene, todo, store, group, graceVars, pc, work, scan, rd, historyVars>>

NoRead == [kind |-> "get", keys |-> <<>>, i |-> 1, try |-> 1, from |-> 0, word |-> <<0, FALSE>>,
           ptr |-> <<0, 0>>, cap |-> <<0, 0>>, v |-> 0, got |-> <<>>, open |-> <<>>,
           slip |-> FALSE]
NoScan == [hint |-> 0, i |-> 0, floor |-> 0, oldest |-> 0, epoch |-> 0, back |-> "top"]
NoCell == [count |-> 0, print |-> 0, wild |-> FALSE]

ReadsInit ==
    /\ scene \in Scenes /\ todo = scene.todo
    /\ store = [s \in Shards |->
           [gen |-> 0, odd |-> FALSE, pend |-> FALSE,            \* probe_sequence
            ptr |-> <<1, NoTable>>, cap |-> <<1, NoTable>>,      \* tab_, cap_ and mask_
            slot |-> [n \in 1 .. MaxTables |-> [k \in Range(KeysAt[s]) |-> IF n = 1 THEN 1 ELSE 0]],
            made |-> [k \in Range(KeysAt[s]) |-> 1], tables |-> 1, pos |-> 1,
            cell |-> [c \in Cells |-> NoCell], touched |-> [c \in Cells |-> 0],
            refs |-> 0, saturated |-> 0, poison |-> 0, pending |-> 0]]
    /\ group = [g \in DOMAIN Groups |->
           [left |-> {s \in Shards : \E k \in Range(KeysAt[s]) : k \in Groups[g]},
            decided |-> "no", old |-> [k \in Groups[g] |-> 0], open |-> {}]]
    /\ epoch = 1
    /\ tick = [t \in Threads |-> [at |-> 1, parked |-> scene.todo[t] = <<>>]]
    /\ ring = [t \in Threads |-> [batches |-> <<>>, unsealed |-> {}, resizes |-> <<>>]]
    /\ freed = {}
    /\ pc = [t \in Threads |-> IF scene.todo[t] = <<>> THEN "parked" ELSE "top"]
    /\ work = [t \in Threads |-> <<>>]
    /\ scan = [t \in Threads |-> NoScan]
    /\ rd = [t \in Threads |-> NoRead]
    /\ past = <<[k \in Keys |-> 1]>>
    /\ told = [t \in Threads |-> 1]

----------------------------------------------------------------------------
(* The stores of a command *)

\* The table of s that holds key k: 1, 2, or 0.
Holds(s, k) ==
    LET In(i) == store[s].ptr[i] # NoTable /\ store[s].slot[store[s].ptr[i]][k] # 0
    IN  IF In(1) THEN 1 ELSE IF In(2) THEN 2 ELSE 0
Version(s, k) == IF Holds(s, k) = 0 THEN 0 ELSE store[s].slot[store[s].ptr[Holds(s, k)]][k]
Rehashing(s) == store[s].ptr[2] # NoTable

Do(op) == <<[op |-> op]>>
\* A slot word; commits: it is the committed value of the key from then on.
Put(s, i, k, v, commits) ==
    <<[op |-> "put", table |-> store[s].ptr[i], key |-> k, v |-> v, commits |-> commits]>>
retire(x) == <<[op |-> "retire", x |-> x]>>
Call(f, arg) == <<[op |-> "call", f |-> f, arg |-> arg]>>
Commit(ks) == <<[op |-> "commit", keys |-> ks]>>

\* ReadLocalTableGuard
Bracket(body) == Do("odd") \o body \o Do("even")

\* read_local_topology_store: one of the two pointers, then its capacity and mask.
Topology(i, n) == <<[op |-> "ptr", i |-> i, n |-> n], [op |-> "cap", i |-> i, n |-> n]>>

add_cell(c, print, wild) ==
    <<[op |-> "add", cell |-> c, print |-> print, wild |-> wild], [op |-> "touch", cell |-> c]>>
close_cell(c) == <<[op |-> "close", cell |-> c], [op |-> "touch", cell |-> c]>>
add_span(ks) ==
    <<[op |-> "refs", by |-> Len(ks)]>>
        \o FlattenSeq([i \in DOMAIN ks |-> add_cell(Cell[ks[i]], Fingerprint[ks[i]], FALSE)])
close_span(ks) ==
    FlattenSeq([i \in DOMAIN ks |-> close_cell(Cell[ks[i]])])
        \o <<[op |-> "refs", by |-> -Len(ks)]>> \o Call("rebuild", "")
witness_open == <<[op |-> "witness", by |-> 1]>>
witness_close == <<[op |-> "witness", by |-> -1]>>

read_local_pending_publish(ks) == add_span(ks) \o witness_open
read_local_pending_unpublish(ks) == close_span(ks) \o witness_close
foreign_read_scope_open_span(ks) == Bracket(add_span(ks) \o witness_open)
foreign_read_scope_close_span(ks) == close_span(ks) \o witness_close

CellSeq == SetToSeq(Cells)
OnEveryCell(op) == [i \in DOMAIN CellSeq |-> [op |-> op, cell |-> CellSeq[i]]]
poison_open(s) ==
    <<[op |-> "poison", by |-> 1]>>
        \o (IF store[s].poison > 0 THEN <<>>
            ELSE FlattenSeq([i \in DOMAIN CellSeq |-> add_cell(CellSeq[i], 1, TRUE)]))
poison_close(s) ==
    (IF store[s].poison > 1 THEN <<>>
     ELSE FlattenSeq([i \in DOMAIN CellSeq |-> close_cell(CellSeq[i])]))
        \o <<[op |-> "poison", by |-> -1]>> \o Call("rebuild", "")
foreign_read_poison_open(s) == Bracket(poison_open(s) \o witness_open)
foreign_read_poison_close(s) == poison_close(s) \o witness_close
rebuild_saturated_if_drained(s) ==
    IF store[s].refs # 0 \/ store[s].poison # 0 \/ store[s].saturated = 0 THEN <<>>
    ELSE OnEveryCell("zero") \o OnEveryCell("touch")

\* insert_into_read_local and erase_in_read_local: what a store unlinks is retired after it.
insert_into(s, k, commits) ==
    <<[op |-> "made", key |-> k]>> \o Put(s, 1, k, store[s].made[k] + 1, commits)
        \o (IF Holds(s, k) = 1 THEN retire(<<k, Version(s, k)>>) ELSE <<>>)
erase_in(s, i, k, commits) ==
    Put(s, i, k, 0, commits) \o retire(<<k, store[s].slot[store[s].ptr[i]][k]>>)

\* start_rehash_read_local: a fresh table, and the current one becomes the old one.
start_rehash_read_local(s) ==
    Do("table") \o Bracket(Topology(2, store[s].ptr[1]) \o Topology(1, store[s].tables + 1)
                               \o Do("rewind"))

\* rehash_step_read_local over one slot; after the last one the old table goes.
rehash_step_read_local(s) ==
    LET k == KeysAt[s][store[s].pos]
        v == store[s].slot[store[s].ptr[2]][k]
    IN  Bracket((IF v = 0 THEN <<>> ELSE Put(s, 1, k, v, FALSE) \o Put(s, 2, k, 0, FALSE))
                \o Do("pos")
                \o (IF store[s].pos < Len(KeysAt[s]) THEN <<>>
                    ELSE Topology(2, NoTable) \o <<[op |-> "resize", x |-> <<s, store[s].ptr[2]>>]>>))

\* insert_read_local after the resize work: a key still in the old table moves in a bracket.
Place(s, k, commits) ==
    IF Holds(s, k) = 2
    THEN Bracket(erase_in(s, 2, k, FALSE) \o insert_into(s, k, commits))
    ELSE insert_into(s, k, commits)
Resize(s, grows) ==
    IF Rehashing(s) THEN Call("step", s) ELSE IF grows THEN Call("grow", s) ELSE <<>>

\* erase_read_local after the resize step.
Erase(s, k) == IF Holds(s, k) = 0 THEN <<>> ELSE erase_in(s, Holds(s, k), k, TRUE)

\* atomic_exchange_physical_read_local: v = 0 erases.  What is displaced is not retired.
atomic_exchange_physical(s, k, v) ==
    Bracket((IF Holds(s, k) = 2 THEN Put(s, 2, k, 0, FALSE) ELSE <<>>)
                \o (IF v # 0 \/ Holds(s, k) = 1 THEN Put(s, 1, k, v, FALSE) ELSE <<>>))

\* clear_read_local inside its guards: every slot, then the tables, then an empty table.
Wipe(s) ==
    LET Drop(i) ==
            LET there == SelectSeq(KeysAt[s], LAMBDA k : store[s].slot[store[s].ptr[i]][k] # 0)
            IN  IF store[s].ptr[i] = NoTable THEN <<>>
                ELSE FlattenSeq([j \in DOMAIN there |-> erase_in(s, i, there[j], FALSE)])
                         \o Topology(i, NoTable) \o retire(<<s, store[s].ptr[i]>>)
    IN  Bracket(Drop(1) \o Drop(2) \o Do("table") \o Topology(1, store[s].tables + 1)
                    \o Commit(Range(KeysAt[s])))

\* The keys of a group on one shard, in slot order.
Part(g, s) == SelectSeq(KeysAt[s], LAMBDA k : k \in Groups[g])

\* The fragment of a group on one shard: its keys are in the filter before its first
\* exchange, and the last fragment to install decides.
Install(g, s) ==
    read_local_pending_publish(Part(g, s))
        \o FlattenSeq([i \in DOMAIN Part(g, s) |-> Call("exchange", <<g, Part(g, s)[i]>>)])
        \o <<[op |-> "installed", g |-> g]>>

\* The collapse of a decided group: the loser of every key is retired, and the keys leave
\* the filter when the table holds what they may be read as.
Collapse(g, s) ==
    LET ks == Part(g, s)
        old(k) == group[g].old[k]
        lose(k, v) == IF v = 0 THEN <<>> ELSE retire(<<k, v>>)
        Fold(k) == IF group[g].decided = "commit" THEN lose(k, old(k))
                   ELSE atomic_exchange_physical(s, k, old(k)) \o lose(k, Version(s, k))
    IN  FlattenSeq([i \in DOMAIN ks |-> Fold(ks[i])]) \o read_local_pending_unpublish(ks)
            \o <<[op |-> "collapsed", g |-> g]>>

\* The stores of a command, or of a part of one that depends on those before it.
Stores(s, f, arg) ==
    CASE f = "set"      -> Resize(s, FALSE) \o Call("place", arg)
      [] f = "setgrow"  -> Resize(s, TRUE) \o Call("place", arg)
      [] f = "del"      -> Resize(s, FALSE) \o Call("erase", arg)
      [] f = "scope"    -> foreign_read_scope_open_span(arg)
                               \o FlattenSeq([i \in DOMAIN arg |-> Call("quiet", arg[i])])
                               \o Commit(Range(arg)) \o foreign_read_scope_close_span(arg)
      [] f = "flush"    -> Call("poison", s) \o Call("poison", s) \o Call("wipe", s)
                               \o Call("unpoison", s) \o Call("unpoison", s)
      [] f = "group"    -> Install(arg, s)
      [] f = "collapse" -> Collapse(arg, s)
      [] f = "step"     -> rehash_step_read_local(s)
      [] f = "grow"     -> start_rehash_read_local(s)
      [] f = "place"    -> Place(s, arg, TRUE)
      [] f = "quiet"    -> Place(s, arg, FALSE)
      [] f = "erase"    -> Erase(s, arg)
      [] f = "exchange" -> <<[op |-> "made", key |-> arg[2]], [op |-> "displace", g |-> arg[1], key |-> arg[2]]>>
                               \o atomic_exchange_physical(s, arg[2], store[s].made[arg[2]] + 1)
      [] f = "poison"   -> foreign_read_poison_open(s)
      [] f = "unpoison" -> foreign_read_poison_close(s)
      [] f = "rebuild"  -> rebuild_saturated_if_drained(s)
      [] f = "wipe"     -> Wipe(s)

----------------------------------------------------------------------------
(* What one store does *)

Added(c, o) ==
    IF c.count = 0 THEN [count |-> 1, print |-> o.print, wild |-> o.wild]
    ELSE IF c.count = CountMax THEN c
    ELSE [c EXCEPT !.count = @ + 1,
                   !.wild = @ \/ o.wild \/ c.print # o.print \/ c.count + 1 = CountMax]
Closed(c) ==
    IF c.count = CountMax THEN c ELSE IF c.count = 1 THEN NoCell ELSE [c EXCEPT !.count = @ - 1]

\* read_local_advance_generation, and the bit of the first and last pending witness.
StoreEffect(st, o) ==
    CASE o.op = "odd"     -> [st EXCEPT !.odd = TRUE]
      [] o.op = "even"    -> [st EXCEPT !.odd = FALSE, !.gen = @ + 1]
      [] o.op = "witness" -> [st EXCEPT !.pending = @ + o.by, !.pend = st.pending + o.by > 0]
      [] o.op = "put"     -> [st EXCEPT !.slot[o.table][o.key] = o.v]
      [] o.op = "ptr"     -> [st EXCEPT !.ptr[o.i] = o.n]
      [] o.op = "cap"     -> [st EXCEPT !.cap[o.i] = o.n]
      [] o.op = "made"    -> [st EXCEPT !.made[o.key] = @ + 1]
      [] o.op = "table"   -> [st EXCEPT !.tables = @ + 1]
      [] o.op = "rewind"  -> [st EXCEPT !.pos = 1]
      [] o.op = "pos"     -> [st EXCEPT !.pos = @ + 1]
      [] o.op = "add"     -> [st EXCEPT !.cell[o.cell] = Added(@, o),
                                        !.saturated = IF st.cell[o.cell].count + 1 = CountMax THEN @ + 1 ELSE @]
      [] o.op = "close"   -> [st EXCEPT !.cell[o.cell] = Closed(@)]
      [] o.op = "zero"    -> [st EXCEPT !.cell[o.cell] = NoCell, !.saturated = 0]
      [] o.op = "touch"   -> [st EXCEPT !.touched[o.cell] = @ + 1]
      [] o.op = "refs"    -> [st EXCEPT !.refs = @ + o.by]
      [] o.op = "poison"  -> [st EXCEPT !.poison = @ + o.by]
      [] OTHER            -> st

\* What no other thread can see goes together with the store before it.
Private == {"call", "made", "table", "rewind", "pos", "refs", "poison", "displace", "commit", "collapsed"}

Working(t, ops) == pc[t] = "work" /\ work[t] # <<>> /\ Head(work[t]).op \in ops
Done(t) == work' = [work EXCEPT ![t] = Tail(@)] /\ UNCHANGED <<pc, scan, rd, todo, scene, told>>
Now == Last(past)

Store(t) ==
    /\ Working(t, {"odd", "even", "witness", "put", "ptr", "cap", "made", "table", "rewind", "pos",
                   "add", "close", "zero", "touch", "refs", "poison"})
    /\ LET o == Head(work[t])
       IN  /\ store' = [store EXCEPT ![Mine(t)] = StoreEffect(@, o)]
           /\ past' = IF o.op = "put" /\ o.commits THEN Append(past, [Now EXCEPT ![o.key] = o.v]) ELSE past
    /\ Done(t) /\ UNCHANGED <<group, graceVars>>

\* The next part of the command.
Expand(t) ==
    /\ Working(t, {"call"})
    /\ work' = [work EXCEPT ![t] = Stores(Mine(t), Head(@).f, Head(@).arg) \o Tail(@)]
    /\ UNCHANGED <<store, group, graceVars, past, pc, scan, rd, todo, scene, told>>

\* The raw values of these keys are their committed values.
Committed(ks) == Append(past, [k \in Keys |-> IF k \in ks THEN Version(Home(k), k) ELSE Now[k]])
CommitKeys(t) ==
    /\ Working(t, {"commit"})
    /\ past' = Committed(Head(work[t]).keys)
    /\ Done(t) /\ UNCHANGED <<store, group, graceVars>>

\* The fragment keeps what its exchange displaces.
Displace(t) ==
    /\ Working(t, {"displace"})
    /\ LET o == Head(work[t])
       IN  group' = [group EXCEPT ![o.g].old[o.key] = Version(Mine(t), o.key), ![o.g].open = @ \cup {Mine(t)}]
    /\ Done(t) /\ UNCHANGED <<store, graceVars, past>>

\* A fragment is installed; the last one commits or aborts the group.
Installed(t) ==
    /\ Working(t, {"installed"})
    /\ LET g == Head(work[t]).g
           left == group[g].left \ {Mine(t)}
       IN  \E verdict \in IF left = {} THEN {"commit", "abort"} ELSE {"no"} :
               /\ group' = [group EXCEPT ![g].left = left, ![g].decided = verdict]
               /\ past' = IF verdict = "commit" THEN Committed(Groups[g]) ELSE past
    /\ Done(t) /\ UNCHANGED <<store, graceVars>>
Collapsed(t) ==
    /\ Working(t, {"collapsed"})
    /\ group' = [group EXCEPT ![Head(work[t]).g].open = @ \ {Mine(t)}]
    /\ Done(t) /\ UNCHANGED <<store, graceVars, past>>

\* The command is over.
Finish(t) ==
    /\ pc[t] = "work" /\ work[t] = <<>>
    /\ pc' = [pc EXCEPT ![t] = "top"]
    /\ UNCHANGED <<scene, todo, store, group, graceVars, work, scan, rd, historyVars>>

----------------------------------------------------------------------------
(* Retirement *)

Size(r) == FoldSeq(LAMBDA b, n : n + Cardinality(b.objs), 0, r.batches) + Cardinality(r.unsealed)
Full(t) == Size(ring[t]) = RingCap
Empty(t) == ring[t].batches = <<>> /\ ring[t].unsealed = {} /\ ring[t].resizes = <<>>

\* seal_pending: the suffix gets the old epoch; with the batch ring full it joins the
\* newest batch, under the newer stamp.
Seal(r, stamp) ==
    LET n == Len(r.batches)
    IN  [r EXCEPT !.unsealed = {},
                  !.batches = IF n < BatchCap THEN Append(@, [stamp |-> stamp, objs |-> r.unsealed])
                              ELSE [@ EXCEPT ![n] = [stamp |-> stamp, objs |-> @.objs \cup r.unsealed]]]
seal_pending(t) ==
    IF ring[t].unsealed = {} THEN UNCHANGED <<ring, epoch>>
    ELSE ring' = [ring EXCEPT ![t] = Seal(@, epoch)] /\ epoch' = epoch + 1

\* defer, when there is room.
Defer(t) ==
    /\ Working(t, {"retire"}) /\ ~Full(t)
    /\ ring' = [ring EXCEPT ![t].unsealed = @ \cup {Head(work[t]).x}]
    /\ Done(t) /\ UNCHANGED <<store, group, epoch, tick, freed, past>>

\* defer_resize: the stamp is taken after the table is unlinked.
DeferResize(t) ==
    /\ Working(t, {"resize"})
    /\ ring' = [ring EXCEPT ![t].resizes = Append(@, [stamp |-> epoch, x |-> Head(work[t]).x])]
    /\ epoch' = epoch + 1
    /\ Done(t) /\ UNCHANGED <<store, group, tick, freed, past>>

AtPc(t, from, to) ==
    /\ pc[t] = from /\ pc' = [pc EXCEPT ![t] = to]
    /\ UNCHANGED <<scene, todo, store, group, work, rd, historyVars>>

\* force_oldest_grace: seal, and while the ring is full publish a fresh tick and drain.
Force(t) ==
    /\ Working(t, {"retire"}) /\ Full(t)
    /\ AtPc(t, "work", "force") /\ seal_pending(t)
    /\ UNCHANGED <<tick, freed, scan>>
ForceDone(t) == AtPc(t, "force", "work") /\ ~Full(t) /\ UNCHANGED <<graceVars, scan>>
LoadEpoch(t) == scan' = [scan EXCEPT ![t].epoch = epoch] /\ UNCHANGED graceVars
StoreTick(t, parked) ==
    /\ tick' = [tick EXCEPT ![t] = [at |-> scan[t].epoch, parked |-> parked]]
    /\ UNCHANGED <<epoch, ring, freed>>
ForceLoad(t) == AtPc(t, "force", "refresh") /\ Full(t) /\ LoadEpoch(t)
ForceWithoutRefresh(t) ==
    /\ AtPc(t, "refresh", "drain") /\ UNCHANGED graceVars
    /\ scan' = [scan EXCEPT ![t].back = "force", ![t].epoch = 0]
refresh_read_local_quiescence(t) ==
    /\ AtPc(t, "refresh", "drain") /\ StoreTick(t, tick[t].parked)
    /\ scan' = [scan EXCEPT ![t].back = "force", ![t].epoch = 0]

\* drain_ready: seal; the oldest stamp decides how far the scan must go.
Oldest(r) ==
    Min({Infinity} \cup (IF r.batches = <<>> THEN {} ELSE {Head(r.batches).stamp})
                   \cup (IF r.resizes = <<>> THEN {} ELSE {Head(r.resizes).stamp}))
DrainEmpty(t) == AtPc(t, "drain", scan[t].back) /\ Empty(t) /\ UNCHANGED <<graceVars, scan>>
Drain(t) ==
    /\ AtPc(t, "drain", "hint") /\ ~Empty(t) /\ seal_pending(t)
    /\ scan' = [scan EXCEPT ![t].oldest = Oldest(ring'[t]), ![t].i = 1, ![t].floor = Infinity]
    /\ UNCHANGED <<tick, freed>>

\* read_local_grace_floor, one publication at a time.
Blocks(t, p) == ~tick[p].parked /\ tick[p].at <= scan[t].oldest
\* A scan ends, and what has a stamp below its floor is reclaimed: ReadLocalRetireRing and
\* ResizeRetireQueue drain_below.
ReadyLate(stamp, floor) == stamp <= floor
Ready(stamp, floor) == stamp < floor
drain_below(q, floor) == SelectSeq(q, LAMBDA b : ~Ready(b.stamp, floor))
Reclaim(t, floor, hint) ==
    /\ ring' = [ring EXCEPT ![t].batches = drain_below(@, floor), ![t].resizes = drain_below(@, floor)]
    /\ freed' = freed \cup UNION {b.objs : b \in {b \in Range(ring[t].batches) : Ready(b.stamp, floor)}}
                      \cup {b.x : b \in {b \in Range(ring[t].resizes) : Ready(b.stamp, floor)}}
    /\ scan' = [scan EXCEPT ![t] = [NoScan EXCEPT !.hint = hint, !.back = scan[t].back]]
    /\ UNCHANGED <<epoch, tick>>
HintBlocks(t) ==
    /\ AtPc(t, "hint", scan[t].back)
    /\ scan[t].hint # 0 /\ Blocks(t, scan[t].hint)
    /\ Reclaim(t, tick[scan[t].hint].at, scan[t].hint)
HintPasses(t) ==
    /\ AtPc(t, "hint", "scan")
    /\ scan[t].hint # 0 => ~Blocks(t, scan[t].hint)
    /\ UNCHANGED <<graceVars, scan>>
ScanBlocks(t) ==
    /\ AtPc(t, "scan", scan[t].back)
    /\ Blocks(t, scan[t].i)
    /\ Reclaim(t, tick[scan[t].i].at, scan[t].i)
FloorWith(t, p) == IF tick[p].parked THEN scan[t].floor ELSE Min({scan[t].floor, tick[p].at})
ScanPasses(t) ==
    /\ AtPc(t, "scan", "scan")
    /\ scan[t].i < NThreads /\ ~Blocks(t, scan[t].i)
    /\ scan' = [scan EXCEPT ![t].i = @ + 1, ![t].floor = FloorWith(t, scan[t].i)]
    /\ UNCHANGED graceVars
ScanEnds(t) ==
    /\ AtPc(t, "scan", scan[t].back)
    /\ scan[t].i = NThreads /\ ~Blocks(t, NThreads)
    /\ Reclaim(t, FloorWith(t, NThreads), scan[t].hint)

\* At the end of a rotation, after the drain.
BoundaryLoad(t) == AtPc(t, "boundary", "publish") /\ LoadEpoch(t)
publish_read_local_tick(t) == AtPc(t, "publish", "rest") /\ StoreTick(t, FALSE) /\ scan' = [scan EXCEPT ![t].epoch = 0]
Stay(t) == AtPc(t, "rest", "top") /\ UNCHANGED <<graceVars, scan>>

\* Around the wait for the network.
ParkLoad(t) == t \in scene.parks /\ AtPc(t, "rest", "park") /\ LoadEpoch(t)
publish_read_local_parked(t) == AtPc(t, "park", "parked") /\ StoreTick(t, TRUE) /\ scan' = [scan EXCEPT ![t].epoch = 0]
resume_read_local_tick(t) ==
    /\ t \in scene.parks /\ AtPc(t, "parked", "resumed")
    /\ tick' = [tick EXCEPT ![t].parked = FALSE] /\ UNCHANGED <<epoch, ring, freed, scan>>
ResumeLoad(t) == AtPc(t, "resumed", "republish") /\ LoadEpoch(t)
ResumePublish(t) == AtPc(t, "republish", "top") /\ StoreTick(t, FALSE) /\ scan' = [scan EXCEPT ![t].epoch = 0]

----------------------------------------------------------------------------
(* A local read *)

Key(t) == rd[t].keys[rd[t].i]
Of(t) == store[Home(Key(t))]
Equal(t) == rd[t].word = <<Of(t).gen, Of(t).odd>>   \* read_local_probe_sequence_equal
might_contain(k) ==
    LET c == store[Home(k)].cell[Cell[k]]
    IN  c.count > 0 /\ (c.wild \/ c.print = Fingerprint[k])

Reading(t, from, to) ==
    /\ pc[t] = from /\ pc' = [pc EXCEPT ![t] = to]
    /\ UNCHANGED <<scene, todo, store, group, graceVars, work, scan, historyVars>>
Load(t, from, to, r) == Reading(t, from, to) /\ rd' = [rd EXCEPT ![t] = r]

\* read_local_prefetch_capture of one key ends with a result; only GET and a wide MGET look at
\* its word again.
Captured(t, from, result, v) ==
    LET kept == IF rd[t].kind = "mget" THEN NoRead.word ELSE rd[t].word
        r == [rd[t] EXCEPT !.got = Append(@, [result |-> result, v |-> v, word |-> kept]),
                           !.word = NoRead.word, !.ptr = NoRead.ptr, !.cap = NoRead.cap, !.v = 0]
    IN  IF rd[t].i < Len(rd[t].keys) THEN Load(t, from, "word", [r EXCEPT !.i = @ + 1])
        ELSE Load(t, from, "copy", [r EXCEPT !.i = 1])

\* The word; with its pending bit the filter decides next.
LoadWord(t) ==
    /\ pc[t] = "word"
    /\ LET r == [rd[t] EXCEPT !.word = <<Of(t).gen, Of(t).odd>>]
       IN  \/ Of(t).pend /\ Load(t, "word", "cell", r)
           \/ ~Of(t).pend /\ Load(t, "word", "eligible", r)
\* close_cell has stored the cell of k and not yet its epoch.
Untouched(k) ==
    LET o == Owner[Home(k)]
    IN  Working(o, {"touch"}) /\ Head(work[o]).cell = Cell[k]
LoadCell(t) ==
    /\ pc[t] = "cell"
    /\ \/ might_contain(Key(t)) /\ Captured(t, "cell", "pending", 0)
       \/ /\ ~might_contain(Key(t))
          /\ Load(t, "cell", "eligible", [rd[t] EXCEPT !.slip = @ \/ Untouched(Key(t))])

\* read_local_snapshot_topology: pointer and capacity of each table, one load at a time; where
\* no table moves the order of the loads makes no difference.
LoadPtr(t, i, from, to) == Load(t, from, to, [rd[t] EXCEPT !.ptr[i] = Of(t).ptr[i]])
LoadCap(t, i, from, to) == Load(t, from, to, [rd[t] EXCEPT !.cap[i] = Of(t).cap[i]])
Ineligible(t) == pc[t] = "eligible" /\ rd[t].word[2] /\ Captured(t, "eligible", "churn", 0)
LoadTopology(t) ==
    \/ /\ ~rd[t].word[2] /\ ~scene.moves
       /\ Load(t, "eligible", "again", [rd[t] EXCEPT !.ptr = Of(t).ptr, !.cap = Of(t).cap])
    \/ ~rd[t].word[2] /\ scene.moves /\ LoadPtr(t, 1, "eligible", "cap1")
    \/ LoadCap(t, 1, "cap1", "ptr2")
    \/ LoadPtr(t, 2, "ptr2", "cap2")
    \/ LoadCap(t, 2, "cap2", "again")
CheckTopology(t) ==
    pc[t] = "again" /\ Load(t, "again", IF Equal(t) THEN "find1" ELSE "why", rd[t])

\* read_local_capture_in: the current table, then the old one.
SlotOf(t, i) == IF rd[t].ptr[i] = NoTable THEN 0 ELSE Of(t).slot[rd[t].ptr[i]][Key(t)]
FindIn(t) ==
    \/ Load(t, "find1", IF SlotOf(t, 1) = 0 THEN "find2" ELSE "final", [rd[t] EXCEPT !.v = SlotOf(t, 1)])
    \/ Load(t, "find2", "final", [rd[t] EXCEPT !.v = SlotOf(t, 2)])
FinalCheck(t) ==
    /\ pc[t] = "final"
    /\ \/ Equal(t) /\ Captured(t, "final", IF rd[t].v = 0 THEN "missing" ELSE "hit", rd[t].v)
       \/ ~Equal(t) /\ Load(t, "final", "why", rd[t])
\* The word changed: because of a key in the filter, or of something else.
WhyChanged(t) ==
    /\ pc[t] = "why"
    /\ Captured(t, "why", IF Of(t).pend /\ might_contain(Key(t)) THEN "pending" ELSE "churn", 0)

\* The command goes to the owners.
Demote(t, from) == Load(t, from, "top", NoRead)

\* prepare_local_read of a GET: copy the object, then read_local_validate.
Fallback == [result |-> "fallback", v |-> 0, word |-> NoRead.word]
NextCopy(t, r, after) ==
    IF r.i < Len(r.keys) THEN Load(t, "copy", "copy", [r EXCEPT !.i = @ + 1])
    ELSE Load(t, "copy", after, [r EXCEPT !.i = 1])
Capture(t) == rd[t].got[rd[t].i]
Validates(t) == Capture(t).word = <<Of(t).gen, Of(t).odd>>
CopyGet(t) ==
    /\ pc[t] = "copy" /\ rd[t].kind = "get"
    /\ NextCopy(t, IF Capture(t).result = "hit" /\ Validates(t) THEN rd[t]
                   ELSE [rd[t] EXCEPT !.got[rd[t].i] = Fallback], "answer")

\* prepare_captured_local_mget.  Up to kMaxEpochKeys keys the window is the epochs of their
\* filter cells; above that ("wide") the generations of the shards it touches.
Touched(t) == SetToSeq({Home(k) : k \in Range(rd[t].keys)})
Windows(t) == IF rd[t].kind = "mget" THEN Len(rd[t].keys) ELSE Len(Touched(t))
WindowEntry(t) ==
    IF rd[t].kind = "mget" THEN Of(t).touched[Cell[Key(t)]] ELSE store[Touched(t)[rd[t].i]].gen
WindowOdd(t) == rd[t].kind = "wide" /\ store[Touched(t)[rd[t].i]].odd
Retry(t, from) ==
    IF rd[t].try = Attempts THEN Demote(t, from)
    ELSE Load(t, from, "open", [NoRead EXCEPT !.kind = rd[t].kind, !.keys = rd[t].keys,
                                              !.from = rd[t].from, !.try = rd[t].try + 1])
local_mget_window_open(t) ==
    /\ pc[t] = "open"
    /\ LET r == [rd[t] EXCEPT !.open = Append(@, WindowEntry(t))]
       IN  \/ WindowOdd(t) /\ Retry(t, "open")
           \/ ~WindowOdd(t) /\ rd[t].i < Windows(t) /\ Load(t, "open", "open", [r EXCEPT !.i = @ + 1])
           \/ ~WindowOdd(t) /\ rd[t].i = Windows(t) /\ Load(t, "open", "word", [r EXCEPT !.i = 1])
CopyMget(t) ==
    /\ pc[t] = "copy" /\ rd[t].kind # "get"
    /\ CASE Capture(t).result = "pending" -> Demote(t, "copy")
         [] Capture(t).result = "churn" -> Retry(t, "copy")
         [] rd[t].kind = "wide" /\ ~Validates(t) -> Retry(t, "copy")
         [] OTHER -> NextCopy(t, rd[t], "close")
CloseLooksOnce(t) == Load(t, "close", "answer", rd[t])
local_mget_window_close(t) ==
    /\ pc[t] = "close"
    /\ \/ /\ WindowOdd(t) \/ WindowEntry(t) # rd[t].open[rd[t].i]
          /\ Retry(t, "close")
       \/ /\ ~WindowOdd(t) /\ WindowEntry(t) = rd[t].open[rd[t].i]
          /\ IF rd[t].i < Windows(t) THEN Load(t, "close", "close", [rd[t] EXCEPT !.i = @ + 1])
             ELSE Load(t, "close", "answer", rd[t])

\* The prefix of a chunk before its first fallback is answered; the reads that fell back, and
\* the younger ones of their keys, go to the owner; the others run again.
Answered(t) ==
    LET failed == {i \in DOMAIN rd[t].got : rd[t].got[i].result = "fallback"}
    IN  IF failed = {} THEN Len(rd[t].keys) ELSE Min(failed) - 1
RunAgain(t) ==
    LET r == rd[t]
        failed == {i \in DOMAIN r.got : r.got[i].result = "fallback"}
        again == {i \in DOMAIN r.keys : i > Answered(t) /\ \A j \in failed : j <= i => r.keys[j] # r.keys[i]}
    IN  IF failed = {} THEN <<>> ELSE [n \in 1 .. Cardinality(again) |-> r.keys[SetToSortSeq(again, <)[n]]]

\* Where the answers of t can be placed in the history: at instants of the command, in
\* program order, and no MGET on two sides of a change of several of its keys.
ChangedAt(c) == {k \in Keys : past[c][k] # past[c - 1][k]}
Placements(t) ==
    LET r == rd[t]
        n == Answered(t)
    IN  {p \in [1 .. n -> Max({r.from, told[t]}) .. Len(past)] :
            /\ \A i \in 1 .. n : past[p[i]][r.keys[i]] = r.got[i].v
            /\ \A i, j \in 1 .. n : i < j => p[i] <= p[j]
            /\ r.kind # "get" /\ ~r.slip => \A i, j \in 1 .. n : \A c \in (p[i] + 1) .. p[j] :
                                     ~{r.keys[i], r.keys[j]} \subseteq ChangedAt(c)}
Answer(t) ==
    /\ pc[t] = "answer"
    /\ told' = [told EXCEPT ![t] = IF Answered(t) = 0 THEN @ ELSE Min({p[Answered(t)] : p \in Placements(t)})]
    /\ IF RunAgain(t) = <<>> THEN pc' = [pc EXCEPT ![t] = "top"] /\ rd' = [rd EXCEPT ![t] = NoRead]
       ELSE /\ pc' = [pc EXCEPT ![t] = "word"]
            /\ rd' = [rd EXCEPT ![t] = [NoRead EXCEPT !.keys = RunAgain(t), !.from = rd[t].from]]
    /\ UNCHANGED <<scene, todo, store, group, graceVars, work, scan, past>>

----------------------------------------------------------------------------
(* The commands of a thread *)

\* A key with a version of a group that has not been folded is written through its chain.
Unfolded(ks) == \E g \in DOMAIN group : group[g].open # {} /\ Groups[g] \cap ks # {}
Writable(s, item) ==
    CASE item.do = "scope"    -> ~Unfolded(Range(item.arg))
      [] item.do = "flush"    -> ~Unfolded(Range(KeysAt[s]))
      [] item.do = "group"    -> ~Unfolded(Groups[item.arg])
      [] item.do = "collapse" -> group[item.arg].decided # "no"
      [] OTHER                -> ~Unfolded({item.arg})
IsRead(item) == item.do \in {"get", "mget", "wide"}

\* The end of a rotation, after the commands that arrived together, or with nothing to do.  A
\* rotation that has nothing to drain and nothing new to publish changes nothing.
Ends(t) == todo[t] # <<>> /\ Head(todo[t]).do = "turn"
Waits(t) == todo[t] # <<>> => ~Ends(t) /\ ~IsRead(Head(todo[t])) /\ ~Writable(Mine(t), Head(todo[t]))
Rotate(t) ==
    /\ pc[t] = "top" /\ (Ends(t) \/ (t \in scene.spins /\ Waits(t) /\ (~Empty(t) \/ tick[t].at # epoch)))
    /\ pc' = [pc EXCEPT ![t] = "drain"]
    /\ todo' = [todo EXCEPT ![t] = IF Ends(t) THEN Tail(@) ELSE @]
    /\ scan' = [scan EXCEPT ![t].back = "boundary"]
    /\ UNCHANGED <<scene, store, group, graceVars, work, rd, historyVars>>

TakeRead(t) ==
    /\ pc[t] = "top" /\ todo[t] # <<>> /\ IsRead(Head(todo[t]))
    /\ todo' = [todo EXCEPT ![t] = Tail(@)]
    /\ pc' = [pc EXCEPT ![t] = IF Head(todo[t]).do = "get" THEN "word" ELSE "open"]
    /\ rd' = [rd EXCEPT ![t] = [NoRead EXCEPT !.kind = Head(todo[t]).do, !.keys = Head(todo[t]).arg,
                                              !.from = Len(past)]]
    /\ UNCHANGED <<scene, store, group, graceVars, work, scan, historyVars>>
TakeWrite(t) ==
    /\ pc[t] = "top" /\ todo[t] # <<>> /\ ~Ends(t)
    /\ ~IsRead(Head(todo[t])) /\ Writable(Mine(t), Head(todo[t]))
    /\ todo' = [todo EXCEPT ![t] = Tail(@)]
    /\ pc' = [pc EXCEPT ![t] = "work"]
    /\ work' = [work EXCEPT ![t] = Call(Head(todo[t]).do, Head(todo[t]).arg)]
    /\ UNCHANGED <<scene, store, group, graceVars, scan, rd, historyVars>>

Mutate(t) == Store(t) \/ Expand(t) \/ CommitKeys(t) \/ Displace(t) \/ Installed(t) \/ Collapsed(t) \/ Finish(t)
Grace(t) ==
    \/ Defer(t) \/ DeferResize(t)
    \/ Force(t) \/ ForceDone(t) \/ ForceLoad(t) \/ refresh_read_local_quiescence(t)
    \/ DrainEmpty(t) \/ Drain(t) \/ HintBlocks(t) \/ HintPasses(t)
    \/ ScanBlocks(t) \/ ScanPasses(t) \/ ScanEnds(t)
    \/ Rotate(t) \/ BoundaryLoad(t) \/ publish_read_local_tick(t) \/ Stay(t)
    \/ ParkLoad(t) \/ publish_read_local_parked(t)
    \/ resume_read_local_tick(t) \/ ResumeLoad(t) \/ ResumePublish(t)
ReadStep(t) ==
    \/ LoadWord(t) \/ LoadCell(t) \/ Ineligible(t) \/ LoadTopology(t) \/ CheckTopology(t)
    \/ FindIn(t) \/ FinalCheck(t) \/ WhyChanged(t) \/ CopyGet(t)
    \/ local_mget_window_open(t) \/ CopyMget(t) \/ local_mget_window_close(t) \/ Answer(t)

Step(t) == TakeRead(t) \/ TakeWrite(t) \/ Mutate(t) \/ Grace(t) \/ ReadStep(t)
Alone(t) == \A u \in Threads \ {t} : ~Working(u, Private)
ReadsNext == \E t \in Threads : Alone(t) /\ Step(t)

\* Every thread runs: asked only where threads go on rotating, the scenes where a ring fills.
ReadsFairness == \A t \in Threads : WF_readVars(scene.spins # {} /\ Alone(t) /\ Step(t))

----------------------------------------------------------------------------
(* Properties *)

Tables(t) == {<<Home(Key(t)), rd[t].ptr[i]>> : i \in {i \in {1, 2} : rd[t].ptr[i] # NoTable}}

\* Nothing a reader is about to touch has been reclaimed: the tables it is probing, whose
\* capacities are their own, and the objects it has captured and not copied yet
\* (read_local_grace_floor: parked threads "hold no foreign pointer").
NothingReadIsReclaimed ==
    \A t \in Threads :
        /\ pc[t] \in {"find1", "find2"} => rd[t].ptr = rd[t].cap /\ Tables(t) \cap freed = {}
        /\ (pc[t] = "final" /\ rd[t].v # 0) => <<Key(t), rd[t].v>> \notin freed
        /\ pc[t] # "answer" => \A i \in DOMAIN rd[t].got :
               rd[t].got[i].result = "hit" => <<rd[t].keys[i], rd[t].got[i].v>> \notin freed

\* A local answer is one the owners could have given: each value was committed at an instant
\* of the command, in program order with the other local reads of the thread, and an MGET never
\* sees one key of an atomic group, of a multi-key write or of a flush and misses another
\* (LocalMgetWindow; drain_local_reads_bounded_impl: "a later GET can never retain a version
\* older than the preceding MGET returned").
LocalReadsAreCurrent == \A t \in Threads : pc[t] = "answer" => Placements(t) # {}

\* An owner that waits in force_oldest_grace for room in its ring goes on, also when the
\* others wait in theirs ("prevents a full list from waiting on itself").
ForcedGraceEnds == (\E t \in Threads : pc[t] = "force") ~> (\A t \in Threads : pc[t] # "force")
=============================================================================
