------------------------------ MODULE Snapshot ------------------------------
(***************************************************************************)
(* A point-in-time snapshot (SAVE, BGSAVE and the base of an AOF rewrite)  *)
(* of shards that keep serving: SnapshotManager in snapshot/snapshot.cc,   *)
(* its owner side in core/ex_loop.h, and the table under it (FlatStore).   *)
(* Every executor owns one shard and runs commands; an IO thread starts    *)
(* the save, takes it through its phases and writes the file; other IO     *)
(* threads send cross-shard groups, which the cut must not tear.           *)
(*                                                                         *)
(* A program fixes what the shards hold at first, the commands each        *)
(* executor may be handed (a sequence of sets to choose from), the number  *)
(* of groups, saves, failures and clock ticks, and whether the save is     *)
(* blocking.                                                               *)
(***************************************************************************)
EXTENDS FlatStore

CONSTANTS ShardOf, GroupKey, Programs, ChanCap, MaxInflight

ASSUME ChannelsHoldAChunk == {ChanCap, MaxInflight} \subseteq Nat \ {0}

VARIABLES
    prog,       \* the program of this behaviour
    now,        \* the executors' cached clock
    st, db,     \* the table of each executor's shard; what its replies promised
    pc, task,   \* commands taken so far; the command held back by the pre-image gate
    sent,       \* fragments of groups in each executor's lane
    grp,        \* state of each group; slipped: admitted, not open, as the barrier went up
    slipped,
    scans,      \* the SCAN a client runs against each shard
    phase, mgr, \* SnapshotManager::phase_; where start() and the writer are
    barrier,    \* snapshot_atomic_barrier_
    told, own,  \* the start message to each owner; SnapshotOwnerState
    cancelled,  \* snapshot_was_cancelled_
    counted,    \* which owners reported in each of the manager's counters
    cut, torn,  \* the promised content, time and half-applied groups at the cut
    chan,       \* chunk channels
    inflight, header, ended, final, \* the writer: writes under way, header, End frames
    file, dump, \* records of the temporary file, of the published one
    budget      \* saves and failures still to come

storeVars == <<st, db, pc, task, sent, grp, slipped, scans>>
writeVars == <<chan, inflight, header, ended, final, file, dump>>
ctlVars == <<phase, mgr, barrier, told, own, cancelled, counted, cut, torn>>
vars == <<prog, now, storeVars, writeVars, ctlVars, budget>>

Exec == DOMAIN prog.load
NoOp == [op |-> "none", k |-> NoKey, v |-> 0, d |-> -1]
KeysOf(o) == {k \in Key : ShardOf[k] = o}
Entry(v, d) == [v |-> v, d |-> d]
Groups == 1 .. prog.groups
NoCut == [db |-> <<>>, ms |-> -1, on |-> FALSE]
NoDump == [recs |-> <<>>, cut |-> NoCut]
NoScan == [on |-> FALSE, cursor |-> 0, seen |-> {}, must |-> {}, missed |-> {}]
NobodyYet == [ready |-> {}, frozen |-> {}, marked |-> {}, cancelled |-> {}, finished |-> {}]

\* snapshot_load_shard: the records are inserted one after the other.
RECURSIVE Loaded(_, _)
Loaded(s, recs) ==
    IF recs = <<>> THEN s
    ELSE Loaded((CHOOSE r \in insert(s, Word(recs[1].k, recs[1].v, recs[1].d)) : TRUE).st,
                Tail(recs))

Init ==
    /\ prog \in Programs
    /\ now = 0
    /\ st = [o \in Exec |-> Loaded(NewStore(prog.max), prog.load[o])]
    /\ db = [o \in Exec |->
               [k \in {prog.load[o][i].k : i \in DOMAIN prog.load[o]} |->
                  LET i == CHOOSE i \in DOMAIN prog.load[o] : prog.load[o][i].k = k
                  IN Entry(prog.load[o][i].v, prog.load[o][i].d)]]
    /\ pc = [o \in Exec |-> 0] /\ task = [o \in Exec |-> NoOp]
    /\ sent = [o \in Exec |-> <<>>]
    /\ grp = [g \in Groups |-> [at |-> "new", left |-> Exec]] /\ slipped = {}
    /\ scans = [o \in Exec |-> NoScan]
    /\ phase = "Idle" /\ mgr = "idle" /\ barrier = FALSE
    /\ told = [o \in Exec |-> "no"] /\ own = [o \in Exec |-> "None"]
    /\ cancelled = [o \in Exec |-> FALSE] /\ counted = NobodyYet
    /\ cut = NoCut /\ torn = {}
    /\ chan = [o \in Exec |-> <<>>] /\ inflight = 0 /\ header = FALSE /\ ended = {}
    /\ final = "none" /\ file = <<>> /\ dump = NoDump
    /\ budget = [saves |-> prog.saves, fails |-> prog.fails]

Tick ==
    /\ now < prog.ticks
    /\ now' = now + 1
    /\ UNCHANGED <<prog, storeVars, writeVars, ctlVars, budget>>

---------------------------------------------------------------------------
(* Commands on an executor *)

Alive(e, t) == e.d < 0 \/ e.d > t
Present(o) == {k \in DOMAIN db[o] : Alive(db[o][k], now)}

\* What a command may do to the table.
Same(s) == {[ok |-> TRUE, st |-> s, gone |-> NoKey]}
Persisted(s, k) ==
    LET t == Min(Found(s, k, now))
        i == find_slot_in(s.tab[t], k)
    IN [find(s, k, now) EXCEPT !.tab[t][i].d = -1, !.expires = @ \ {k}]
expire_generic(s, k, d) ==
    IF Found(s, k, now) = {} THEN {Refused(find(s, k, now))}
    ELSE IF d <= now THEN Same(erase(find(s, k, now), k))
    ELSE set_expire(s, k, d, now)
cmd_flush(s) == IF s.act THEN clear_during_snapshot(s) ELSE clear(s)
Outcomes(s, c, x) ==
    CASE c.op \in {"set", "mset"} -> store_string(s, c.k, c.v, now)
      [] c.op = "del" -> Same(erase(s, c.k))
      [] c.op = "get" -> Same(find(s, c.k, now))
      [] c.op = "expire" -> expire_generic(s, c.k, c.d)
      [] c.op = "persist" ->
            Same(IF Found(s, c.k, now) = {} THEN find(s, c.k, now) ELSE Persisted(s, c.k))
      [] c.op = "flush" -> Same(cmd_flush(s))
      [] c.op = "scan" -> Same(scan(s, x.cursor, now).st)

\* What the reply promised.
Without(m, k) == [j \in DOMAIN m \ {k} |-> m[j]]
With(m, k, e) == [j \in DOMAIN m \cup {k} |-> IF j = k THEN e ELSE m[j]]
Promised(o, c, r) ==
    LET m == db[o]
        known == c.k \in Present(o)
        n == CASE c.op \in {"set", "mset"} -> IF r.ok THEN With(m, c.k, Entry(c.v, -1)) ELSE m
               [] c.op = "del" -> Without(m, c.k)
               [] c.op = "expire" ->
                     IF ~known \/ ~r.ok THEN m
                     ELSE IF c.d <= now THEN Without(m, c.k)
                     ELSE With(m, c.k, Entry(m[c.k].v, c.d))
               [] c.op = "persist" -> IF known THEN With(m, c.k, Entry(m[c.k].v, -1)) ELSE m
               [] c.op = "flush" -> <<>>
               [] OTHER -> m
    IN Without(n, r.gone)

\* cmd_scan, as its client sees it: a call from the cursor of the last one. "must" keeps
\* the keys that have been there all along.
Scanned(o, c, after, r) ==
    LET x == scans[o]
        all == IF x.on THEN x.must \cap Present(o) ELSE Present(o)
        seen == x.seen \cup r.seen
        stay == {k \in x.must \cap Present(o) : k \in DOMAIN after /\ Alive(after[k], now)}
    IN IF c.op # "scan" THEN [x EXCEPT !.must = stay]
       ELSE IF r.cursor # 0 THEN [x EXCEPT !.on = TRUE, !.cursor = r.cursor, !.seen = seen,
                                           !.must = all]
       ELSE [NoScan EXCEPT !.missed = all \ seen]

\* The keys whose value at the cut must be saved before the command runs.
Writes(c, s) ==
    CASE c.op \in {"set", "mset", "del", "expire", "persist"} -> {c.k}
      [] c.op = "flush" -> Resident(s)
      [] OTHER -> {}
Gate(s, ks) ==
    LET waiting == {k \in ks : snapshot_prepare_write(s, k).wait}
    IN IF waiting # {} THEN snapshot_prepare_write(s, Min(waiting))
       ELSE [wait |-> FALSE,
             st |-> FoldSet(LAMBDA k, x : snapshot_prepare_write(x, k).st, s, ks)]

snapshot_blocks_tasks(o) ==
    own[o] \in {"Frozen", "Marked"} \/ (own[o] = "Capturing" /\ prog.blocking)

\* The last fragment of a group closes it (atomic_apply_close).
Run(o, c) ==
    \E g \in {Gate(st[o], Writes(c, st[o]))} :
       \/ /\ g.wait
          /\ st' = [st EXCEPT ![o] = g.st] /\ task' = [task EXCEPT ![o] = c]
          /\ UNCHANGED <<db, scans, grp>>
       \/ /\ ~g.wait
          /\ \E r \in Outcomes(g.st, c, scans[o]) :
                /\ st' = [st EXCEPT ![o] = r.st]
                /\ db' = [db EXCEPT ![o] = Promised(o, c, r)]
                /\ scans' = [scans EXCEPT ![o] = Scanned(o, c, Promised(o, c, r),
                                                       scan(st[o], scans[o].cursor, now))]
          /\ task' = [task EXCEPT ![o] = NoOp]
          /\ grp' = [i \in Groups |-> IF c.op = "mset" /\ c.v = i
                                      THEN [grp[i] EXCEPT !.left = @ \ {o}] ELSE grp[i]]

\* The command that was held back, else the next one of a client or the next fragment.
Offered(o) ==
    IF task[o].op # "none" THEN {<<"held", task[o]>>}
    ELSE {<<"client", c>> : c \in IF pc[o] < Len(prog.ops[o]) THEN prog.ops[o][pc[o] + 1] ELSE {}}
         \cup {<<"group", [op |-> "mset", k |-> GroupKey[o], v |-> g, d |-> -1]>>
                 : g \in IF sent[o] # <<>> THEN {Head(sent[o])} ELSE {}}
Execute(o) ==
    /\ ~snapshot_blocks_tasks(o)
    /\ \E f \in Offered(o) :
          /\ Run(o, f[2])
          /\ pc' = IF f[1] = "client" THEN [pc EXCEPT ![o] = @ + 1] ELSE pc
          /\ sent' = IF f[1] = "group" THEN [sent EXCEPT ![o] = Tail(@)] ELSE sent
    /\ UNCHANGED <<prog, now, slipped, writeVars, ctlVars, budget>>

\* The executor's expiry beat: a step of a resize, and a sampled key.
ActiveExpire(o) ==
    /\ ~snapshot_blocks_tasks(o) /\ ~st[o].act
    /\ \/ rehashing(st[o]) /\ st' = [st EXCEPT ![o] = rehash_step(st[o])]
       \/ \E k \in st[o].expires : st' = [st EXCEPT ![o] = active_expire(st[o], k, now)]
    /\ st' # st
    /\ UNCHANGED <<prog, now, db, pc, task, sent, grp, slipped, scans, writeVars,
                   ctlVars, budget>>

---------------------------------------------------------------------------
(* Cross-shard groups, on an IO thread *)

\* atomic_try_admit: the barrier was down at its second look.
Admit(g) ==
    /\ grp[g].at = "new" /\ ~barrier
    /\ grp' = [grp EXCEPT ![g].at = "admitted"]
    /\ UNCHANGED <<prog, now, st, db, pc, task, sent, slipped, scans, writeVars,
                   ctlVars, budget>>

\* atomic_apply_open and the dispatch to every participant, one step of the IO thread.
Open(g) ==
    /\ grp[g].at = "admitted"
    /\ grp' = [grp EXCEPT ![g].at = "open"]
    /\ sent' = [o \in Exec |-> Append(sent[o], g)]
    /\ UNCHANGED <<prog, now, st, db, pc, task, slipped, scans, writeVars, ctlVars,
                   budget>>
atomic_apply_inflight == {g \in Groups : grp[g].at = "open" /\ grp[g].left # {}}

---------------------------------------------------------------------------
(* SnapshotManager::start, on the IO thread of the command *)

StartSave ==
    /\ phase = "Idle" /\ mgr = "idle" /\ budget.saves > 0
    /\ phase' = "Preparing" /\ mgr' = "tell" /\ barrier' = TRUE
    /\ told' = [o \in Exec |-> "no"] /\ counted' = NobodyYet
    /\ cut' = NoCut /\ torn' = {}
    /\ inflight' = 0 /\ header' = FALSE /\ ended' = {} /\ final' = "none" /\ file' = <<>>
    /\ budget' = [budget EXCEPT !.saves = @ - 1]
    /\ slipped' = {g \in Groups : grp[g].at = "admitted"}
    /\ UNCHANGED <<prog, now, st, db, pc, task, sent, grp, scans, own, cancelled, chan,
                   dump>>

Failing == budget.fails > 0 /\ budget' = [budget EXCEPT !.fails = @ - 1]
Failed == phase' = "Failed" /\ Failing

\* The start message to one owner; the first one the ring refuses ends the broadcast.
Untold == {o \in Exec : told[o] = "no"}
Tell ==
    /\ mgr = "tell" /\ Untold # {}
    /\ \/ /\ told' = [told EXCEPT ![Min(Untold)] = "sent"]
          /\ mgr' = IF Untold = {Min(Untold)} THEN "wait" ELSE "tell"
          /\ UNCHANGED <<phase, budget>>
       \/ /\ Failed /\ mgr' = "wait"
          /\ UNCHANGED told
    /\ UNCHANGED <<prog, now, storeVars, writeVars, barrier, own, cancelled, counted, cut,
                   torn>>

Wait(from, who) == mgr = "wait" /\ phase = from /\ who = Exec

\* drain_atomic_groups, then Freeze.
Freeze ==
    /\ Wait("Preparing", counted.ready) /\ atomic_apply_inflight = {}
    /\ phase' = "Freeze"
    /\ UNCHANGED <<prog, now, storeVars, writeVars, mgr, barrier, told, own, cancelled,
                   counted, cut, torn, budget>>

\* The cut: the clock is read while every owner is frozen.
Mark ==
    /\ Wait("Freeze", counted.frozen)
    /\ phase' = "Mark"
    /\ cut' = [db |-> db, ms |-> now, on |-> TRUE]
    /\ torn' = {g \in Groups : grp[g].left \notin {{}, Exec}}
    /\ UNCHANGED <<prog, now, storeVars, writeVars, mgr, barrier, told, own, cancelled,
                   counted, budget>>

Capture ==
    /\ Wait("Mark", counted.marked)
    /\ phase' = "Capture" /\ mgr' = "write" /\ barrier' = FALSE
    /\ inflight' = 1
    /\ UNCHANGED <<prog, now, storeVars, told, own, cancelled, counted, cut, torn, chan,
                   header, ended, final, file, dump, budget>>

Reported == counted.cancelled \cup counted.finished
AbortStart ==
    /\ mgr = "wait" /\ phase = "Failed" /\ Reported = Exec
    /\ phase' = "Idle" /\ mgr' = "idle" /\ barrier' = FALSE
    /\ UNCHANGED <<prog, now, storeVars, writeVars, told, own, cancelled, counted, cut, torn,
                   budget>>

---------------------------------------------------------------------------
(* The owner side: begin_snapshot and snapshot_control_pass *)

OwnerStep(o, from, to) == own[o] = from /\ own' = [own EXCEPT ![o] = to]
Count(c, o) == counted' = [counted EXCEPT ![c] = @ \cup {o}]

Begin(o) ==
    /\ told[o] = "sent" /\ told' = [told EXCEPT ![o] = "got"]
    /\ OwnerStep(o, "None", "Preparing")
    /\ cancelled' = [cancelled EXCEPT ![o] = FALSE]
    /\ UNCHANGED <<prog, now, storeVars, writeVars, phase, mgr, barrier, counted, cut, torn,
                   budget>>

Prepare(o) ==
    /\ own[o] = "Preparing" /\ phase # "Failed"
    /\ \/ /\ Prepared(st[o]) /\ OwnerStep(o, "Preparing", "Prepared") /\ Count("ready", o)
          /\ UNCHANGED <<st, phase, budget>>
       \/ /\ ~Prepared(st[o]) /\ st' = [st EXCEPT ![o] = snapshot_prepare(st[o])]
          /\ UNCHANGED <<own, counted, phase, budget>>
       \/ /\ ~Prepared(st[o]) /\ Failed
          /\ UNCHANGED <<st, own, counted>>
    /\ UNCHANGED <<prog, now, db, pc, task, sent, grp, slipped, scans, writeVars, mgr,
                   barrier, told, cancelled, cut, torn>>

OwnerFreeze(o) ==
    /\ phase = "Freeze" /\ OwnerStep(o, "Prepared", "Frozen") /\ Count("frozen", o)
    /\ UNCHANGED <<prog, now, storeVars, writeVars, phase, mgr, barrier, told, cancelled, cut,
                   torn, budget>>

OwnerMark(o) ==
    /\ phase = "Mark" /\ own[o] = "Frozen"
    /\ st' = [st EXCEPT ![o] = snapshot_mark(st[o], cut.ms)]
    /\ \/ /\ OwnerStep(o, "Frozen", "Marked") /\ Count("marked", o)
          /\ UNCHANGED <<phase, budget>>
       \/ /\ Failed
          /\ UNCHANGED <<own, counted>>
    /\ UNCHANGED <<prog, now, db, pc, task, sent, grp, slipped, scans, writeVars, mgr,
                   barrier, told, cancelled, cut, torn>>

OwnerCapture(o) ==
    /\ phase = "Capture" /\ OwnerStep(o, "Marked", "Capturing")
    /\ UNCHANGED <<prog, now, storeVars, writeVars, phase, mgr, barrier, told, cancelled,
                   counted, cut, torn, budget>>

\* progress_snapshot_capture: post the sealed chunk, else walk on. A blocking SAVE takes
\* the shards one after the other.
Turn(o) == prog.blocking => o = Min(Exec \ ended)
Progress(o) ==
    /\ phase = "Capture" /\ own[o] = "Capturing" /\ Turn(o)
    /\ \/ /\ st[o].ready.on /\ Len(chan[o]) < ChanCap
          /\ chan' = [chan EXCEPT ![o] = Append(@, st[o].ready)]
          /\ IF st[o].ready.last
             THEN /\ st' = [st EXCEPT ![o] = snapshot_handoff_complete(st[o])]
                  /\ OwnerStep(o, "Capturing", "Draining")
             ELSE st' = [st EXCEPT ![o].ready = NoChunk] /\ UNCHANGED own
          /\ UNCHANGED <<phase, budget>>
       \/ /\ ~st[o].ready.on
          /\ st' = [st EXCEPT ![o] = snapshot_progress(st[o])]
          /\ UNCHANGED <<own, chan, phase, budget>>
       \/ /\ st[o].rec.on /\ Failed
          /\ UNCHANGED <<st, own, chan>>
    /\ UNCHANGED <<prog, now, db, pc, task, sent, grp, slipped, scans, mgr, barrier,
                   told, cancelled, counted, cut, torn, inflight, header, ended, final, file,
                   dump>>

Cancel(o) ==
    /\ phase = "Failed" /\ own[o] \notin {"None", "Draining"}
    /\ st' = [st EXCEPT ![o] = snapshot_cancel(st[o])]
    /\ own' = [own EXCEPT ![o] = "Draining"]
    /\ cancelled' = [cancelled EXCEPT ![o] = TRUE]
    /\ UNCHANGED <<prog, now, db, pc, task, sent, grp, slipped, scans, writeVars, phase,
                   mgr, barrier, told, counted, cut, torn, budget>>

\* Mutation: only an owner that finished reports.
DrainedSilently(o) ==
    /\ task[o].op = "none" /\ OwnerStep(o, "Draining", "None")
    /\ IF cancelled[o] THEN UNCHANGED counted ELSE Count("finished", o)
    /\ UNCHANGED <<prog, now, storeVars, writeVars, phase, mgr, barrier, told, cancelled, cut,
                   torn, budget>>

\* Draining: the held-back command has run, and the owner reports.
Drained(o) ==
    /\ task[o].op = "none" /\ OwnerStep(o, "Draining", "None")
    /\ Count(IF cancelled[o] THEN "cancelled" ELSE "finished", o)
    /\ UNCHANGED <<prog, now, storeVars, writeVars, phase, mgr, barrier, told, cancelled, cut,
                   torn, budget>>

---------------------------------------------------------------------------
(* The writer: the start of the file, writer_pass and on_io_complete *)

Writing == mgr = "write" /\ phase \in {"Capture", "Failed"} /\ final = "none"

WriteFrame(o) ==
    /\ Writing /\ phase = "Capture" /\ header /\ inflight < MaxInflight /\ chan[o] # <<>>
    /\ chan' = [chan EXCEPT ![o] = Tail(@)]
    /\ \/ /\ file' = file \o Head(chan[o]).recs
          /\ ended' = IF Head(chan[o]).last THEN ended \cup {o} ELSE ended
          /\ inflight' = inflight + 1
          /\ UNCHANGED <<phase, budget>>
       \/ /\ Failed
          /\ UNCHANGED <<file, ended, inflight>>
    /\ UNCHANGED <<prog, now, storeVars, mgr, barrier, told, own, cancelled, counted, cut,
                   torn, header, final, dump>>

\* A write of the header or of a frame completes; the header is alone in flight.
WriteDone ==
    /\ Writing /\ inflight > 0
    /\ inflight' = inflight - 1
    /\ \/ header' = TRUE /\ UNCHANGED <<phase, budget>>
       \/ Failed /\ UNCHANGED header
    /\ UNCHANGED <<prog, now, storeVars, mgr, barrier, told, own, cancelled, counted, cut,
                   torn, chan, ended, final, file, dump>>

Footer ==
    /\ Writing /\ phase = "Capture" /\ inflight = 0
    /\ ended = Exec /\ counted.finished = Exec
    /\ final' = "footer" /\ inflight' = 1
    /\ UNCHANGED <<prog, now, storeVars, ctlVars, chan, header, ended, file, dump, budget>>

\* Footer, file sync, rename, directory sync: a failure ends the save at once, and one
\* after the rename leaves the new file published.
Published == dump' = [recs |-> file, cut |-> cut]
Over == phase' = "Idle" /\ mgr' = "idle" /\ final' = "none" /\ inflight' = 0
FinalDone ==
    /\ final # "none" /\ inflight = 1
    /\ \/ final = "footer" /\ final' = "sync" /\ UNCHANGED <<phase, mgr, inflight, dump, budget>>
       \/ final = "sync" /\ final' = "dir" /\ Published /\ UNCHANGED <<phase, mgr, inflight, budget>>
       \/ final = "dir" /\ Over /\ UNCHANGED <<dump, budget>>
       \/ Failing /\ Over /\ UNCHANGED dump
       \/ final = "sync" /\ Failing /\ Over /\ Published
    /\ UNCHANGED <<prog, now, storeVars, barrier, told, own, cancelled, counted, cut, torn,
                   chan, header, ended, file>>

\* The Failed branch of writer_pass: discard_chunks, abort_file.
WriterAbort ==
    /\ Writing /\ phase = "Failed" /\ Reported = Exec /\ inflight = 0
    /\ chan' = [o \in Exec |-> <<>>]
    /\ barrier' = FALSE /\ Over
    /\ UNCHANGED <<prog, now, storeVars, told, own, cancelled, counted, cut, torn, header,
                   ended, file, dump, budget>>

---------------------------------------------------------------------------
Served ==
    /\ \A o \in Exec : task[o] = NoOp /\ pc[o] = Len(prog.ops[o]) /\ sent[o] = <<>>
    /\ \A g \in Groups : grp[g].left = {}

\* A start message was refused: start() goes on waiting for an owner that never heard.
Hung == mgr = "wait" /\ phase = "Failed" /\ Exec \ Reported = Untold /\ Untold # {}

Stop ==
    /\ \/ Served /\ mgr = "idle" /\ budget.saves = 0
       \/ Hung
    /\ UNCHANGED vars

Next ==
    \/ Tick
    \/ \E o \in Exec :
          \/ Execute(o) \/ ActiveExpire(o)
          \/ Begin(o) \/ Prepare(o) \/ OwnerFreeze(o) \/ OwnerMark(o) \/ OwnerCapture(o)
          \/ Progress(o) \/ Cancel(o) \/ Drained(o) \/ WriteFrame(o)
    \/ \E g \in Groups : Admit(g) \/ Open(g)
    \/ StartSave \/ Tell \/ Freeze \/ Mark \/ Capture \/ AbortStart
    \/ WriteDone \/ Footer \/ FinalDone \/ WriterAbort
    \/ Stop

Spec == Init /\ [][Next]_vars

---------------------------------------------------------------------------
(* Properties *)

Phases == {"Idle", "Preparing", "Freeze", "Mark", "Capture", "Failed"}
States == {"None", "Preparing", "Prepared", "Frozen", "Marked", "Capturing", "Draining"}

\* The state has its shape; the counters of the manager hold owners; a phase past the
\* barrier is the writer's; the writes in flight stay within kSnapshotMaxInflight.
TypeOK ==
    /\ phase \in Phases /\ mgr \in {"idle", "tell", "wait", "write"}
    /\ barrier \in BOOLEAN /\ header \in BOOLEAN
    /\ own \in [Exec -> States] /\ told \in [Exec -> {"no", "sent", "got"}]
    /\ \A c \in DOMAIN counted : counted[c] \subseteq Exec
    /\ inflight \in 0 .. MaxInflight /\ \A o \in Exec : Len(chan[o]) <= ChanCap
    /\ phase \in {"Idle", "Capture"} => mgr \in {"idle", "write"}
    /\ barrier <=> mgr \in {"tell", "wait"}

\* The published file holds exactly what the replies had promised at the cut and had not
\* elapsed then, each key once: writes, deletions, expiry, eviction, FLUSHALL and resizes
\* during the capture neither reach the file nor drop a record from it (the pre-image
\* gate of snapshot_prepare_write, the marks of the walk, the suspended eviction). And the
\* cut falls inside no cross-shard group: one is applied everywhere or nowhere when the
\* clock is read, except a group admitted before the barrier went up that opens after it,
\* perhaps too late for drain_atomic_groups to see.
FileIsTheCut ==
    /\ torn \subseteq slipped
    /\ dump.cut.on =>
        /\ {dump.recs[i] : i \in DOMAIN dump.recs} =
             UNION {{[k |-> k, v |-> dump.cut.db[o][k].v, d |-> dump.cut.db[o][k].d] :
                       k \in {j \in DOMAIN dump.cut.db[o] :
                                Alive(dump.cut.db[o][j], dump.cut.ms)}} : o \in Exec}
        /\ \A i, j \in DOMAIN dump.recs : dump.recs[i].k = dump.recs[j].k => i = j

\* What a client can look up is what the replies promised, through resizes, captures and
\* merges, lazy and active expiry: a key is in at most one table, with its last value and
\* deadline, and every key that should be there is found.
Answers(o) ==
    \A k \in KeysOf(o) :
        LET f == Found(st[o], k, now)
        IN /\ ~(Has(st[o], 1, k) /\ Has(st[o], 2, k))
           /\ f # {} <=> k \in Present(o)
           /\ \A t \in f : At(st[o], t, k).v = db[o][k].v /\ At(st[o], t, k).d = db[o][k].d

\* Every key that occupies a slot can be reached by its probe, and the counters that decide
\* about growth, shrinking and the capacity gates are exact: live and tombs of both tables,
\* and the index of deadlines that the active expiry samples.
Reachable(o) ==
    \A t \in {1, 2} :
        LET tab == st[o].tab[t]
            held == {i \in DOMAIN tab : tab[i].k # NoKey}
        IN /\ \A i \in held : find_slot_in(tab, tab[i].k) = i
           /\ st[o].live[t] = Cardinality(held)
           /\ st[o].tombs[t] = Cardinality({i \in DOMAIN tab : tab[i] = Dead})
           /\ \A i \in held : tab[i].d >= 0 <=> tab[i].k \in st[o].expires

\* The table of every executor answers what the replies promised, through resizes,
\* captures, merges and expiry, and every key it holds can be reached by its probe.
TableIsTheMap == \A o \in Exec : Answers(o) /\ Reachable(o)

\* A SCAN that went from cursor 0 back to 0 returned every key that was there throughout,
\* whatever resizes happened between its calls (the reverse-binary cursor).
ScanSeesWhatStays == \A o \in Exec : scans[o].missed = {}

\* An abort waits for owners that will report: each one that has not is still to hear of
\* the save or in the middle of it. The exception is a broadcast that was refused.
AbortIsAnswered ==
    mgr \in {"wait", "write"} /\ phase = "Failed" =>
        \A o \in Exec \ Reported :
            \/ told[o] = "sent" \/ own[o] # "None"
            \/ mgr = "wait" /\ told[o] = "no"
=============================================================================
