-------------------------------- MODULE Aof --------------------------------
(***************************************************************************)
(* The append-only file: per-shard producers that stage post-images, the   *)
(* bounded channel of each executor, the one writer thread and its         *)
(* io_uring chains, cross-shard groups closed by a commit record (GCMT),   *)
(* the reply gate of an IO thread, the rewrite that rotates increments     *)
(* under a new base, and recovery after a crash (persist/aof.cc, aof.h,    *)
(* aof_stream_owner.h, and their callers in core/).                        *)
(*                                                                         *)
(* A write is its number: the value of a key is the number of the last     *)
(* write to it (a delete is a write too, its post-image is a tombstone).   *)
(* A frame keeps its shard, its sequence and its records; a file keeps     *)
(* for every frame whether its bytes are in flight, written or synced.     *)
(***************************************************************************)
EXTENDS Integers, Sequences, FiniteSets, SequencesExt

CONSTANTS NumShards,    \* shards, numbered from 1; the control stream is 0
          NumThreads,   \* executors, each one producer of the writer
          Keys,         \* keys of one shard
          ChanCap,      \* entries of one producer's channel
          Workloads     \* how many small, large and group writes, rewrites, moves
                        \* of a shard, draws of the reply gate and crashes happen
                        \* together, with how many write chains in flight, and
                        \* under which appendfsync policies

Shards == 1 .. NumShards
Threads == 1 .. NumThreads
Cells == Shards \X Keys
Control == 0

\* op applied from the first element on.
FoldFrom(op(_, _), base, seq) ==
    LET at[i \in 0 .. Len(seq)] == IF i = 0 THEN base ELSE op(at[i - 1], seq[i])
    IN  at[Len(seq)]

VARIABLES
    policy,    \* appendfsync
    mem,       \* value of every cell
    hist,      \* the writes so far: cells, group ticket, fragments, completion
    prod,      \* AofProducer of every shard
    owner,     \* executor that owns the shard
    chan,      \* chunk_in_ of every executor
    wr,        \* AofManager's writer state
    flight,    \* io_uring requests not yet completed
    disk,      \* manifest, base snapshots and increments
    rw,        \* the rewrite under way
    io,        \* the reply gate of an IO thread
    life,      \* incarnation of the process and how its recovery ended
    left       \* what the workload has left

vars == <<policy, mem, hist, prod, owner, chan, wr, flight, disk, rw, io, life, left>>

----------------------------------------------------------------------------
(* Frames, producers and the manifest *)

Frame(s, kind, recs, w) ==
    [sid |-> s, kind |-> kind, recs |-> recs, w |-> w,
     seq |-> 0, ticket |-> 0, post |-> 0, deps |-> {}, st |-> "flight",
     life |-> life.n]

NewProducer(sequence) ==
    [build |-> <<>>, staged |-> <<>>, ready |-> <<>>, sequence |-> sequence,
     stalled |-> FALSE]

NewWriter(next) ==
    [next |-> next, pend |-> <<>>, large |-> 0, posted |-> 0, submitted |-> 0,
     soo |-> {}, written |-> 0, woo |-> {}, durable |-> 0, doo |-> {},
     failed |-> FALSE]

NoSequence == [s \in Shards |-> 0]
Empty == [c \in Cells |-> 0]

Idle == [phase |-> "idle", frozen |-> {}, img |-> Empty]

Init ==
    /\ \E load \in Workloads : left = load.events /\ policy \in load.policies
    /\ mem = Empty
    /\ hist = <<>>
    /\ prod = [s \in Shards |-> NewProducer(0)]
    /\ owner = [s \in Shards |-> ((s - 1) % NumThreads) + 1]
    /\ chan = [t \in Threads |-> <<>>]
    /\ wr = NewWriter(NoSequence)
    /\ flight = <<>>
    /\ disk = [man |-> [base |-> 0, epoch |-> 0, incrs |-> <<1>>],
               live |-> [base |-> 0, epoch |-> 0, incrs |-> <<1>>],
               bases |-> <<>>,
               incr |-> (1 :> [start |-> NoSequence, frames |-> <<>>])]
    /\ rw = Idle
    /\ io = [gate |-> 0, covered |-> {}, replied |-> {}, promised |-> {}]
    /\ life = [n |-> 1, epoch |-> 0, ticket |-> 0, why |-> "", applied |-> {},
               hot |-> FALSE, lostEpoch |-> FALSE, hole |-> FALSE]

Up == life.why = ""
\* The events that come from outside; a workload bounds each kind.
Event(kind) == left[kind] > 0 /\ left' = [left EXCEPT ![kind] = @ - 1]
Recording == ~wr.failed
IsGroup(w) == hist[w].group
Parts(w) == {c[1] : c \in hist[w].cells}
\* A group of this life whose decision is still open: it reserves its keys.
Open(w) == IsGroup(w) /\ hist[w].life = life.n /\ hist[w].ticket = 0
OpenGroups == {w \in DOMAIN hist : Open(w)}
Reserved(c) == \E w \in OpenGroups : c \in hist[w].cells
\* An owner that runs operations: not frozen by a snapshot and not waiting in
\* seal() for the writer to take the frames of a large record.
Runs(s) == Up /\ s \notin rw.frozen /\ ~prod[s].stalled

----------------------------------------------------------------------------
(* AofProducer *)

make_ready(p, f) ==
    [p EXCEPT !.ready = Append(@, [f EXCEPT !.seq = p.sequence]),
              !.sequence = @ + 1]

\* A sealed frame goes behind the groups still waiting for their decision.
Sealed(p, f) ==
    IF p.staged = <<>> THEN make_ready(p, f)
    ELSE [p EXCEPT !.staged = Append(@, f)]

seal(p, s) ==
    IF p.build = <<>> THEN p
    ELSE Sealed([p EXCEPT !.build = <<>>], Frame(s, "data", p.build, 0))

\* Groups leave in staging order: an aborted one is dropped, an undecided one
\* stops the scan, a committed one gets its ticket.
resolve_item(p, f) ==
    IF p.staged # <<>> THEN [p EXCEPT !.staged = Append(@, f)]
    ELSE IF f.kind # "frag" THEN make_ready(p, f)
    ELSE IF hist[f.w].ticket = -1 THEN p
    ELSE IF hist[f.w].ticket = 0 THEN [p EXCEPT !.staged = <<f>>]
    ELSE make_ready(p, [f EXCEPT !.ticket = hist[f.w].ticket])

resolve_groups(p) == FoldFrom(resolve_item, [p EXCEPT !.staged = <<>>], p.staged)

\* post_sequence is drawn before the push is tried, so the frame that finds the
\* channel full has one already.
Numbered(fs, from, n) ==
    LET fresh(i) == Cardinality({j \in 1 .. i : fs[j].post = 0})
    IN  [i \in DOMAIN fs |->
            IF i <= n /\ fs[i].post = 0 THEN [fs[i] EXCEPT !.post = from + fresh(i)]
            ELSE fs[i]]

Room(t) == ChanCap - Len(chan[t])

\* AofProducer::flush: seal, resolve, and post until the channel is full. A
\* producer stalled on a large record runs on once everything is posted.
Flushed(s, p) ==
    LET t == owner[s]
        q == resolve_groups(p)
        room == Room(t)
        n == IF Len(q.ready) < room THEN Len(q.ready) ELSE room
        tried == IF n < Len(q.ready) THEN n + 1 ELSE n
        fs == Numbered(q.ready, wr.posted, tried)
        drawn == Cardinality({i \in 1 .. tried : q.ready[i].post = 0})
        ended == {fs[i].w : i \in {j \in 1 .. n : fs[j].kind = "end"}}
    IN  /\ chan' = [chan EXCEPT ![t] = @ \o SubSeq(fs, 1, n)]
        /\ wr' = [wr EXCEPT !.posted = @ + drawn]
        /\ prod' = [prod EXCEPT ![s] =
                        [q EXCEPT !.ready = SubSeq(fs, n + 1, Len(fs)),
                                  !.stalled = @ /\ n < Len(fs)]]
        /\ hist' = [w \in DOMAIN hist |->
                        [hist[w] EXCEPT !.done = @ \/ w \in ended]]

NewWrite(cells, group, done) ==
    [cells |-> cells, group |-> group, ticket |-> 0,
     emitted |-> {}, seen |-> {}, life |-> life.n, done |-> done]

\* A client may write this key here: the owner runs, the log records, and no
\* undecided group has reserved the key.
CanWrite(s, k) == Runs(s) /\ Recording /\ ~Reserved(<<s, k>>)

\* aof_record_local_op: the post-image of a key joins the frame being built. The
\* operation is complete at once, before aof_flush_pass posts that frame.
record_post_image(s, k) ==
    /\ CanWrite(s, k) /\ Event("small")
    /\ LET w == Len(hist) + 1
       IN  /\ mem' = [mem EXCEPT ![<<s, k>>] = w]
           /\ hist' = Append(hist, NewWrite({<<s, k>>}, FALSE, TRUE))
           /\ prod' = [prod EXCEPT ![s].build = Append(@, <<k, w>>)]
    /\ UNCHANGED <<policy, owner, chan, wr, flight, disk, rw, io, life>>

\* A record larger than a chunk: the open frame is sealed, then the record's
\* first and last frames follow. With no group staged before it the owner waits
\* in seal() until they are posted, and completes the operation only then.
record_large(s, k) ==
    /\ CanWrite(s, k) /\ Event("large")
    /\ LET w == Len(hist) + 1
           p == seal(prod[s], s)
           b == Sealed(p, Frame(s, "begin", <<>>, w))
           e == Sealed(b, Frame(s, "end", <<<<k, w>>>>, w))
           waits == p.staged = <<>>
       IN  /\ mem' = [mem EXCEPT ![<<s, k>>] = w]
           /\ hist' = Append(hist, NewWrite({<<s, k>>}, FALSE, ~waits))
           /\ prod' = [prod EXCEPT ![s] = [e EXCEPT !.stalled = waits]]
    /\ UNCHANGED <<policy, owner, chan, wr, flight, disk, rw, io, life>>

aof_flush_pass(s) ==
    /\ Up /\ Recording /\ s \notin rw.frozen
    /\ LET p == seal(prod[s], s)
       IN  p.staged # <<>> \/ p.ready # <<>>
    /\ Flushed(s, seal(prod[s], s))
    /\ UNCHANGED <<policy, mem, owner, flight, disk, rw, io, life, left>>

----------------------------------------------------------------------------
(* Groups: one decision for the fragments of several shards *)

\* aof_create_group for an admitted multi-shard write; the snapshot barrier
\* admits none between Preparing and Capture.
aof_create_group(cells) ==
    /\ Up /\ Recording
    /\ Event("group")
    /\ rw.phase # "freeze"
    /\ \A c \in cells : ~Reserved(c)
    /\ hist' = Append(hist, NewWrite(cells, TRUE, FALSE))
    /\ UNCHANGED <<policy, mem, prod, owner, chan, wr, flight, disk, rw, io, life>>

\* begin_group .. finish_group: an owner stages its fragment behind its own
\* earlier records and ahead of its later ones.
stage_fragment(w, s) ==
    /\ Runs(s) /\ Recording
    /\ Open(w) /\ s \in Parts(w) \ hist[w].emitted
    /\ LET p == seal(prod[s], s)
           keys == SetToSeq({c[2] : c \in {d \in hist[w].cells : d[1] = s}})
           f == Frame(s, "frag", [i \in DOMAIN keys |-> <<keys[i], w>>], w)
       IN  prod' = [prod EXCEPT ![s] = [p EXCEPT !.staged = Append(@, f)]]
    /\ hist' = [hist EXCEPT ![w].emitted = @ \cup {s}]
    /\ UNCHANGED <<policy, mem, owner, chan, wr, flight, disk, rw, io, life, left>>

\* The last owner to join decides. aof_commit_group publishes the ticket and
\* posts the commit record through that owner's channel.
aof_commit_group(w, s) ==
    /\ Runs(s) /\ Recording
    /\ Open(w) /\ hist[w].emitted = Parts(w) /\ s \in Parts(w)
    /\ Room(owner[s]) > 0
    /\ LET gcmt == [Frame(Control, "gcmt", <<>>, w) EXCEPT !.post = wr.posted + 1]
       IN  chan' = [chan EXCEPT ![owner[s]] = Append(@, gcmt)]
    /\ wr' = [wr EXCEPT !.posted = @ + 1]
    /\ life' = [life EXCEPT !.ticket = @ + 1]
    /\ hist' = [hist EXCEPT ![w].ticket = life.ticket + 1, ![w].done = TRUE]
    /\ mem' = [c \in Cells |-> IF c \in hist[w].cells THEN w ELSE mem[c]]
    /\ UNCHANGED <<policy, prod, owner, flight, disk, rw, io, left>>

\* A failed WATCH, or a failed stage, decides the group the other way.
aof_abort_group(w) ==
    /\ Up /\ Open(w) /\ hist[w].emitted = Parts(w)
    /\ hist' = [hist EXCEPT ![w].ticket = -1, ![w].done = TRUE]
    /\ UNCHANGED <<policy, mem, prod, owner, chan, wr, flight, disk, rw, io, life, left>>

----------------------------------------------------------------------------
(* The writer *)

Active == Last(disk.live.incrs)
File == disk.incr[Active].frames

SomeDependencyReady(w) == hist[w].seen # {}

group_dependencies_ready(w) == hist[w].seen = Parts(w)
\* The commit record names, for every participant, the sequence of its fragment.
prepare_group_commit(f) ==
    [f EXCEPT !.ticket = hist[f.w].ticket,
              !.deps = {<<d.sid, d.seq>> :
                          d \in {File[i] : i \in {j \in DOMAIN File :
                                    File[j].kind = "frag" /\ File[j].w = f.w}}}]

\* Commit records whose fragments are all written join the batch; the others stay.
drain_pending_commits(b) ==
    LET go == SelectSeq(b.pend, LAMBDA f : group_dependencies_ready(f.w))
    IN  [b EXCEPT !.pend = SelectSeq(@, LAMBDA f : ~group_dependencies_ready(f.w)),
                  !.out = @ \o [i \in DOMAIN go |-> prepare_group_commit(go[i])]]

\* One chunk of producer t. A large record holds the stream for its producer.
drain_chunk(b, t, f) ==
    LET ordered == f.seq = b.next[f.sid]
        valid == IF b.large = 0 THEN f.kind # "end"
                 ELSE b.large = t /\ f.kind # "begin"
    IN  IF b.failed THEN b
        ELSE IF f.kind = "gcmt" THEN [b EXCEPT !.pend = Append(@, f)]
        ELSE IF ~valid \/ ~ordered THEN [b EXCEPT !.failed = TRUE]
        ELSE [b EXCEPT !.next[f.sid] = @ + 1,
                       !.out = Append(@, f),
                       !.large = IF f.kind = "begin" THEN t
                                 ELSE IF f.kind = "end" THEN 0 ELSE @]

drain_producer(b, t) ==
    FoldFrom(LAMBDA acc, f : drain_chunk(acc, t, f),
             [b EXCEPT !.took = @ \cup {t}], chan[t])

\* The producers in the order of their notify bits; one that opens a large record
\* keeps the others waiting.
DrainAll(b) ==
    FoldFrom(LAMBDA acc, t : IF acc.large \in {0, t} THEN drain_producer(acc, t) ELSE acc,
             b, [t \in Threads |-> t])

MarkHighest(front, ahead, posts) ==
    [front |-> CHOOSE q \in posts \cup {front} : \A p \in posts : p <= q, ahead |-> {}]

\* mark_post_written, _submitted, _durable: the frontier passes every number that
\* is done, and remembers those done ahead of it.
Mark(front, ahead, posts) ==
    LET all == ahead \cup {p \in posts : p > front}
        new == CHOOSE q \in front .. wr.posted :
                  (front + 1) .. q \subseteq all /\ q + 1 \notin all
    IN  [front |-> new, ahead |-> {p \in all : p > new}]

PostsOf(fs) == {f.post : f \in Range(fs)}
Written(fs) == {i \in DOMAIN fs : fs[i].st \in {"written", "synced"}}

\* maybe_sync: under always every batch carries a linked data-sync; under everysec
\* one is issued when the second has passed, linked to the batch if there is one.
Request(b, lo, tick, submitted) ==
    IF b.out # <<>>
    THEN <<[file |-> Active, lo |-> lo + 1, hi |-> lo + Len(b.out), phase |-> "write",
            posts |-> PostsOf(b.out), sync |-> policy = "always" \/ tick,
            target |-> submitted, cover |-> {}]>>
    ELSE IF tick /\ wr.written > wr.durable
    THEN <<[file |-> Active, lo |-> 1, hi |-> 0, phase |-> "sync", posts |-> {},
            sync |-> TRUE, target |-> wr.written, cover |-> Written(File)]>>
    ELSE <<>>

\* writer_pass: what the channels hold, and the commit records that became ready,
\* in one write. A pass that finds the second over waits for the requests in
\* flight first.
writer_pass(tick) ==
    /\ Up /\ Recording
    /\ Len(flight) < left.chains
    /\ tick => policy = "everysec" /\ flight = <<>>
    /\ LET b0 == [pend |-> wr.pend, large |-> wr.large, next |-> wr.next,
                  failed |-> FALSE, out |-> <<>>, took |-> {}]
           held == wr.large # 0
           b1 == DrainAll(IF held THEN b0 ELSE drain_pending_commits(b0))
           b == IF held \/ b1.large # 0 THEN b1 ELSE drain_pending_commits(b1)
           sub == Mark(wr.submitted, wr.soo, PostsOf(b.out))
           req == Request(b, Len(File), tick, sub.front)
       IN  /\ req # <<>> \/ \E t \in b.took : chan[t] # <<>>
           /\ chan' = [t \in Threads |-> IF t \in b.took THEN <<>> ELSE chan[t]]
           /\ flight' = flight \o req
           /\ disk' = [disk EXCEPT !.incr[Active].frames = @ \o b.out]
           /\ wr' = [wr EXCEPT !.pend = b.pend, !.large = b.large, !.next = b.next,
                               !.failed = b.failed, !.submitted = sub.front,
                               !.soo = sub.ahead]
    /\ UNCHANGED <<policy, mem, hist, prod, owner, rw, io, life, left>>

Without(i) == SubSeq(flight, 1, i - 1) \o SubSeq(flight, i + 1, Len(flight))

\* on_io_complete for a write: its frames are in the page cache, its fragments
\* count for their groups, and a linked data-sync starts.
write_complete(i) ==
    /\ Up /\ flight[i].phase = "write"
    /\ LET r == flight[i]
           fs == [j \in DOMAIN File |->
                    IF j \in r.lo .. r.hi THEN [File[j] EXCEPT !.st = "written"] ELSE File[j]]
           got(w) == {fs[j].sid : j \in {h \in r.lo .. r.hi : fs[h].kind = "frag" /\ fs[h].w = w}}
           mark == Mark(wr.written, wr.woo, r.posts)
       IN  /\ disk' = [disk EXCEPT !.incr[Active].frames = fs]
           /\ hist' = [w \in DOMAIN hist |-> [hist[w] EXCEPT !.seen = @ \cup got(w)]]
           /\ wr' = [wr EXCEPT !.written = mark.front, !.woo = mark.ahead]
           /\ flight' = IF r.sync
                        THEN [flight EXCEPT ![i].phase = "sync", ![i].cover = Written(fs)]
                        ELSE Without(i)
    /\ UNCHANGED <<policy, mem, prod, owner, chan, rw, io, life, left>>

\* on_io_complete for a data-sync: what was written when it started is durable.
\* A batch's own sync advances the durable frontier by the batch, a timed one to
\* its target if all of it is written.
sync_complete(i) ==
    /\ Up /\ flight[i].phase = "sync"
    /\ LET r == flight[i]
           mark == IF policy = "always" THEN Mark(wr.durable, wr.doo, r.posts)
                   ELSE IF wr.written >= r.target /\ r.target > wr.durable
                   THEN [front |-> r.target, ahead |-> {}]
                   ELSE [front |-> wr.durable, ahead |-> wr.doo]
       IN  /\ disk' = IF r.file \notin DOMAIN disk.incr THEN disk
                      ELSE [disk EXCEPT !.incr[r.file].frames =
                              [j \in DOMAIN @ |-> IF j \in r.cover THEN [@[j] EXCEPT !.st = "synced"]
                                                  ELSE @[j]]]
           /\ wr' = [wr EXCEPT !.durable = mark.front, !.doo = mark.ahead]
    /\ flight' = Without(i)
    /\ UNCHANGED <<policy, mem, hist, prod, owner, chan, rw, io, life, left>>

----------------------------------------------------------------------------
(* The reply gate of an IO thread *)

Pending == {w \in DOMAIN hist : hist[w].done /\ hist[w].life = life.n} \ io.replied

GateOnWritten(target) == ~Recording \/ target <= wr.written

reply_gate_ready(target) ==
    ~Recording \/ target = 0 \/
    target <= (IF policy = "always" THEN wr.durable ELSE wr.written)

\* Every record of the write has left its producer (a commit record is posted by
\* the decision itself).
Posted(w) ==
    \A s \in Shards :
        /\ \A r \in Range(prod[s].build) : r[2] # w
        /\ \A f \in Range(prod[s].staged) \cup Range(prod[s].ready) :
              \A r \in Range(f.recs) : r[2] # w

\* wb_gather: the target is drawn at the first refused visit and kept; once it is
\* reached everything complete by then is sent. `covered` remembers the writes
\* that were complete and posted when the target was drawn.
wb_gather ==
    /\ Up /\ Pending # {}
    /\ LET fresh == io.gate = 0
           target == IF fresh THEN wr.posted ELSE io.gate
           cov == IF fresh THEN {w \in Pending : Posted(w) /\ hist[w].ticket >= 0}
                  ELSE io.covered
       IN  /\ IF fresh THEN Event("draw") ELSE UNCHANGED left
           /\ io' = IF reply_gate_ready(target)
                    THEN [gate |-> 0, covered |-> {}, replied |-> io.replied \cup Pending,
                          promised |-> io.promised \cup IF Recording THEN cov ELSE {}]
                    ELSE [io EXCEPT !.gate = target, !.covered = cov]
    /\ UNCHANGED <<policy, mem, hist, prod, owner, chan, wr, flight, disk, rw, life>>

----------------------------------------------------------------------------
(* Rewrite: a snapshot becomes the new base *)

maybe_start_rewrite ==
    /\ Up /\ Recording /\ rw.phase = "idle"
    /\ Event("rewrite")
    /\ OpenGroups = {}
    /\ rw' = [Idle EXCEPT !.phase = "freeze"]
    /\ life' = [life EXCEPT !.epoch = @ + 1]
    /\ UNCHANGED <<policy, mem, hist, prod, owner, chan, wr, flight, disk, io>>

\* Prepared -> Frozen: publish the owner's buffers, whether or not they all fit.
owner_freeze(s) ==
    /\ Up /\ rw.phase = "freeze" /\ s \notin rw.frozen /\ ~prod[s].stalled
    /\ Flushed(s, seal(prod[s], s))
    /\ rw' = [rw EXCEPT !.frozen = @ \cup {s}]
    /\ UNCHANGED <<policy, mem, owner, flight, disk, io, life, left>>

WriterDrained ==
    /\ \A t \in Threads : chan[t] = <<>>
    /\ \A i \in DOMAIN flight : flight[i].phase # "write"
    /\ wr.pend = <<>> /\ wr.large = 0

AllSynced(fs) == [j \in DOMAIN fs |-> [fs[j] EXCEPT !.st = "synced"]]

\* rewrite_mark: with every owner frozen and the writer drained, sync the old
\* increment, name a new one in the manifest beside the old base, switch to it.
rewrite_mark ==
    /\ Up /\ Recording /\ rw.phase = "freeze" /\ rw.frozen = Shards
    /\ WriterDrained
    /\ LET new == Active + 1
           man == [disk.live EXCEPT !.incrs = Append(@, new)]
       IN  disk' = [disk EXCEPT
                      !.man = man,
                      !.live = [man EXCEPT !.epoch = life.epoch],
                      !.incr = (new :> [start |-> wr.next, frames |-> <<>>]) @@
                               [@ EXCEPT ![Active].frames = AllSynced(@)]]
    /\ wr' = [wr EXCEPT !.durable = wr.written]
    /\ rw' = [phase |-> "capture", frozen |-> {}, img |-> mem]
    /\ life' = [life EXCEPT !.lostEpoch = @ \/ (disk.live.base # 0 /\
                    disk.live.epoch # disk.man.epoch)]
    /\ UNCHANGED <<policy, mem, hist, prod, owner, chan, flight, io, left>>

\* A rewrite that deletes what it replaces before the manifest stops naming it.
RewriteUnlinksFirst ==
    /\ Up /\ Recording /\ rw.phase = "capture"
    /\ disk' = [disk EXCEPT !.incr = (Active :> @[Active])]
    /\ UNCHANGED <<policy, mem, hist, prod, owner, chan, wr, flight, rw, io, life, left>>

\* rewrite_complete, first half: the base file is in place, the manifest now
\* names it and the active increment alone.
rewrite_manifest ==
    /\ Up /\ Recording /\ rw.phase = "capture"
    /\ LET man == [base |-> Active, epoch |-> disk.live.epoch, incrs |-> <<Active>>]
       IN  disk' = [disk EXCEPT !.man = man, !.live = man,
                      !.bases = (Active :> [epoch |-> disk.live.epoch, img |-> rw.img]) @@ @]
    /\ rw' = [rw EXCEPT !.phase = "unlink"]
    /\ UNCHANGED <<policy, mem, hist, prod, owner, chan, wr, flight, io, life, left>>

Named == Range(disk.man.incrs)

\* rewrite_complete, second half: the history files go.
rewrite_unlink ==
    /\ Up /\ rw.phase = "unlink"
    /\ disk' = [disk EXCEPT !.incr = [i \in Named |-> @[i]],
                            !.bases = [i \in {disk.man.base} |-> @[i]]]
    /\ rw' = Idle
    /\ UNCHANGED <<policy, mem, hist, prod, owner, chan, wr, flight, io, life, left>>

\* rewrite_abort: the mark timed out, or the capture failed.
rewrite_abort ==
    /\ Up /\ rw.phase \in {"freeze", "capture"}
    /\ rw' = Idle
    /\ UNCHANGED <<policy, mem, hist, prod, owner, chan, wr, flight, disk, io, life, left>>

----------------------------------------------------------------------------
(* A shard changes owner *)

\* flip_quiesced asks only the producer: frames already posted stay behind in the
\* old owner's channel. `hot` remembers such a move.
move_shard(s, t) ==
    /\ Up /\ owner[s] # t /\ Event("move")
    /\ rw.phase = "idle" /\ OpenGroups = {}
    /\ prod[s].build = <<>> /\ prod[s].staged = <<>> /\ prod[s].ready = <<>>
    /\ owner' = [owner EXCEPT ![s] = t]
    /\ life' = [life EXCEPT !.hot = @ \/ \E f \in Range(chan[owner[s]]) : f.sid = s]
    /\ UNCHANGED <<policy, mem, hist, prod, chan, wr, flight, disk, rw, io>>

----------------------------------------------------------------------------
(* Recovery *)

\* A record whose last frame is missing is cut off with everything after its
\* first frame.
Whole(fs) ==
    LET open == {i \in DOMAIN fs : fs[i].kind = "begin" /\
                    ~\E j \in DOMAIN fs : j > i /\ fs[j].kind = "end"}
    IN  IF open = {} THEN fs ELSE SubSeq(fs, 1, (CHOOSE i \in open : TRUE) - 1)

OfShard(fs, s) == {i \in DOMAIN fs : fs[i].sid = s}
NextSequence(incr) ==
    [s \in Shards |-> incr.start[s] + Cardinality(OfShard(Whole(incr.frames), s))]
Commits(fs) == {i \in DOMAIN fs : fs[i].kind = "gcmt"}
Committed(fs) == {fs[i].ticket : i \in Commits(fs)}

\* The stream of every shard is numbered without a gap from the increment's start.
InSequence(incr) ==
    \A i \in DOMAIN incr.frames :
        LET f == incr.frames[i]
        IN  f.sid # Control =>
              f.seq = incr.start[f.sid] +
                      Cardinality({j \in OfShard(incr.frames, f.sid) : j < i})

\* Between the first and the last frame of a large record only its shard writes.
Interleaved(fs) ==
    \E i, j \in DOMAIN fs :
        /\ i < j /\ fs[i].kind = "begin" /\ fs[j].sid # fs[i].sid
        /\ ~\E h \in i .. j : fs[h].kind = "end"

\* aof_read_plan: why an increment is refused, "" when it is not.
PlanError(incr, last, hole) ==
    LET fs == Whole(incr.frames)
    IN  IF hole THEN "header"
        ELSE IF ~InSequence(incr) THEN "sequence"
        ELSE IF Interleaved(incr.frames) THEN "interleave"
        ELSE IF fs # incr.frames /\ ~last THEN "truncated"
        ELSE IF \E i \in Commits(fs) : \E d \in fs[i].deps :
                    d[2] >= NextSequence(incr)[d[1]] THEN "fragment"
        ELSE IF Cardinality(Committed(fs)) # Cardinality(Commits(fs)) THEN "ticket"
        ELSE ""

\* aof_read_recovery: the base must be the one the manifest describes, every
\* increment it names must be there; only the last may have a torn tail.
RecoveryError(d, hole) ==
    LET man == d.man
        error(i) == IF man.incrs[i] \notin DOMAIN d.incr THEN "missing"
                    ELSE PlanError(d.incr[man.incrs[i]], i = Len(man.incrs),
                                   hole /\ i = Len(man.incrs))
        bad == {i \in DOMAIN man.incrs : error(i) # ""}
    IN  IF man.base # 0 /\ man.base \notin DOMAIN d.bases THEN "missing"
        ELSE IF man.base # 0 /\ d.bases[man.base].epoch # man.epoch THEN "epoch"
        ELSE IF bad # {} THEN error(CHOOSE i \in bad : \A j \in bad : i <= j)
        ELSE ""

\* aof_load_shard over the increments: the fragments of a group count when the
\* same increment holds its commit record.
Applies(f, fs) == f.kind # "frag" \/ f.ticket \in Committed(fs)

Replayed(fs) == SelectSeq(Whole(fs), LAMBDA f : Applies(f, Whole(fs)))

Replay(d) ==
    LET log == FlattenSeq([i \in DOMAIN d.man.incrs |->
                              Replayed(d.incr[d.man.incrs[i]].frames)])
        base == IF d.man.base = 0 THEN Empty ELSE d.bases[d.man.base].img
        put(img, f) == FoldFrom(LAMBDA m, r : [m EXCEPT ![<<f.sid, r[1]>>] = r[2]],
                                img, f.recs)
    IN  [img |-> FoldFrom(put, base, log),
         applied |-> {<<f.sid, f.w>> : f \in {g \in Range(log) : g.kind = "frag"}}]

\* What a crash leaves of the active increment: everything synced; after a crash
\* of the process alone everything written; of the unsynced rest of the page
\* cache a prefix; of each write in flight a prefix.
Survivors(machine) ==
    {k \in SUBSET DOMAIN File :
        /\ \A i \in DOMAIN File : File[i].st = "synced" => i \in k
        /\ \A i \in DOMAIN File : File[i].st = "written" /\ ~machine => i \in k
        /\ \A i, j \in DOMAIN File :
              j < i /\ i \in k /\ File[i].st = "written" /\ File[j].st = "written" => j \in k
        /\ \A r \in Range(flight) : r.phase = "write" =>
              \A i, j \in r.lo .. r.hi : j < i /\ i \in k => j \in k}

HighestOf(k) == IF k = {} THEN 0 ELSE CHOOSE i \in k : \A j \in k : j <= i

\* A crash and the next start: main() reads the manifest, the base and the
\* increments, replays them, and the writer appends to the last increment. The
\* commit tickets and the snapshot epochs start again from zero.
crash_and_recover(machine, kept) ==
    /\ Up /\ left.crash > 0
    /\ left' = [left EXCEPT !.crash = @ - 1, !.group = @ + left.again, !.again = 0]
    /\ LET hole == kept # 1 .. HighestOf(kept)
           torn == [i \in 1 .. HighestOf(kept) |->
                      [File[i] EXCEPT !.st = IF machine THEN "synced"
                                             ELSE IF @ = "flight" THEN "written" ELSE @]]
           d == [disk EXCEPT !.incr[Active].frames = torn]
           why == RecoveryError(d, hole)
           back == Replay(d)
           next == NextSequence(d.incr[Last(d.man.incrs)])
       IN  /\ life' = [life EXCEPT !.n = @ + 1, !.why = why,
                          !.ticket = 0, !.epoch = 0, !.hole = hole,
                          !.applied = IF why = "" THEN back.applied ELSE {}]
           /\ IF why # "" THEN UNCHANGED <<mem, prod, wr, disk>>
              ELSE /\ mem' = back.img
                   /\ prod' = [s \in Shards |-> NewProducer(next[s])]
                   /\ wr' = NewWriter(next)
                   /\ disk' = [d EXCEPT !.live = d.man,
                                 !.incr = [i \in Named |->
                                    IF i = Active THEN [@[i] EXCEPT !.frames = Whole(@)] ELSE @[i]],
                                 !.bases = [i \in {d.man.base} \cap DOMAIN @ |-> @[i]]]
    /\ chan' = [t \in Threads |-> <<>>]
    /\ flight' = <<>>
    /\ rw' = Idle
    /\ io' = [io EXCEPT !.gate = 0, !.covered = {},
                        !.promised = IF machine /\ policy # "always" THEN {} ELSE @]
    /\ UNCHANGED <<policy, hist, owner>>

----------------------------------------------------------------------------

GroupCells == {{<<s, k>> : s \in Shards} : k \in Keys}

Next ==
    \/ \E s \in Shards, k \in Keys : record_post_image(s, k) \/ record_large(s, k)
    \/ \E s \in Shards : aof_flush_pass(s) \/ owner_freeze(s)
    \/ \E cells \in GroupCells : aof_create_group(cells)
    \/ \E w \in DOMAIN hist :
          \/ aof_abort_group(w)
          \/ \E s \in Shards : stage_fragment(w, s) \/ aof_commit_group(w, s)
    \/ \E tick \in BOOLEAN : writer_pass(tick)
    \/ \E i \in DOMAIN flight : write_complete(i) \/ sync_complete(i)
    \/ wb_gather
    \/ maybe_start_rewrite \/ rewrite_mark \/ rewrite_manifest \/ rewrite_unlink
    \/ rewrite_abort
    \/ \E s \in Shards, t \in Threads : move_shard(s, t)
    \/ \E machine \in BOOLEAN : \E kept \in Survivors(machine) :
          crash_and_recover(machine, kept)

Spec == Init /\ [][Next]_vars

----------------------------------------------------------------------------
(* Properties *)

Kinds == {"data", "begin", "end", "frag", "gcmt"}
FrameOK(f) ==
    /\ f.sid \in Shards \cup {Control} /\ f.kind \in Kinds
    /\ f.st \in {"flight", "written", "synced"}
    /\ f.post \in 0 .. wr.posted \/ f \in Range(File)

\* The shapes of the state: producers, channels, the writer's frontiers in order,
\* the files the manifest names.
TypeOK ==
    /\ policy \in {"always", "everysec"}
    /\ mem \in [Cells -> 0 .. Len(hist)]
    /\ owner \in [Shards -> Threads]
    /\ \A t \in Threads : Len(chan[t]) <= ChanCap /\ \A f \in Range(chan[t]) : FrameOK(f)
    /\ \A s \in Shards : \A f \in Range(prod[s].staged \o prod[s].ready) : FrameOK(f)
    /\ wr.large \in Threads \cup {0} /\ wr.failed \in BOOLEAN
    /\ wr.durable <= wr.posted /\ wr.written <= wr.submitted /\ wr.submitted <= wr.posted
    /\ rw.phase \in {"idle", "freeze", "capture", "unlink"} /\ rw.frozen \subseteq Shards
    /\ io.replied \subseteq DOMAIN hist /\ io.promised \subseteq io.replied

\* Every chunk the durable frontier has passed is synced, although write chains
\* complete out of order and a rewrite moves the frontier at the rotation
\* (mark_post_durable, on_io_complete, rewrite_mark): what the reply gate of
\* appendfsync always relies on.
FrontierIsDurable ==
    Up => \A i \in DOMAIN disk.incr : \A f \in Range(disk.incr[i].frames) :
              f.life = life.n /\ f.post <= wr.durable => f.st = "synced"

\* A write whose record was posted when the reply gate drew its target, and whose
\* reply then left, is in the state every later recovery restores: under always
\* after any crash, under everysec after a crash of the process, across rotations,
\* rewrites that complete, fail or are cut short, and further restarts.
PromisedWritesSurvive ==
    Up => \A w \in io.promised : \A c \in hist[w].cells : mem[c] >= w

\* Two lives of the server that number their commits alike.
TicketReused(w) ==
    \E v \in DOMAIN hist : IsGroup(v) /\ hist[v].life # hist[w].life /\
        hist[v].ticket > 0 /\ hist[v].ticket = hist[w].ticket

\* Recovery applies the fragments of a group on all of its shards or on none, and
\* only if the group had committed, wherever the crash fell between the fragments,
\* the commit record and a rotation. The exception: a commit record of a later
\* life that repeats the group's ticket, because tickets restart at every start.
GroupsAreAllOrNothing ==
    \A w \in DOMAIN hist :
        LET at == {p[1] : p \in {q \in life.applied : q[2] = w}}
        IN  IsGroup(w) /\ ~TicketReused(w) =>
                at = {} \/ (at = Parts(w) /\ hist[w].ticket > 0)

\* The writer stops recording for a frame out of order only if a shard changed
\* owner while frames of it were still in the old owner's channel. And recovery
\* refuses the log only for: a hole left by write chains that completed
\* out of order, a ticket used in two lives, or a base whose epoch an aborted
\* rewrite overwrote. Never for a gap in a stream, an interleaved or unfinished
\* large record, a commit record without its fragments or a missing file.
FailuresAreExplained ==
    /\ wr.failed => life.hot
    /\ \/ life.why = ""
       \/ life.why = "header" /\ life.hole
       \/ life.why = "ticket" /\ \E w \in DOMAIN hist : IsGroup(w) /\ TicketReused(w)
       \/ life.why = "epoch" /\ life.lostEpoch

=============================================================================
