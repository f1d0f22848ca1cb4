----------------------------- MODULE AtomicMvcc -----------------------------
(***************************************************************************)
(* Cross-shard atomicity: groups that install on every owner under one     *)
(* undecided epoch word, the commit ticket and the read watermark that     *)
(* publish them, the read cuts that IO threads register as reclamation     *)
(* floors, plain commands that meet the versions of a group, and the       *)
(* collapse that folds decided versions back into the table                *)
(* (store/flatstore_atomic.inc, cmd/atomics_glue.inc,                      *)
(* cmd/scatter_engine.inc, cmd/multi.inc, core/server.h), and the WATCH    *)
(* that EXEC validates on every owner before it runs on any.               *)
(*                                                                         *)
(* A unit is one command or one EXEC of a connection. A version of a key   *)
(* is the unit that wrote it and the set of units whose updates it holds.  *)
(* Every connection has an IO thread of its own and every shard an         *)
(* executor of its own.                                                    *)
(***************************************************************************)
EXTENDS Integers, Sequences, FiniteSets, FiniteSetsExt, SequencesExt, Watch

CONSTANTS Conns,      \* sequence of connections, in the order their IO threads are scanned
          Keys,
          Home,       \* shard of every key
          Programs    \* what the connections send, and which keys are absent at first

Shards == {Home[k] : k \in Keys}
ConnSet == {Conns[i] : i \in DOMAIN Conns}

VARIABLES
    prog,      \* the program that runs
    sent,      \* units dispatched, per connection
    retired,   \* units retired, per connection
    io,        \* where the IO thread is in register_snapshot
    pass,      \* pass_read_cut of the current parse pass
    pub,       \* atomic_read_floors_
    unit,      \* per dispatched unit: its cut, flags, results and decision
    lane,      \* fragments waiting at a shard, in order of arrival
    parked,    \* of those, the ones in atomic_deferred_ or multi_retries_
    retry,     \* the one in xshard_retries_, which holds back the rest of the lane
    chain,     \* the pending entries of a shard, oldest first
    phys,      \* the hash tables
    job,       \* what an executor is doing
    batch,     \* xshard_commit_batch of an executor
    seq,       \* commit_seq_
    inflight,  \* atomic_commit_inflight_
    safe,      \* atomic_commit_safe_
    reg,       \* watchers_ and watch_reservations_, per key
    sess,      \* per connection: watch_generation_, watch_dirty_ and the keys watched
    overtaken  \* history: the last publisher stored a sequence drawn before a later commit

ioVars == <<sent, retired, io, pass, pub>>
queueVars == <<lane, parked, retry>>
storeVars == <<chain, phys>>
execVars == <<job, batch>>
ticketVars == <<seq, inflight, safe, overtaken>>
watchVars == <<reg, sess>>
vars == <<prog, ioVars, unit, queueVars, storeVars, execVars, ticketVars, watchVars>>

----------------------------------------------------------------------------
(* Units and versions *)

Max64 == 1000                                  \* UINT64_MAX
NoUnit == <<>>
Units == DOMAIN unit
Kind(u) == prog.ops[u[1]][u[2]].kind
KeysOf(u) == prog.ops[u[1]][u[2]].keys
At(u, s) == {k \in KeysOf(u) : Home[k] = s}
ShardsOf(u) == {Home[k] : k \in KeysOf(u)}
Group(u) == Kind(u) \in {"mset", "msetnx", "exec"}
Tagged(u) == Kind(u) \in {"watch", "unwatch", "exec"}
Writes(u, k) == k \in KeysOf(u) /\ Kind(u) \in {"mset", "msetnx", "exec", "set"}
NeedsCut(u) == Kind(u) \in {"mget", "msetnx"}

Version(u, has) == [by |-> u, has |-> has]
Initial == Version(NoUnit, {})
Absent == Version(NoUnit, {NoUnit})

\* Where a version stands among the versions of its key: by ticket, and a write that
\* drew none after every ticket drawn before it.
Rank(v) ==
    IF v.by = NoUnit THEN 0
    ELSE IF unit[v.by].epoch # 0 THEN 2 * unit[v.by].epoch ELSE unit[v.by].loose

NewUnit(u, cut, hazard) ==
    [cut |-> cut, hazard |-> hazard, reg |-> FALSE, epoch |-> 0, aborted |-> FALSE,
     todo |-> ShardsOf(u), done |-> FALSE, loose |-> 0, res |-> [k \in {} |-> Initial],
     base |-> [k \in {} |-> Initial], known |-> {}, watched |-> {}, unchecked |-> {},
     seen |-> [k \in {} |-> {}]]

Idle == [pc |-> "idle", u |-> NoUnit, cutoff |-> 0, floor |-> Max64, ios |-> <<>>,
         us |-> <<>>, ticket |-> 0, drawn |-> 0]

----------------------------------------------------------------------------
(* Resolving a key against the pending entries of its shard *)

Undecided(e) == unit[e.u].epoch = 0 /\ ~unit[e.u].aborted
Occurrences(ch, k) == {i \in DOMAIN ch : k \in DOMAIN ch[i].old}

\* What the entry at i installed: the value the next entry displaced, or the table's.
Candidate(ch, ph, k, i) ==
    LET later == {j \in Occurrences(ch, k) : j > i}
    IN  IF later = {} THEN ph[k] ELSE ch[Min(later)].old[k]

\* The program-order repair: a committed entry ranks no lower than the committed entries
\* of its connection right before it.
EffectiveEpoch(ch, k, i) ==
    LET live == {j \in Occurrences(ch, k) : ~unit[ch[j].u].aborted /\ unit[ch[j].u].epoch # 0}
        sameConn == {j \in live : j <= i /\ \A m \in live :
                                     m \in j .. i => ch[m].u[1] = ch[i].u[1]}
    IN  Max({unit[ch[j].u].epoch : j \in sameConn} \cup {0})

Newest(ch, k, among) ==
    CHOOSE i \in among : \A j \in among :
        \/ EffectiveEpoch(ch, k, j) < EffectiveEpoch(ch, k, i)
        \/ EffectiveEpoch(ch, k, j) = EffectiveEpoch(ch, k, i) /\ j <= i

resolve_at_cut(ch, ph, k, cut, c) ==
    LET all == Occurrences(ch, k)
        visible == {i \in all : ~unit[ch[i].u].aborted /\ EffectiveEpoch(ch, k, i) \in 1 .. cut}
    IN  CASE all = {} -> ph[k]
          [] visible # {} -> Candidate(ch, ph, k, Newest(ch, k, visible))
          [] OTHER -> ch[Min(all)].old[k]
atomic_resolve(ch, ph, k, cut, c) ==
    LET all == Occurrences(ch, k)
        own(i) == ch[i].u[1] = c
        visible == {i \in all : /\ ~unit[ch[i].u].aborted
                                /\ \/ own(i)
                                   \/ /\ unit[ch[i].u].epoch # 0
                                      /\ EffectiveEpoch(ch, k, i) <= cut}
        private == {i \in visible : unit[ch[i].u].epoch = 0}
    IN  CASE all = {}     -> ph[k]
          [] private # {} -> Candidate(ch, ph, k, Max(private))
          [] private = {} /\ visible # {} -> Candidate(ch, ph, k, Newest(ch, k, visible))
          [] OTHER -> ch[Min(all)].old[k]

----------------------------------------------------------------------------
(* Collapse: the decided prefix of the entries goes back into the table *)

EligibleAboveFloor(e, floor, cutoff) ==
    unit[e.u].aborted \/ unit[e.u].epoch \in 1 .. cutoff
Eligible(e, floor, cutoff) ==
    \/ unit[e.u].aborted
    \/ unit[e.u].epoch # 0 /\ unit[e.u].epoch < floor /\ unit[e.u].epoch <= cutoff

PrefixLen(ch, floor, cutoff) ==
    Max({n \in 0 .. Len(ch) : \A i \in 1 .. n : Eligible(ch[i], floor, cutoff)})

\* Nothing to choose: no aborted entry, and no two entries of one key out of ticket order.
Direct(pre) ==
    /\ \A i \in DOMAIN pre : ~unit[pre[i].u].aborted
    /\ \A i, j \in DOMAIN pre :
          i < j /\ DOMAIN pre[i].old \cap DOMAIN pre[j].old # {}
              => unit[pre[i].u].epoch <= unit[pre[j].u].epoch

\* The keys whose surviving version has to be put back.
Rewritten(pre) ==
    LET keys(i) == DOMAIN pre[i].old
        overlap == \E i, j \in DOMAIN pre : i < j /\ keys(i) \cap keys(j) # {}
    IN  IF Direct(pre) THEN {}
        ELSE UNION {keys(i) : i \in {j \in DOMAIN pre : overlap \/ unit[pre[j].u].aborted}}

\* The survivor of the prefix for k: the committed argmax, or what was there before.
Survivor(ch, ph, n, k) ==
    LET pre == SubSeq(ch, 1, n)
        all == Occurrences(pre, k)
        committed == {i \in all : ~unit[pre[i].u].aborted}
    IN  IF committed = {} THEN pre[Min(all)].old[k]
        ELSE Candidate(ch, ph, k, Newest(pre, k, committed))

\* The collapsed chain and the table; a survivor goes into the first entry kept that names
\* the key, or into the table.
atomic_collapse(ch, ph, floor, cutoff) ==
    LET n == PrefixLen(ch, floor, cutoff)
        keys == Rewritten(SubSeq(ch, 1, n))
        rest == SubSeq(ch, n + 1, Len(ch))
        boundary(k) == Occurrences(rest, k)
    IN  [chain |-> [i \in DOMAIN rest |->
                       [rest[i] EXCEPT !.old = [k \in DOMAIN @ |->
                           IF k \in keys /\ i = Min(boundary(k))
                           THEN Survivor(ch, ph, n, k) ELSE @[k]]]],
         phys |-> [k \in Keys |->
                       IF k \in keys /\ boundary(k) = {}
                       THEN Survivor(ch, ph, n, k) ELSE ph[k]]]

\* The sweep takes any prefix; a command collapses only when one of its keys has an entry.
Promoted(s, keys, floor, cutoff) ==
    IF keys = {} \/ \E k \in keys : Occurrences(chain[s], k) # {}
    THEN atomic_collapse(chain[s], phys, floor, cutoff)
    ELSE [chain |-> chain[s], phys |-> phys]

----------------------------------------------------------------------------
(* The IO thread of a connection: parse passes, dispatch, read cuts, retirement *)

Init ==
    /\ prog \in Programs
    /\ sent = [c \in ConnSet |-> 0]
    /\ retired = [c \in ConnSet |-> 0]
    /\ io = [c \in ConnSet |-> "run"]
    /\ pass = [c \in ConnSet |-> 0]
    /\ pub = [c \in ConnSet |-> Max64]
    /\ unit = [u \in {} |-> NewUnit(u, 0, FALSE)]
    /\ lane = [s \in Shards |-> <<>>]
    /\ parked = [s \in Shards |-> {}]
    /\ retry = [s \in Shards |-> NoUnit]
    /\ reg = [k \in Keys |-> Unwatched]
    /\ sess = [c \in ConnSet |-> [gen |-> 0, dirty |-> FALSE, watched |-> {}]]
    /\ chain = [s \in Shards |-> <<>>]
    /\ phys = [k \in Keys |-> IF k \in prog.absent THEN Absent ELSE Initial]
    /\ job = [s \in Shards |-> Idle]
    /\ batch = [s \in Shards |-> <<>>]
    /\ seq = 0
    /\ inflight = 0
    /\ safe = 0
    /\ overtaken = FALSE

InFlight(c) == {u \in Units : u[1] = c /\ u[2] > retired[c]}
NextUnit(c) == <<c, sent[c] + 1>>

\* The next command is parsed: none behind an EXEC, WATCH or UNWATCH in flight.
MayDispatch(c) ==
    /\ io[c] = "run"
    /\ sent[c] < Len(prog.ops[c])
    /\ \A u \in InFlight(c) : ~Tagged(u)

\* A parse pass begins and samples the cut its reads are stamped with.
BeginPass(c) ==
    /\ MayDispatch(c)
    /\ pass[c] # safe
    /\ \E i \in sent[c] + 1 .. Len(prog.ops[c]) : prog.ops[c][i].kind \in {"get", "mget"}
    /\ pass' = [pass EXCEPT ![c] = safe]
    /\ UNCHANGED <<prog, sent, retired, io, pub, unit, queueVars, storeVars, execVars, ticketVars, watchVars>>

Posted(u, shards) == [s \in Shards |-> IF s \in shards THEN Append(lane[s], u) ELSE lane[s]]

\* GET reads at the cut of its pass; a command that writes reads the newest value.
set_read_cut(c, u) == IF Kind(u) = "get" THEN pass[c] ELSE Max64

\* WATCH opens a session with its first keys; EXEC and UNWATCH take the watched keys along.
Session(c, u) ==
    CASE Kind(u) = "watch" ->
            IF sess[c].watched = {} THEN [gen |-> sess[c].gen + 1, dirty |-> FALSE, watched |-> KeysOf(u)]
            ELSE [sess[c] EXCEPT !.watched = @ \cup KeysOf(u)]
      [] Kind(u) \in {"exec", "unwatch"} -> [sess[c] EXCEPT !.watched = {}]
      [] OTHER -> sess[c]

Dispatch(c) ==
    LET u == NextUnit(c)
        hazard == \E w \in InFlight(c) : Group(w)
        watched == IF Kind(u) \in {"exec", "unwatch"} THEN sess[c].watched ELSE {}
        shards == ShardsOf(u) \cup {Home[k] : k \in watched}
    IN  /\ MayDispatch(c)
        /\ ~NeedsCut(u)
        /\ unit' = (u :> [NewUnit(u, set_read_cut(c, u), hazard) EXCEPT
                             !.todo = shards, !.watched = watched,
                             !.unchecked = IF Kind(u) = "exec" THEN shards ELSE {}]) @@ unit
        /\ lane' = Posted(u, shards)
        /\ sent' = [sent EXCEPT ![c] = @ + 1]
        /\ sess' = [sess EXCEPT ![c] = Session(c, u)]
        /\ UNCHANGED <<prog, retired, io, pass, pub, parked, retry, storeVars, execVars, ticketVars, reg>>

\* The successor of the oldest cut the connection's IO thread has registered.
Floor(c, un) == Min({Max64} \cup {un[u].cut + 1 : u \in {w \in DOMAIN un : w[1] = c /\ un[w].reg}})

\* register_snapshot, first half: the cut is chosen and entered, not yet published.
Prepare(c) ==
    LET u == NextUnit(c)
        hazard == \E w \in InFlight(c) : Group(w)
        cut == IF Kind(u) = "mget" THEN pass[c] ELSE safe
    IN  /\ MayDispatch(c)
        /\ NeedsCut(u)
        /\ unit' = (u :> [NewUnit(u, cut, hazard) EXCEPT !.reg = TRUE]) @@ unit
        /\ io' = [io EXCEPT ![c] = "publish"]
        /\ UNCHANGED <<prog, sent, retired, pass, pub, queueVars, storeVars, execVars, ticketVars, watchVars>>

PublishFloor(c) ==
    /\ io[c] = "publish"
    /\ pub' = [pub EXCEPT ![c] = Floor(c, unit)]
    /\ io' = [io EXCEPT ![c] = "confirm"]
    /\ UNCHANGED <<prog, sent, retired, pass, unit, queueVars, storeVars, execVars, ticketVars, watchVars>>

\* The watermark is read again; a cut that moved is replaced, then the fragments go out.
UnconfirmedCut(u) == unit[u].cut
ConfirmedCut(u) == safe
Confirm(c) ==
    LET u == NextUnit(c)
    IN  /\ io[c] = "confirm"
        /\ unit' = [unit EXCEPT ![u].cut = ConfirmedCut(u)]
        /\ pub' = [pub EXCEPT ![c] = Floor(c, unit')]
        /\ lane' = Posted(u, ShardsOf(u))
        /\ sent' = [sent EXCEPT ![c] = @ + 1]
        /\ io' = [io EXCEPT ![c] = "run"]
        /\ UNCHANGED <<prog, retired, pass, parked, retry, storeVars, execVars, ticketVars, watchVars>>

\* Cuts whose last fragment has read are dropped, before their replies may leave.
RefreshFloor(c) ==
    LET over == {u \in Units : u[1] = c /\ unit[u].reg /\ unit[u].todo = {}}
    IN  /\ over # {}
        /\ unit' = [u \in Units |-> IF u \in over THEN [unit[u] EXCEPT !.reg = FALSE] ELSE unit[u]]
        /\ pub' = [pub EXCEPT ![c] = Floor(c, unit')]
        /\ UNCHANGED <<prog, sent, retired, io, pass, queueVars, storeVars, execVars, ticketVars, watchVars>>

\* reset_watch: EXEC and UNWATCH end the session.
reset_watch(c) == [sess EXCEPT ![c].gen = @ + 1, ![c].dirty = FALSE]

\* The oldest reply leaves and its arena is given up.
Retire(c) ==
    LET u == <<c, retired[c] + 1>>
    IN  /\ u \in Units
        /\ unit[u].done
        /\ retired' = [retired EXCEPT ![c] = @ + 1]
        /\ unit' = [unit EXCEPT ![u].reg = FALSE]
        /\ pub' = [pub EXCEPT ![c] = Floor(c, unit')]
        /\ sess' = IF Kind(u) \in {"exec", "unwatch"} THEN reset_watch(c) ELSE sess
        /\ UNCHANGED <<prog, sent, io, pass, queueVars, storeVars, execVars, ticketVars, reg>>

----------------------------------------------------------------------------
(* The commit bracket: the end of a group's last turn, of a batch and of a plain write *)

Bracketed(s, us, plain) ==
    [job EXCEPT ![s] = [Idle EXCEPT !.pc = IF plain THEN "load" ELSE "store", !.us = us,
                                    !.ticket = seq + 1]]

atomic_commit_reserve(n) ==
    /\ inflight' = inflight + 1
    /\ seq' = seq + n
    /\ UNCHANGED <<safe, overtaken>>

----------------------------------------------------------------------------
(* The executor of a shard: order, group installs, plain commands *)

\* In one lane tasks are met in order; a task met before may wait in the deferred queue.
\* While one is retried no other is taken from the lanes.
Met(s, u) ==
    /\ u \in Range(lane[s])
    /\ u \notin parked[s] =>
          /\ retry[s] \in {NoUnit, u}
          /\ \A w \in Range(lane[s]) : w[1] = u[1] /\ w[2] < u[2] => w \in parked[s]

\* A tagged MULTI fragment touches the whole owner.
TasksShareKey(w, u, s) ==
    \/ Tagged(w) \/ Tagged(u)
    \/ At(w, s) \cap At(u, s) # {}

OwnUndecided(s, u) ==
    \E i \in DOMAIN chain[s] :
        LET e == chain[s][i]
        IN  /\ Undecided(e) /\ e.u[1] = u[1] /\ e.u # u
            /\ Tagged(u) \/ (unit[u].hazard /\ DOMAIN e.old \cap KeysOf(u) # {})

ShouldDefer(s, u) ==
    \/ \E w \in (parked[s] \cup {retry[s]}) \ {NoUnit} : w[1] = u[1] /\ w[2] < u[2] /\ TasksShareKey(w, u, s)
    \/ OwnUndecided(s, u)

Park(s, u) ==
    /\ job[s].pc = "idle"
    /\ Met(s, u) /\ u \notin parked[s]
    /\ ShouldDefer(s, u)
    /\ parked' = [parked EXCEPT ![s] = @ \cup {u}]
    /\ UNCHANGED <<prog, ioVars, unit, lane, retry, storeVars, execVars, ticketVars, watchVars>>

Take(s, u) ==
    /\ job[s].pc = "idle"
    /\ Met(s, u)
    /\ ~ShouldDefer(s, u)
    /\ lane' = [lane EXCEPT ![s] = SelectSeq(@, LAMBDA w : w # u)]
    /\ parked' = [parked EXCEPT ![s] = @ \ {u}]
    /\ retry' = [retry EXCEPT ![s] = IF @ = u THEN NoUnit ELSE @]

----------------------------------------------------------------------------
(* WATCH: what an executor finds and leaves in the registries of its keys *)

Fate(u) == IF unit[u].aborted THEN "aborted" ELSE IF unit[u].epoch # 0 THEN "committed" ELSE "open"
Generation(c) == sess[c].gen
WatchedAt(u, s) == {k \in unit[u].watched : Home[k] = s}
OnKeys(ks, new(_)) == [k \in Keys |-> IF k \in ks THEN new(k) ELSE reg[k]]
Settled(k) == Finalized(reg[k], Fate)
Hits(ks) == UNION {Dirtied(reg[k], Fate) : k \in ks}
Marked(hits) ==
    [c \in ConnSet |-> [sess[c] EXCEPT !.dirty = @ \/ \E e \in hits : e.c = c /\ e.gen = sess[c].gen]]
Free(ks) == \A k \in ks : ~Blocked(reg[k], Fate)

\* Units whose write of k is in place, decided or not.
WrittenBy(k) == {w \in Units : Writes(w, k) /\ Home[k] \notin unit[w].todo}

\* A fragment of WATCH enters its connection.
Arm(s, u) ==
    LET ks == At(u, s)
        entry(k) == Watcher(u[1], Generation(u[1]), WrittenBy(k))
    IN  /\ Kind(u) = "watch"
        /\ Take(s, u)
        /\ Free(ks)
        /\ reg' = OnKeys(ks, LAMBDA k : watch_add(Settled(k), entry(k), Generation))
        /\ sess' = Marked(Hits(ks))
        /\ unit' = [unit EXCEPT ![u] = [@ EXCEPT !.todo = @ \ {s}, !.done = unit[u].todo = {s}]]
        /\ UNCHANGED <<prog, ioVars, storeVars, execVars, ticketVars>>

\* A fragment of UNWATCH, DISCARD or the release of a closed connection takes it out.
Disarm(s, u) ==
    LET ks == WatchedAt(u, s)
    IN  /\ Kind(u) = "unwatch"
        /\ Take(s, u)
        /\ Free(ks)
        /\ reg' = OnKeys(ks, LAMBDA k : watch_remove(Settled(k), u[1], Generation(u[1])))
        /\ sess' = Marked(Hits(ks))
        /\ unit' = [unit EXCEPT ![u] = [@ EXCEPT !.todo = @ \ {s}, !.done = unit[u].todo = {s}]]
        /\ UNCHANGED <<prog, ioVars, storeVars, execVars, ticketVars>>

\* Either one finds an open claim and goes to multi_retries_.
AwaitClaim(s, u) ==
    LET ks == At(u, s) \cup WatchedAt(u, s)
    IN  /\ Kind(u) \in {"watch", "unwatch"}
        /\ job[s].pc = "idle"
        /\ Met(s, u) /\ u \notin parked[s]
        /\ ~ShouldDefer(s, u)
        /\ ~Free(ks)
        /\ parked' = [parked EXCEPT ![s] = @ \cup {u}]
        /\ reg' = OnKeys(ks, Settled)
        /\ sess' = Marked(Hits(ks))
        /\ UNCHANGED <<prog, ioVars, unit, lane, retry, storeVars, execVars, ticketVars>>

\* The watch phase of EXEC at s: is the session dirty, and the claims it leaves if not.
ClashesAt(s, u) == \E k \in WatchedAt(u, s) : Conflicts(Settled(k), u, k \in KeysOf(u))
DirtyAt(s, u) == Marked(Hits(WatchedAt(u, s)))[u[1]].dirty \/ ClashesAt(s, u)
ClaimedAt(s, u) ==
    OnKeys(WatchedAt(u, s), LAMBDA k :
        watch_remove(IF DirtyAt(s, u) THEN Settled(k)
                     ELSE watch_validate_and_reserve(Settled(k), u, k \in KeysOf(u)),
                     u[1], Generation(u[1])))
SeenAt(s, u) ==
    [k \in WatchedAt(u, s) |-> UNION {e.seen : e \in {x \in reg[k].watchers : x.c = u[1]}}]

\* The registry and the verdict once the phase is over at s.
Phase(s, u) == IF s \in unit[u].unchecked THEN ClaimedAt(s, u) ELSE reg
Rejected(s, u) == unit[u].aborted \/ (s \in unit[u].unchecked /\ DirtyAt(s, u))
Writable(s, u) == \A k \in At(u, s) : watch_write_ready(Phase(s, u)[k], u, Fate)

\* EXEC runs on a shard once every participant has validated and its writes meet no claim.
MayRun(s, u) == unit[u].unchecked \subseteq {s} /\ (Rejected(s, u) \/ Writable(s, u))

execute_watch_phase(s, u) ==
    /\ Kind(u) = "exec"
    /\ job[s].pc = "idle"
    /\ Met(s, u)
    /\ ~ShouldDefer(s, u)
    /\ s \in unit[u].unchecked
    /\ ~MayRun(s, u)
    /\ reg' = ClaimedAt(s, u)
    /\ sess' = [Marked(Hits(WatchedAt(u, s))) EXCEPT ![u[1]].dirty = DirtyAt(s, u)]
    /\ unit' = [unit EXCEPT ![u] = [@ EXCEPT !.unchecked = @ \ {s},
                                            !.aborted = Rejected(s, u),
                                            !.seen = SeenAt(s, u) @@ @]]
    /\ parked' = [parked EXCEPT ![s] = @ \cup {u}]
    /\ UNCHANGED <<prog, ioVars, lane, retry, storeVars, execVars, ticketVars>>

\* A group or a plain write that meets an open claim goes to xshard_retries_.
Hold(s, u) ==
    /\ Kind(u) \in {"mset", "msetnx", "set"}
    /\ job[s].pc = "idle"
    /\ Met(s, u) /\ retry[s] = NoUnit
    /\ ~ShouldDefer(s, u)
    /\ ~Free(At(u, s))
    /\ retry' = [retry EXCEPT ![s] = u]
    /\ parked' = [parked EXCEPT ![s] = @ \ {u}]
    /\ reg' = OnKeys(At(u, s), Settled)
    /\ sess' = Marked(Hits(At(u, s)))
    /\ UNCHANGED <<prog, ioVars, unit, lane, storeVars, execVars, ticketVars>>

----------------------------------------------------------------------------
(* Groups, reads and plain writes *)

Decided == {w \in Units : unit[w].epoch # 0}

\* A clone of the newest value the writer may see, with its own update applied.
WatermarkCut == safe
CloneCut == Max64
CloneBase(ch, ph, k, c) == atomic_resolve(ch, ph, k, CloneCut, c)
Updated(base, u) == Version(u, (base.has \ {NoUnit}) \cup {u})

\* MSETNX gives up when a key is there, EXEC when its session is dirty; every kind does
\* when another owner aborted it.
GroupFails(s, u) ==
    \/ Rejected(s, u)
    \/ /\ Kind(u) = "msetnx"
       /\ \E k \in At(u, s) :
             atomic_resolve(chain[s], phys, k, unit[u].cut, u[1]) # Absent

\* The writes of a group are noted for the watchers of their keys; EXEC notes none once it
\* is rejected.
Noted(s, u) ==
    IF Kind(u) = "exec" /\ Rejected(s, u) THEN Phase(s, u)
    ELSE [k \in Keys |-> IF k \in At(u, s)
                         THEN watch_reserve_write(Finalized(Phase(s, u)[k], Fate), u)
                         ELSE Phase(s, u)[k]]
LookedAt(s, u) ==
    (IF s \in unit[u].unchecked THEN WatchedAt(u, s) ELSE {})
        \cup (IF Kind(u) = "exec" /\ Rejected(s, u) THEN {} ELSE At(u, s))
SessionsAfter(s, u) ==
    LET hit == Marked(Hits(LookedAt(s, u)))
    IN  IF s \in unit[u].unchecked THEN [hit EXCEPT ![u[1]].dirty = DirtyAt(s, u)] ELSE hit

\* One owner turn of a group: preflight, exchange, link. The last owner decides.
RunGroup(s, u) ==
    LET fails == GroupFails(s, u)
        last == unit[u].todo = {s}
        base == [k \in At(u, s) |-> CloneBase(chain[s], phys, k, u[1])]
        new(k) == IF Kind(u) = "exec" THEN Updated(base[k], u) ELSE Version(u, {u})
    IN  /\ Group(u)
        /\ Take(s, u)
        /\ MayRun(s, u)
        /\ reg' = Noted(s, u)
        /\ sess' = SessionsAfter(s, u)
        /\ unit' = [unit EXCEPT ![u] =
                       [@ EXCEPT !.todo = @ \ {s},
                                 !.unchecked = @ \ {s},
                                 !.seen = IF s \in unit[u].unchecked THEN SeenAt(s, u) @@ @ ELSE @,
                                 !.aborted = fails,
                                 !.done = last /\ fails,
                                 !.base = IF Kind(u) = "exec" THEN base @@ @ ELSE @,
                                 !.known = IF Kind(u) = "exec"
                                           THEN @ \cup (Decided \X At(u, s)) ELSE @]]
        /\ IF fails \/ At(u, s) = {} THEN UNCHANGED <<storeVars>>
           ELSE /\ chain' = [chain EXCEPT ![s] =
                               Append(@, [u |-> u, old |-> [k \in At(u, s) |-> phys[k]]])]
                /\ phys' = [k \in Keys |-> IF k \in At(u, s) THEN new(k) ELSE phys[k]]
        /\ IF last /\ ~fails /\ Kind(u) = "exec"
           THEN job' = Bracketed(s, <<u>>, FALSE) /\ atomic_commit_reserve(1)
           ELSE UNCHANGED <<job, ticketVars>>
        /\ batch' = IF last /\ ~fails /\ Kind(u) # "exec"
                    THEN [batch EXCEPT ![s] = Append(@, u)] ELSE batch
        /\ UNCHANGED <<prog, ioVars>>

Scanned == SelectSeq(Conns, LAMBDA c :
               \E i \in DOMAIN prog.ops[c] : prog.ops[c][i].kind \in {"mget", "msetnx"})
FloorScan(u) == [Idle EXCEPT !.pc = "floor", !.u = u, !.cutoff = safe, !.ios = Scanned]

\* A read or a plain write starts: with entries on the shard it first samples the cutoff.
Begin(s, u) ==
    /\ Kind(u) \in {"get", "mget", "set"}
    /\ Take(s, u)
    /\ Kind(u) = "set" => Free(At(u, s))
    /\ job' = [job EXCEPT ![s] = IF chain[s] = <<>> THEN [Idle EXCEPT !.pc = "floor", !.u = u]
                                 ELSE FloorScan(u)]
    /\ UNCHANGED <<prog, ioVars, unit, storeVars, batch, ticketVars, watchVars>>

\* The cleanup pass after a batch.
BeginSweep(s) ==
    /\ job[s].pc = "idle"
    /\ chain[s] # <<>>
    /\ ~Undecided(chain[s][1])
    /\ job' = [job EXCEPT ![s] = FloorScan(NoUnit)]
    /\ UNCHANGED <<prog, ioVars, unit, queueVars, storeVars, batch, ticketVars, watchVars>>

LoadFloor(s) ==
    /\ job[s].pc = "floor"
    /\ job[s].ios # <<>>
    /\ job' = [job EXCEPT ![s].floor = Min({@, pub[Head(job[s].ios)]}), ![s].ios = Tail(@)]
    /\ UNCHANGED <<prog, ioVars, unit, queueVars, storeVars, batch, ticketVars, watchVars>>

Scanning(s) == job[s].pc = "floor" /\ job[s].ios = <<>>
AfterPromotion(s, keys) == Promoted(s, keys, job[s].floor, job[s].cutoff)

Sweep(s) ==
    LET after == AfterPromotion(s, {})
    IN  /\ Scanning(s)
        /\ job[s].u = NoUnit
        /\ chain' = [chain EXCEPT ![s] = after.chain]
        /\ phys' = after.phys
        /\ job' = [job EXCEPT ![s] = Idle]
        /\ UNCHANGED <<prog, ioVars, unit, queueVars, batch, ticketVars, watchVars>>

\* GET and the fragments of MGET read at their cut.
RunRead(s) ==
    LET u == job[s].u
        after == AfterPromotion(s, At(u, s))
        seen == [k \in At(u, s) |-> atomic_resolve(after.chain, after.phys, k, unit[u].cut, u[1])]
    IN  /\ Scanning(s)
        /\ u # NoUnit
        /\ Kind(u) \in {"get", "mget"}
        /\ chain' = [chain EXCEPT ![s] = after.chain]
        /\ phys' = after.phys
        /\ unit' = [unit EXCEPT ![u] = [@ EXCEPT !.res = seen @@ @, !.todo = @ \ {s},
                                                 !.done = unit[u].todo = {s}]]
        /\ job' = [job EXCEPT ![s] = Idle]
        /\ UNCHANGED <<prog, ioVars, queueVars, batch, ticketVars, watchVars>>

\* watch_write_committed: whoever watches the key is dirty from here on.
CommittedPlain(k) ==
    /\ reg' = OnKeys({k}, LAMBDA x : watch_prune_stale(Settled(x), Generation))
    /\ sess' = Marked(reg[k].watchers)

\* A plain write on a key without entries changes the table in place.
RunPlain(s) ==
    LET u == job[s].u
        after == AfterPromotion(s, At(u, s))
        k == CHOOSE x \in At(u, s) : TRUE
    IN  /\ Scanning(s)
        /\ u # NoUnit
        /\ Kind(u) = "set"
        /\ Occurrences(after.chain, k) = {}
        /\ chain' = [chain EXCEPT ![s] = after.chain]
        /\ phys' = [after.phys EXCEPT ![k] = Updated(@, u)]
        /\ unit' = [unit EXCEPT ![u] = [@ EXCEPT !.todo = {}, !.done = TRUE, !.loose = 2 * seq + 1]]
        /\ job' = [job EXCEPT ![s] = Idle]
        /\ CommittedPlain(k)
        /\ UNCHANGED <<prog, ioVars, queueVars, batch, ticketVars>>

\* begin_plain_version: the newest visible value is cloned, then a ticket is drawn.
ClonePlain(s) ==
    LET u == job[s].u
        after == AfterPromotion(s, At(u, s))
        k == CHOOSE x \in At(u, s) : TRUE
    IN  /\ Scanning(s)
        /\ u # NoUnit
        /\ Kind(u) = "set"
        /\ Occurrences(after.chain, k) # {}
        /\ chain' = [chain EXCEPT ![s] = after.chain]
        /\ phys' = after.phys
        /\ unit' = [unit EXCEPT ![u] = [@ EXCEPT !.base = k :> CloneBase(after.chain, after.phys, k, u[1]),
                                                 !.known = Decided \X {k}]]
        /\ job' = Bracketed(s, <<u>>, TRUE)
        /\ atomic_commit_reserve(1)
        /\ UNCHANGED <<prog, ioVars, queueVars, batch, watchVars>>

----------------------------------------------------------------------------
(* Out of the bracket *)

\* The groups queued by the last pass are committed under one bracket.
FlushCommits(s) ==
    /\ job[s].pc = "idle"
    /\ batch[s] # <<>>
    /\ job' = Bracketed(s, batch[s], FALSE)
    /\ atomic_commit_reserve(Len(batch[s]))
    /\ batch' = [batch EXCEPT ![s] = <<>>]
    /\ UNCHANGED <<prog, ioVars, unit, queueVars, storeVars, watchVars>>

StoreTickets(s) ==
    LET j == job[s]
        index(u) == CHOOSE i \in DOMAIN j.us : j.us[i] = u
    IN  /\ j.pc = "store"
        /\ unit' = [u \in Units |-> IF u \in Range(j.us)
                                    THEN [unit[u] EXCEPT !.epoch = j.ticket + index(u) - 1]
                                    ELSE unit[u]]
        /\ job' = [job EXCEPT ![s].pc = "load"]
        /\ UNCHANGED <<prog, ioVars, queueVars, storeVars, batch, ticketVars, watchVars>>

LoadDrawn(s) ==
    /\ job[s].pc = "load"
    /\ job' = [job EXCEPT ![s] = [@ EXCEPT !.pc = "leave", !.drawn = seq]]
    /\ UNCHANGED <<prog, ioVars, unit, queueVars, storeVars, batch, ticketVars, watchVars>>

\* The last one out of the bracket raises the watermark to the sequence it loaded.
publish_every_time(s) ==
    /\ inflight' = inflight - 1
    /\ safe' = Max({safe, job[s].drawn})
    /\ overtaken' = IF inflight = 1 THEN job[s].drawn < seq ELSE overtaken
    /\ UNCHANGED seq
atomic_commit_publish(s) ==
    /\ inflight' = inflight - 1
    /\ safe' = IF inflight = 1 THEN Max({safe, job[s].drawn}) ELSE safe
    /\ overtaken' = IF inflight = 1 THEN job[s].drawn < seq ELSE overtaken
    /\ UNCHANGED seq

\* Groups leave the bracket and answer.
CloseGroups(s) ==
    LET us == Range(job[s].us)
    IN  /\ job[s].pc = "leave"
        /\ \A u \in us : Group(u)
        /\ atomic_commit_publish(s)
        /\ unit' = [u \in Units |-> IF u \in us THEN [unit[u] EXCEPT !.done = TRUE] ELSE unit[u]]
        /\ job' = [job EXCEPT ![s] = Idle]
        /\ UNCHANGED <<prog, ioVars, queueVars, storeVars, batch, watchVars>>

\* A plain write leaves the bracket, installs its version and runs on it.
ClosePlain(s) ==
    LET u == job[s].us[1]
        k == CHOOSE x \in At(u, s) : TRUE
    IN  /\ job[s].pc = "leave"
        /\ Kind(u) = "set"
        /\ atomic_commit_publish(s)
        /\ unit' = [unit EXCEPT ![u] = [@ EXCEPT !.epoch = job[s].ticket, !.todo = {}, !.done = TRUE]]
        /\ chain' = [chain EXCEPT ![s] = Append(@, [u |-> u, old |-> k :> phys[k]])]
        /\ phys' = [phys EXCEPT ![k] = Updated(unit[u].base[k], u)]
        /\ job' = [job EXCEPT ![s] = Idle]
        /\ CommittedPlain(k)
        /\ UNCHANGED <<prog, ioVars, queueVars, batch>>

AllRetired == \A c \in ConnSet : retired[c] = Len(prog.ops[c])
Stop == AllRetired /\ UNCHANGED vars

Next ==
    \/ \E c \in ConnSet : \/ BeginPass(c) \/ Dispatch(c) \/ Prepare(c) \/ PublishFloor(c)
                          \/ Confirm(c) \/ RefreshFloor(c) \/ Retire(c)
    \/ \E s \in Shards : \/ \E u \in Range(lane[s]) : 
                               \/ Park(s, u) \/ Hold(s, u) \/ RunGroup(s, u) \/ Begin(s, u)
                               \/ Arm(s, u) \/ Disarm(s, u) \/ AwaitClaim(s, u)
                               \/ execute_watch_phase(s, u)
                         \/ BeginSweep(s) \/ LoadFloor(s) \/ Sweep(s) \/ RunRead(s)
                         \/ RunPlain(s) \/ ClonePlain(s)
                         \/ FlushCommits(s) \/ StoreTickets(s) \/ LoadDrawn(s)
                         \/ CloseGroups(s) \/ ClosePlain(s)
    \/ Stop

Spec == Init /\ [][Next]_vars

----------------------------------------------------------------------------
(* Properties *)

UnitIds == UNION {{<<c, i>> : i \in 1 .. Len(prog.ops[c])} : c \in ConnSet}
IsValue(v) == v.by \in UnitIds \cup {NoUnit} /\ v.has \subseteq UnitIds \cup {NoUnit}
Epochs == 0 .. Cardinality(UnitIds)

\* Every variable has its type, and a unit in a lane, an entry or a job was dispatched.
TypeOK ==
    /\ sent \in [ConnSet -> 0 .. Cardinality(UnitIds)]
    /\ \A c \in ConnSet : retired[c] <= sent[c] /\ sent[c] <= Len(prog.ops[c])
    /\ io \in [ConnSet -> {"run", "publish", "confirm"}]
    /\ pass \in [ConnSet -> Epochs]
    /\ pub \in [ConnSet -> Epochs \cup {Max64}]
    /\ Units \subseteq UnitIds
    /\ \A u \in Units :
          /\ unit[u].cut \in Epochs \cup {Max64}
          /\ unit[u].epoch \in Epochs
          /\ {unit[u].hazard, unit[u].reg, unit[u].aborted, unit[u].done} \subseteq BOOLEAN
          /\ unit[u].todo \subseteq Shards /\ unit[u].unchecked \subseteq unit[u].todo
          /\ unit[u].watched \subseteq Keys /\ DOMAIN unit[u].seen \subseteq unit[u].watched
          /\ \A k \in DOMAIN unit[u].res : IsValue(unit[u].res[k])
          /\ \A k \in DOMAIN unit[u].base : IsValue(unit[u].base[k])
    /\ \A s \in Shards :
          /\ Range(lane[s]) \subseteq {u \in Units : s \in unit[u].todo}
          /\ parked[s] \subseteq Range(lane[s]) /\ retry[s] \in Range(lane[s]) \cup {NoUnit}
          /\ \A i \in DOMAIN chain[s] :
                /\ chain[s][i].u \in Units
                /\ DOMAIN chain[s][i].old = At(chain[s][i].u, s)
                /\ \A k \in DOMAIN chain[s][i].old : IsValue(chain[s][i].old[k])
          /\ job[s].pc \in {"idle", "floor", "store", "load", "leave"}
          /\ Range(job[s].us) \cup Range(batch[s]) \subseteq Units
    /\ \A k \in Keys :
          /\ IsValue(phys[k])
          /\ \A e \in reg[k].watchers : e.c \in ConnSet /\ e.gen \in Nat /\ e.seen \subseteq Units
          /\ \A x \in ClaimsOf(reg[k]) : x.u \in Units /\ {x.mutates, x.blocking} \subseteq BOOLEAN
    /\ \A c \in ConnSet : sess[c].gen \in Nat /\ sess[c].dirty \in BOOLEAN /\ sess[c].watched \subseteq Keys
    /\ {seq, safe} \subseteq Epochs
    /\ inflight \in 0 .. Cardinality(Shards)
    /\ overtaken \in BOOLEAN

Committed == {u \in Units : unit[u].epoch # 0}
Readers == {u \in Units : Kind(u) \in {"get", "mget"} /\ unit[u].todo = {}}

\* The watermark covers only tickets that are stored: a cut never names a group whose
\* entries still answer "undecided" (the bracket of atomic_commit_reserve and publish).
\* And with nobody in the bracket it has caught up with the tickets drawn, except when the
\* last one out had loaded the sequence before another commit came and went.
SafeTicketsAreStored ==
    /\ \A s \in Shards : job[s].pc = "store" => safe < job[s].ticket
    /\ inflight = 0 /\ safe < seq => overtaken

\* One MGET never shows part of a group: if one key of it is at or after the group, so is
\* every other, unless the answer is a write of the reader's own connection after its cut.
MgetsNeverTear ==
    \A r \in Readers, g \in Committed : Group(g) =>
        \A k1, k2 \in KeysOf(r) \cap KeysOf(g) :
            LET v1 == unit[r].res[k1]
                v2 == unit[r].res[k2]
            IN  Rank(v1) >= 2 * unit[g].epoch =>
                    \/ Rank(v2) >= 2 * unit[g].epoch
                    \/ v1.by # NoUnit /\ v1.by[1] = r[1] /\ v1.by # g /\ Rank(v1) > 2 * unit[r].cut

\* A connection sees its own past. A read shows the newest write its connection sent before
\* it, or a later one. And two GETs sent one after the other never show a group's write first and then a key as it
\* was before that group, unless the first GET was answered with something newer than its
\* cut: its own promotion may fold versions its unregistered cut does not hold back.
SessionsKeepOrder ==
    /\ \A r \in Readers, w \in Committed :
          w[1] = r[1] /\ w[2] < r[2] =>
              \A k \in KeysOf(r) \cap KeysOf(w) : Rank(unit[r].res[k]) >= 2 * unit[w].epoch
    /\ \A r1, r2 \in {r \in Readers : Kind(r) = "get"}, g \in Committed :
          r1[1] = r2[1] /\ r1[2] < r2[2] /\ Group(g) =>
              \A k1 \in KeysOf(r1) \cap KeysOf(g), k2 \in KeysOf(r2) \cap KeysOf(g) :
                  Rank(unit[r1].res[k1]) \in 2 * unit[g].epoch .. 2 * unit[r1].cut
                      => Rank(unit[r2].res[k2]) >= 2 * unit[g].epoch

\* A read-modify-write builds on every update of its key that was decided when it cloned,
\* and what an aborted group installed is never read, nor carried on by another write.
ClonesAreCurrent ==
    /\ \A u \in Units : \A k \in DOMAIN unit[u].base : \A w \in Committed :
          <<w, k>> \in unit[u].known /\ k \in KeysOf(w) /\ Kind(w) # "mget" =>
              Rank(unit[u].base[k]) >= 2 * unit[w].epoch
    /\ \A r \in Readers : \A k \in KeysOf(r) : \A w \in unit[r].res[k].has :
          w # NoUnit => ~unit[w].aborted

\* Cuts that a connection may still ask shard s about.
Holds(r, s) == unit[r].reg /\ s \in unit[r].todo /\ (io[r[1]] = "run" \/ r # NextUnit(r[1]))
CutsHeld(c, s) == {Max64} \cup {unit[r].cut : r \in {x \in Units : x[1] = c /\ Holds(x, s)}}
Collapsing(s) == AfterPromotion(s, IF job[s].u = NoUnit THEN {} ELSE At(job[s].u, s))
SameAnswers(s, k) ==
    LET after == Collapsing(s)
    IN  \A c \in ConnSet : \A cut \in CutsHeld(c, s) :
            atomic_resolve(after.chain, after.phys, k, cut, c)
                = atomic_resolve(chain[s], phys, k, cut, c)

\* Collapsing entries changes no answer, not the newest value nor the value at any cut a
\* reader still holds, for any connection (atomic_collapse). One exception: an answer may change if an entry that stays is older, by
\* ticket, than an entry of the same key that goes.
CollapseKeepsOrderedKeys ==
    \A s \in Shards : Scanning(s) =>
        LET ch == chain[s]
            n == Len(ch) - Len(Collapsing(s).chain)
        IN  \A k \in {x \in Keys : Home[x] = s} :
                \/ SameAnswers(s, k)
                \/ \E i \in 1 .. n, j \in n + 1 .. Len(ch) :
                      /\ {i, j} \subseteq Occurrences(ch, k)
                      /\ unit[ch[j].u].epoch \in 1 .. unit[ch[i].u].epoch - 1

\* Where the write of u stands, or 0 while it has not landed.
Landed(u) == IF unit[u].epoch # 0 THEN 2 * unit[u].epoch ELSE unit[u].loose

\* Every other write of a key a committed EXEC watched comes after it, except those
\* already in place when the WATCH was armed.
IsFresh(u) ==
    \A k \in unit[u].watched : \A w \in {x \in Units \ {u} : Writes(x, k)} :
        \/ Landed(w) = 0 \/ Landed(w) > Landed(u)
        \/ w \in unit[u].seen[k]

\* A write of a key it watched that came after the WATCH, or another EXEC that watches
\* the same key, which one of the two writes.
HasCause(u) ==
    \E w \in Units \ {u} :
        \/ \E k \in unit[u].watched :
              w \in WrittenBy(k) /\ (k \in DOMAIN unit[u].seen => w \notin unit[u].seen[k])
        \/ unit[w].watched \cap unit[u].watched \cap (KeysOf(u) \cup KeysOf(w)) # {}

\* An EXEC commits only on watched keys that nobody wrote before it, and is refused only
\* for a cause; what an earlier session of the connection met is no cause
\* (watch_validate_and_reserve, reset_watch, next_watch_generation).
ExecVerdictsAreRight ==
    \A u \in {x \in Units : Kind(x) = "exec"} :
        (unit[u].epoch # 0 => IsFresh(u)) /\ (unit[u].aborted => HasCause(u))

\* The units whose open claims hold back the writes of u.
AwaitsClaimOf(u) ==
    UNION {{x.u : x \in {y \in ClaimsOf(reg[k]) : y.u # u /\ y.blocking /\ Fate(y.u) = "open"}}
             : k \in {j \in KeysOf(u) : Home[j] \in unit[u].todo /\ ~HasClaim(reg[j], u)}}

\* An open claim keeps a write waiting only as long as the EXEC that made it needs to decide
\* (the comment on WatchReservation in core/shard.h): no EXECs wait for each other's claims.
ClaimWaitsAreBounded ==
    ~ \E ring \in SUBSET {u \in Units : Kind(u) = "exec" /\ unit[u].unchecked = {} /\ Fate(u) = "open"} :
        ring # {} /\ \A u \in ring : AwaitsClaimOf(u) \cap ring # {}
=============================================================================
