------------------------------ MODULE Blocking ------------------------------
(***************************************************************************)
(* Blocking commands (BLPOP and kin, BLMOVE, XREAD BLOCK): a waiter probes *)
(* its keys on their owners, registers on all of them, parks, and is       *)
(* claimed by the first owner that has something for it, by its deadline,  *)
(* by CLIENT UNBLOCK or by the close of its connection.  The owners share  *)
(* the waiter's BlockingState without a lock; each owner has its own       *)
(* registry of waiters.                                                    *)
(***************************************************************************)
EXTENDS Integers, Sequences, FiniteSets, SequencesExt

CONSTANTS
    Keys,       \* the keys waited for and pushed to
    Shards,     \* one executor owns each
    ShardOf,    \* Router::shard_of
    Programs    \* what clients do: the waiters' commands, plain commands, what is there, what fails

VARIABLES
    prog,       \* the program of this behaviour
    todo,       \* todo[c]: the plain commands client c has still to send
    data,       \* data[k]: the elements of list (or stream) k, oldest first
    st,         \* st[w]: the BlockingState of w and the op it answers
    tasks,      \* tasks[s]: waiters with a task in the lane of shard s
    hops,       \* hops[s]: transferred waiters with a scatter task in that lane
    queue,      \* queue[k]: registry entries, [w, i]: waiter and index of k among its keys
    dirty,      \* dirty[s]: Shard::blocking_dirty_
    ex,         \* ex[s]: what the executor of s is in the middle of
    taken,      \* elements popped by plain commands
    overtaken,  \* elements popped between the two hops of a move of them
    spared,     \* keys last offered to a waiter still registering, or declined by a move
    crossed,    \* waiters announced by a load that ran ahead of the store before it
    late        \* waiters ended by a last look that came after their transfer

state == <<data, st, tasks, hops, queue, dirty, ex>>
ghosts == <<taken, overtaken, spared, crossed, late>>
vars == <<prog, todo, state, ghosts>>

NoIndex == 99
Phases == {"None", "Probe", "NeedRegister", "Registering", "NeedSelected", "Claimed", "Parked",
           "MoveRequested", "Transferred", "Completed", "Cancelled"}

Kind(w) == prog.waits[w].kind
KeysOf(w) == prog.waits[w].keys
Dst(w) == prog.waits[w].dst
Groups(w) == {ShardOf[KeysOf(w)[i]] : i \in DOMAIN KeysOf(w)}
\* A move runs again as a scatter over its source and its destination.
HopGroups(w) == Groups(w) \cup (IF Kind(w) = "move" THEN {ShardOf[Dst(w)]} ELSE {})
IndexesAt(w, s) == {i \in DOMAIN KeysOf(w) : ShardOf[KeysOf(w)[i]] = s}

blocking_phase_live(p) == p \in {"Registering", "Parked"}
has_blocking_waiters(s) == \E k \in Keys : ShardOf[k] = s /\ queue[k] # <<>>
Entries(k) == {queue[k][j].w : j \in DOMAIN queue[k]}

\* pick: the index chosen; k, i: the registry entry looked at; saw: what an announcement has read;
\* from: what it returns to; rest, values: the queues a sweep has left, and whether it serves them;
\* hop: the move whose second hop this service ends.
Idle == [pc |-> "idle", w |-> 0, pick |-> NoIndex, k |-> "none", i |-> 1, saw |-> "none",
         from |-> "none", rest |-> <<>>, values |-> FALSE, hop |-> 0]
NoReply == [kind |-> "none", e |-> 0]
Element(e) == [kind |-> "element", e |-> e]
Nil == [kind |-> "nil", e |-> 0]
Error == [kind |-> "error", e |-> 0]

blocking_prepare(w) ==
    [phase |-> "None", pending |-> 0, active |-> 0, candidate |-> NoIndex, selected |-> 0,
     cancel |-> FALSE, marking |-> FALSE, done |-> FALSE, retired |-> FALSE, reply |-> NoReply,
     probe |-> [i \in DOMAIN KeysOf(w) |-> "Empty"],
     cursor |-> [i \in DOMAIN KeysOf(w) |-> -1], hop |-> 0, left |-> {}, moved |-> 0]

Init ==
    /\ prog \in Programs
    /\ todo = prog.plain
    /\ data = [k \in Keys |-> prog.load[k]]
    /\ st = [w \in DOMAIN prog.waits |-> blocking_prepare(w)]
    /\ tasks = [s \in Shards |-> {}]
    /\ hops = [s \in Shards |-> {}]
    /\ queue = [k \in Keys |-> <<>>]
    /\ dirty = [s \in Shards |-> FALSE]
    /\ ex = [s \in Shards |-> Idle]
    /\ taken = {} /\ overtaken = {} /\ spared = {} /\ crossed = {} /\ late = {}

-----------------------------------------------------------------------------
(* Probing, posting, taking.                                               *)

blocking_probe_key(w, x, i) ==
    LET k == KeysOf(w)[i]
    IN  CASE k \in prog.wrong -> "WrongType"
          [] Kind(w) = "read" ->
                IF x.cursor[i] >= 0 /\ Len(data[k]) > x.cursor[i] THEN "Ready" ELSE "Empty"
          [] OTHER -> IF data[k] = <<>> THEN "Empty" ELSE "Ready"
\* The first probe of a stream fixes what `$` stands for.
Resolved(w, x, is) ==
    [x EXCEPT !.cursor = [i \in DOMAIN @ |-> IF i \in is /\ Kind(w) = "read" /\ @[i] < 0
                                             THEN Len(data[KeysOf(w)[i]]) ELSE @[i]]]
Probed(w, x, is) ==
    LET y == Resolved(w, x, is)
    IN  [y EXCEPT !.probe = [i \in DOMAIN @ |-> IF i \in is THEN blocking_probe_key(w, y, i)
                                                ELSE @[i]]]
\* The lowest key with something to answer, or NoIndex.
blocking_pick(x) ==
    LET found == {i \in DOMAIN x.probe : x.probe[i] # "Empty"}
    IN  IF found = {} THEN NoIndex ELSE CHOOSE i \in found : \A j \in found : i <= j
blocking_reset_probes(x) ==
    [x EXCEPT !.probe = [i \in DOMAIN @ |-> "Empty"], !.candidate = NoIndex]

\* A task is returned to its lane when the lane of another owner is full.
Keep(s, w) == tasks' = [tasks EXCEPT ![s] = @ \cup {w}] /\ ex' = [ex EXCEPT ![s] = Idle]
Leave(s, w) == ex' = [ex EXCEPT ![s] = [Idle EXCEPT !.pc = "leave", !.w = w]]
Without(s, w) == [tasks EXCEPT ![s] = @ \ {w}]

blocking_post_groups(s, w, x, rest) ==
    \/ /\ st' = [st EXCEPT ![w] = [x EXCEPT !.phase = "Registering", !.pending = Cardinality(Groups(w)),
                                            !.active = @ + Cardinality(Groups(w))]]
       /\ tasks' = [r \in Shards |-> IF r \in Groups(w) THEN rest[r] \cup {w} ELSE rest[r]]
       /\ Leave(s, w)
    \/ /\ prog.tight
       /\ st' = [st EXCEPT ![w] = [x EXCEPT !.phase = "NeedRegister"]]
       /\ Keep(s, w)

blocking_post_selected(s, w, x, rest) ==
    \/ /\ st' = [st EXCEPT ![w] = [x EXCEPT !.phase = "Claimed", !.active = @ + 1]]
       /\ LET r == ShardOf[KeysOf(w)[x.selected]]
          IN  tasks' = [rest EXCEPT ![r] = @ \cup {w}]
       /\ Leave(s, w)
    \/ /\ prog.tight
       /\ st' = [st EXCEPT ![w] = [x EXCEPT !.phase = "NeedSelected"]]
       /\ Keep(s, w)

\* xshard_pop_list and the reply: the state of the waiter afterwards, not yet announced.
Popped(w, x) == [x EXCEPT !.reply = IF KeysOf(w)[x.selected] \in prog.wrong THEN Error
                                    ELSE Element(Head(data[KeysOf(w)[x.selected]]))]
PopFrom(k) == IF k \in prog.wrong THEN data ELSE [data EXCEPT ![k] = Tail(@)]
CanRun(k) == k \in prog.wrong \/ data[k] # <<>>

\* The owner's own task keeps active above zero, so the op is announced by task_done.
blocking_run_direct(s, w, x, rest) ==
    LET k == KeysOf(w)[x.selected]
    IN  \/ /\ CanRun(k)
           /\ st' = [st EXCEPT ![w] = [Popped(w, x) EXCEPT !.phase = "Completed"]]
           /\ data' = PopFrom(k)
           /\ tasks' = rest
           /\ Leave(s, w)
        \/ /\ ~CanRun(k)
           /\ blocking_post_groups(s, w, x, rest)
           /\ UNCHANGED data

blocking_dispatch_selected(s, w, x) ==
    \/ /\ Kind(w) \in {"move", "read"}
       /\ st' = [st EXCEPT ![w] = [x EXCEPT !.phase = "MoveRequested"]]
       /\ Leave(s, w)
       /\ UNCHANGED <<data, tasks>>
    \/ /\ Kind(w) = "pop" /\ ShardOf[KeysOf(w)[x.selected]] = s
       /\ blocking_run_direct(s, w, x, tasks)
    \/ /\ Kind(w) = "pop" /\ ShardOf[KeysOf(w)[x.selected]] # s
       /\ blocking_post_selected(s, w, x, tasks)
       /\ UNCHANGED data

-----------------------------------------------------------------------------
(* A blocking task on the executor of shard s.                             *)

blocking_start(w) ==
    /\ st[w].phase = "None"
    /\ st' = [st EXCEPT ![w] = [@ EXCEPT !.phase = "Probe", !.pending = Cardinality(Groups(w)),
                                         !.active = Cardinality(Groups(w))]]
    /\ tasks' = [s \in Shards |-> IF s \in Groups(w) THEN tasks[s] \cup {w} ELSE tasks[s]]
    /\ UNCHANGED <<prog, todo, data, hops, queue, dirty, ex, ghosts>>

Begin(s, w) == ex[s].pc = "idle" /\ w \in tasks[s]
Step(s, w, pc) == ex' = [ex EXCEPT ![s] = [Idle EXCEPT !.pc = pc, !.w = w]]
TaskFrame == UNCHANGED <<prog, todo, hops, dirty, ghosts>>

EnterCancelled(s, w) ==
    /\ Begin(s, w) /\ (st[w].cancel \/ st[w].phase = "Cancelled")
    /\ st' = [st EXCEPT ![w].phase = "Cancelled"]
    /\ tasks' = Without(s, w)
    /\ Leave(s, w)
    /\ TaskFrame /\ UNCHANGED <<data, queue>>

EnterPost(s, w) ==
    /\ Begin(s, w) /\ ~st[w].cancel
    /\ \/ st[w].phase = "NeedRegister" /\ blocking_post_groups(s, w, st[w], Without(s, w))
       \/ st[w].phase = "NeedSelected" /\ blocking_post_selected(s, w, st[w], Without(s, w))
    /\ TaskFrame /\ UNCHANGED <<data, queue>>

EnterClaimed(s, w) ==
    /\ Begin(s, w) /\ ~st[w].cancel /\ st[w].phase = "Claimed"
    /\ blocking_run_direct(s, w, IF CanRun(KeysOf(w)[st[w].selected]) THEN st[w]
                                 ELSE blocking_reset_probes(st[w]), Without(s, w))
    /\ TaskFrame /\ UNCHANGED queue

EnterProbe(s, w) ==
    /\ Begin(s, w) /\ ~st[w].cancel /\ st[w].phase = "Probe"
    /\ st' = [st EXCEPT ![w] = Probed(w, @, IndexesAt(w, s))]
    /\ tasks' = Without(s, w)
    /\ Step(s, w, "arrive")
    /\ TaskFrame /\ UNCHANGED <<data, queue>>

\* Keys found empty are registered; a key with an alias of this waiter keeps it.
blocking_register(s, w, x) ==
    [k \in Keys |->
        IF \E i \in IndexesAt(w, s) : KeysOf(w)[i] = k /\ x.probe[i] = "Empty" /\ w \notin Entries(k)
        THEN Append(queue[k], [w |-> w, i |-> CHOOSE i \in IndexesAt(w, s) : KeysOf(w)[i] = k])
        ELSE queue[k]]
\* Mutant: the keys are registered on what the first round saw.
EnterRegister_blind(s, w) ==
    /\ Begin(s, w) /\ ~st[w].cancel /\ st[w].phase = "Registering"
    /\ tasks' = Without(s, w)
    /\ queue' = blocking_register(s, w, st[w])
    /\ Step(s, w, "arrive")
    /\ TaskFrame /\ UNCHANGED <<data, st>>
EnterRegister(s, w) ==
    /\ Begin(s, w) /\ ~st[w].cancel /\ st[w].phase = "Registering"
    /\ tasks' = Without(s, w)
    /\ \/ LET x == Probed(w, st[w], IndexesAt(w, s))
          IN  /\ st' = [st EXCEPT ![w] = x]
              /\ queue' = blocking_register(s, w, x)
              /\ Step(s, w, "arrive")
       \/ /\ prog.oom                      \* blocking_fail_registration_oom
          /\ st' = [st EXCEPT ![w] = [@ EXCEPT !.phase = "Completed", !.reply = Error]]
          /\ Leave(s, w)
          /\ UNCHANGED queue
    /\ TaskFrame /\ UNCHANGED data

\* Another owner settled the op first.
EnterLate(s, w) ==
    /\ Begin(s, w) /\ ~st[w].cancel
    /\ st[w].phase \in {"Parked", "MoveRequested", "Transferred", "Completed"}
    /\ tasks' = Without(s, w)
    /\ Leave(s, w)
    /\ TaskFrame /\ UNCHANGED <<data, st, queue>>

\* The last owner to arrive decides; finish_probe and finish_registration look at cancel first.
Arrive(s) ==
    LET w == ex[s].w
        x == st[w]
    IN  /\ ex[s].pc = "arrive"
        /\ IF x.phase \in {"Probe", "Registering"}
           THEN /\ st' = [st EXCEPT ![w] =
                            [x EXCEPT !.pending = @ - 1,
                                      !.phase = IF x.pending = 1 /\ x.cancel THEN "Cancelled" ELSE @]]
                /\ Step(s, w, IF x.pending = 1 /\ ~x.cancel THEN "pick" ELSE "leave")
           ELSE Leave(s, w) /\ UNCHANGED st
        /\ TaskFrame /\ UNCHANGED <<data, tasks, queue>>

\* What was probed, or else what a publication offered meanwhile.
Pick(s) ==
    LET x == st[ex[s].w]
        found == blocking_pick(x)
    IN  /\ ex[s].pc = "pick"
        /\ ex' = [ex EXCEPT ![s] = [@ EXCEPT !.pc = "decide",
                    !.pick = IF found = NoIndex /\ x.phase = "Registering" THEN x.candidate ELSE found]]
        /\ TaskFrame /\ UNCHANGED <<data, st, tasks, queue>>

\* The exchange of the phase and what follows from it.
Decide(s) ==
    LET w == ex[s].w
        x == st[w]
        i == ex[s].pick
        y == [x EXCEPT !.selected = i, !.phase = "Claimed"]
    IN  /\ ex[s].pc = "decide"
        /\ \/ /\ x.phase \notin {"Probe", "Registering"}
              /\ Leave(s, w)
              /\ UNCHANGED <<data, st, tasks>>
           \/ /\ x.phase = "Probe" /\ i = NoIndex
              /\ blocking_post_groups(s, w, blocking_reset_probes(x), tasks)
              /\ UNCHANGED data
           \/ /\ x.phase = "Registering" /\ i = NoIndex
              /\ st' = [st EXCEPT ![w].phase = "Parked"]
              /\ Leave(s, w)
              /\ UNCHANGED <<data, tasks>>
           \/ /\ x.phase \in {"Probe", "Registering"} /\ i # NoIndex
              /\ IF x.probe[i] = "WrongType"
                 THEN /\ st' = [st EXCEPT ![w] = [x EXCEPT !.phase = "Completed", !.reply = Error]]
                      /\ Leave(s, w)
                      /\ UNCHANGED <<data, tasks>>
                 ELSE blocking_dispatch_selected(s, w, y)
        /\ TaskFrame /\ UNCHANGED queue

\* blocking_task_done: drop the reference, then look whether the op is over.
DropReference(s) ==
    LET w == ex[s].w
    IN  /\ ex[s].pc = "leave"
        /\ st' = [st EXCEPT ![w].active = @ - 1]
        /\ IF st[w].active = 1 THEN Step(s, w, "settle") ELSE ex' = [ex EXCEPT ![s] = Idle]
        /\ TaskFrame /\ UNCHANGED <<data, tasks, queue>>
blocking_task_done(s) ==
    LET w == ex[s].w
    IN  /\ ex[s].pc = "settle"
        /\ st' = [st EXCEPT ![w] =
                    [@ EXCEPT !.phase = IF st[w].cancel THEN "Cancelled" ELSE @,
                              !.done = @ \/ st[w].cancel \/ st[w].phase \in {"Cancelled", "Completed"}]]
        /\ late' = IF st[w].cancel /\ st[w].phase = "Transferred" THEN late \cup {w} ELSE late
        /\ ex' = [ex EXCEPT ![s] = Idle]
        /\ UNCHANGED <<prog, todo, data, tasks, hops, queue, dirty, taken, overtaken, spared, crossed>>

-----------------------------------------------------------------------------
(* The registry: service after a publication, the sweep of every beat.     *)

\* On to the next queue of the sweep, or back to what the service interrupted.
NextQueue(j) ==
    CASE j.rest # <<>> -> [j EXCEPT !.pc = "sweep", !.k = Head(j.rest), !.rest = Tail(j.rest), !.i = 1]
      [] j.rest = <<>> /\ j.hop # 0 -> [Idle EXCEPT !.pc = "hop", !.w = j.hop]
      [] OTHER -> Idle
Serving(s, k) == [Idle EXCEPT !.pc = "service", !.k = k]
Announce(j, w, saw) == [j EXCEPT !.pc = "publish", !.w = w, !.saw = saw, !.from = j.pc]
remove_at_from_shard(j) == queue' = [queue EXCEPT ![j.k] = RemoveAt(@, j.i)]
Entry(j) == queue[j.k][j.i]
AtEntry(s, pc) == ex[s].pc = pc /\ ex[s].i <= Len(queue[ex[s].k])
Ready(j) == blocking_probe_key(Entry(j).w, st[Entry(j).w], Entry(j).i) = "Ready"
ServiceFrame == UNCHANGED <<prog, todo, tasks, hops, dirty, taken, overtaken, late>>

\* Entries of waiters that are over, or claimed elsewhere, go; a stream's waiter that has nothing to
\* read is passed over; a waiter for an element that is not there ends the service.
ServiceSkip(s) ==
    LET j == ex[s]
    IN  /\ AtEntry(s, "service")
        /\ \/ /\ ~blocking_phase_live(st[Entry(j).w].phase)
              /\ remove_at_from_shard(j)
              /\ UNCHANGED ex
           \/ /\ blocking_phase_live(st[Entry(j).w].phase) /\ ~Ready(j) /\ Kind(Entry(j).w) = "read"
              /\ ex' = [ex EXCEPT ![s].i = @ + 1]
              /\ UNCHANGED queue
        /\ ServiceFrame /\ UNCHANGED <<data, st, spared, crossed>>
ServiceEnd(s) ==
    LET j == ex[s]
    IN  /\ j.pc = "service"
        /\ AtEntry(s, "service") =>
              /\ blocking_phase_live(st[Entry(j).w].phase)
              /\ ~Ready(j) /\ Kind(Entry(j).w) # "read"
        /\ ex' = [ex EXCEPT ![s] = NextQueue(j)]
        /\ spared' = spared \ {j.k}
        /\ ServiceFrame /\ UNCHANGED <<data, st, queue, crossed>>

\* A waiter still registering is told of the key, and left to find it.
ServiceOffer(s) ==
    LET j == ex[s]
        v == Entry(j).w
    IN  /\ AtEntry(s, "service") /\ st[v].phase = "Registering" /\ Ready(j)
        /\ st' = [st EXCEPT ![v].candidate = IF Entry(j).i < @ THEN Entry(j).i ELSE @]
        /\ ex' = [ex EXCEPT ![s].pc = "offered"]
        /\ ServiceFrame /\ UNCHANGED <<data, queue, spared, crossed>>
ServiceOffered(s) ==
    LET j == ex[s]
    IN  /\ j.pc = "offered"
        /\ IF st[Entry(j).w].phase = "Registering"
           THEN ex' = [ex EXCEPT ![s] = NextQueue(j)] /\ spared' = spared \cup {j.k}
           ELSE ex' = [ex EXCEPT ![s].pc = "service"] /\ UNCHANGED spared
        /\ ServiceFrame /\ UNCHANGED <<data, st, queue, crossed>>

\* A parked waiter is claimed: a pop takes its element here and now, a move or a read goes back to
\* the IO thread, and a move ends the service.
ServiceClaim(s) ==
    LET j == ex[s]
        v == Entry(j).w
        x == [st[v] EXCEPT !.selected = Entry(j).i, !.phase = "Claimed"]
    IN  /\ AtEntry(s, "service") /\ st[v].phase = "Parked" /\ Ready(j)
        /\ remove_at_from_shard(j)
        /\ \/ /\ Kind(v) = "pop"
              /\ st' = [st EXCEPT ![v] = Popped(v, x)]
              /\ data' = PopFrom(j.k)
              /\ ex' = [ex EXCEPT ![s] = Announce(j, v, "none")]
           \/ /\ Kind(v) # "pop"
              /\ st' = [st EXCEPT ![v] = [x EXCEPT !.phase = "MoveRequested"]]
              /\ ex' = [ex EXCEPT ![s] = IF Kind(v) = "move" THEN NextQueue(j) ELSE j]
              /\ UNCHANGED data
        /\ ServiceFrame /\ UNCHANGED <<spared, crossed>>

\* blocking_publish_completion: store the phase, then load active.  A release store followed by an
\* acquire load of another location may take effect in the other order.
Announced(j) == [j EXCEPT !.pc = j.from, !.w = 0, !.saw = "none", !.from = "none"]
PublishStore(s) ==
    LET j == ex[s]
    IN  /\ j.pc = "publish" /\ j.saw \in {"none", "idle", "busy"}
        /\ st' = [st EXCEPT ![j.w] = [@ EXCEPT !.phase = "Completed", !.done = @ \/ j.saw = "idle"]]
        /\ ex' = [ex EXCEPT ![s] = IF j.saw = "none" THEN [j EXCEPT !.saw = "stored"] ELSE Announced(j)]
        /\ ServiceFrame /\ UNCHANGED <<data, queue, spared, crossed>>
\* Mutant: the op is announced whatever tasks it still has.
PublishLoad_eager(s) ==
    LET j == ex[s]
    IN  /\ j.pc = "publish" /\ j.saw = "stored"
        /\ st' = [st EXCEPT ![j.w].done = TRUE]
        /\ ex' = [ex EXCEPT ![s] = Announced(j)]
        /\ ServiceFrame /\ UNCHANGED <<data, queue, spared, crossed>>
PublishLoad(s) ==
    LET j == ex[s]
        idle == st[j.w].active = 0
    IN  /\ j.pc = "publish"
        /\ \/ /\ j.saw = "none"
              /\ ex' = [ex EXCEPT ![s].saw = IF idle THEN "idle" ELSE "busy"]
              /\ crossed' = IF idle THEN crossed ELSE crossed \cup {j.w}
              /\ UNCHANGED st
           \/ /\ j.saw = "stored"
              /\ st' = [st EXCEPT ![j.w].done = @ \/ idle]
              /\ ex' = [ex EXCEPT ![s] = Announced(j)]
              /\ UNCHANGED crossed
        /\ ServiceFrame /\ UNCHANGED <<data, queue, spared>>

\* blocking_owner_cycle: every beat, every queue of the shard; the values only if dirty.
blocking_owner_cycle(s) ==
    /\ ex[s].pc = "idle" /\ has_blocking_waiters(s)
    /\ LET qs == SetToSeq({k \in Keys : ShardOf[k] = s /\ queue[k] # <<>>})
       IN  ex' = [ex EXCEPT ![s] = NextQueue([Idle EXCEPT !.rest = qs, !.values = dirty[s]])]
    /\ dirty' = [dirty EXCEPT ![s] = FALSE]
    /\ UNCHANGED <<prog, todo, data, st, tasks, hops, queue, ghosts>>
SweepDead(s) ==
    LET j == ex[s]
        v == Entry(j).w
        dropped == st[v].cancel /\ blocking_phase_live(st[v].phase)
    IN  /\ AtEntry(s, "sweep") /\ (dropped \/ ~blocking_phase_live(st[v].phase))
        /\ st' = IF dropped
                 THEN [st EXCEPT ![v] = [@ EXCEPT !.phase = "Cancelled", !.done = @ \/ st[v].active = 0]]
                 ELSE st
        /\ remove_at_from_shard(j)
        /\ ServiceFrame /\ UNCHANGED <<data, ex, spared, crossed>>
SweepExpired(s) ==
    LET j == ex[s]
        v == Entry(j).w
    IN  /\ AtEntry(s, "sweep") /\ ~st[v].cancel /\ st[v].phase = "Parked" /\ prog.waits[v].timed
        /\ st' = [st EXCEPT ![v] = [@ EXCEPT !.phase = "Completed", !.reply = Nil]]
        /\ remove_at_from_shard(j)
        /\ ex' = [ex EXCEPT ![s] = Announce(j, v, "stored")]
        /\ ServiceFrame /\ UNCHANGED <<data, spared, crossed>>
SweepPass(s) ==
    LET j == ex[s]
    IN  /\ j.pc = "sweep"
        /\ AtEntry(s, "sweep") => ~st[Entry(j).w].cancel /\ blocking_phase_live(st[Entry(j).w].phase)
        /\ ex' = [ex EXCEPT ![s] =
                    IF AtEntry(s, "sweep") THEN [j EXCEPT !.i = @ + 1]
                    ELSE IF j.values /\ queue[j.k] # <<>> THEN [j EXCEPT !.pc = "service", !.i = 1]
                    ELSE NextQueue(j)]
        /\ ServiceFrame /\ UNCHANGED <<data, st, queue, spared, crossed>>

-----------------------------------------------------------------------------
(* The IO thread of the waiter.                                            *)

IoFrame == UNCHANGED <<prog, todo, data, queue, ex, taken, overtaken, spared, crossed, late>>

\* CLIENT UNBLOCK or the close of the connection; a transferred command is no longer blocking.
Cancel(w) ==
    /\ w \in prog.cancels /\ ~st[w].cancel /\ ~st[w].retired
    /\ st[w].phase \notin {"None", "Transferred"}
    /\ st' = [st EXCEPT ![w] = [@ EXCEPT !.cancel = TRUE, !.marking = TRUE]]
    /\ IoFrame /\ UNCHANGED <<tasks, hops, dirty>>
blocking_cancel_client(w) ==
    LET over == st[w].phase = "MoveRequested" /\ st[w].active = 0
    IN  /\ st[w].marking
        /\ dirty' = [s \in Shards |-> dirty[s] \/ (s \in Groups(w) /\ has_blocking_waiters(s))]
        /\ st' = [st EXCEPT ![w] = [@ EXCEPT !.marking = FALSE, !.done = @ \/ over,
                                              !.phase = IF over THEN "Cancelled" ELSE @]]
        /\ IoFrame /\ UNCHANGED <<tasks, hops>>

\* A claimed move or read runs again as an ordinary scatter.
blocking_resume_move(w) ==
    /\ st[w].phase = "MoveRequested" /\ st[w].active = 0 /\ ~st[w].marking /\ ~st[w].retired
    /\ st' = [st EXCEPT ![w] = [@ EXCEPT !.phase = "Transferred", !.hop = 1, !.left = HopGroups(w)]]
    /\ hops' = [s \in Shards |-> IF s \in HopGroups(w) THEN hops[s] \cup {w} ELSE hops[s]]
    /\ IoFrame /\ UNCHANGED <<tasks, dirty>>

blocking_retire(w) ==
    /\ st[w].done /\ ~st[w].retired /\ ~st[w].marking
    /\ st' = [st EXCEPT ![w] = [@ EXCEPT !.retired = TRUE,
                                          !.reply = IF @ = NoReply /\ st[w].cancel THEN Nil ELSE @]]
    /\ IoFrame /\ UNCHANGED <<tasks, hops, dirty>>

-----------------------------------------------------------------------------
(* The scatter a move or a read became: look, then (a move) act.           *)

Done(x, r) == [x EXCEPT !.done = TRUE, !.reply = r]
\* The last shard of the first hop answers, or sends the second.
HopDecided(w, x) ==
    CASE x.left # {} -> x
      [] x.left = {} /\ Kind(w) = "read" ->
            Done(x, Element(data[KeysOf(w)[x.selected]][x.cursor[x.selected] + 1]))
      [] x.left = {} /\ Kind(w) = "move" /\ Dst(w) \in prog.wrong -> Done(x, Error)
      [] x.left = {} /\ Kind(w) = "move" /\ x.moved = 0 -> Done(x, Nil)
      [] OTHER -> [x EXCEPT !.hop = 2, !.left = HopGroups(w)]
FirstHop(s, w) ==
    LET k == KeysOf(w)[1]
        x == HopDecided(w, [st[w] EXCEPT !.left = @ \ {s},
                              !.moved = IF Kind(w) = "move" /\ ShardOf[k] = s /\ data[k] # <<>>
                                        THEN Head(data[k]) ELSE @])
    IN  /\ ex[s].pc = "idle" /\ w \in hops[s] /\ st[w].hop = 1
        /\ st' = [st EXCEPT ![w] = x]
        /\ hops' = [r \in Shards |-> IF x.hop = 2 /\ r \in x.left THEN hops[r] \cup {w}
                                     ELSE IF r = s THEN hops[r] \ {w} ELSE hops[r]]
        /\ spared' = IF Kind(w) = "move" /\ x.done THEN spared \cup {k} ELSE spared
        /\ UNCHANGED <<prog, todo, data, tasks, queue, dirty, ex, taken, overtaken, crossed, late>>

\* Mutant: the source drops whatever is at its end now.
SecondHop_front(s, w) ==
    LET e == st[w].moved
        k == IF s = ShardOf[Dst(w)] THEN Dst(w) ELSE KeysOf(w)[1]
    IN  /\ ex[s].pc = "idle" /\ w \in hops[s] /\ st[w].hop = 2
        /\ hops' = [hops EXCEPT ![s] = @ \ {w}]
        /\ data' = [data EXCEPT ![k] = IF k = Dst(w) THEN Append(@, e) ELSE IF @ = <<>> THEN @ ELSE Tail(@)]
        /\ ex' = [ex EXCEPT ![s] = IF queue[k] = <<>> THEN [Idle EXCEPT !.pc = "hop", !.w = w]
                                   ELSE [Serving(s, k) EXCEPT !.hop = w]]
        /\ UNCHANGED <<prog, todo, st, tasks, queue, dirty, ghosts>>
\* The source drops the element it showed, wherever it is now; the destination takes it regardless.
SecondHop(s, w) ==
    LET e == st[w].moved
        k == IF s = ShardOf[Dst(w)] THEN Dst(w) ELSE KeysOf(w)[1]
    IN  /\ ex[s].pc = "idle" /\ w \in hops[s] /\ st[w].hop = 2
        /\ hops' = [hops EXCEPT ![s] = @ \ {w}]
        /\ data' = [data EXCEPT ![k] = IF k = Dst(w) THEN Append(@, e) ELSE SelectSeq(@, LAMBDA f : f # e)]
        /\ overtaken' = IF k # Dst(w) /\ ~Contains(data[k], e) THEN overtaken \cup {e} ELSE overtaken
        /\ ex' = [ex EXCEPT ![s] = IF queue[k] = <<>> THEN [Idle EXCEPT !.pc = "hop", !.w = w]
                                   ELSE [Serving(s, k) EXCEPT !.hop = w]]
        /\ UNCHANGED <<prog, todo, st, tasks, queue, dirty, taken, spared, crossed, late>>
HopEnd(s) ==
    LET w == ex[s].w
    IN  /\ ex[s].pc = "hop"
        /\ st' = [st EXCEPT ![w] = IF @.left = {s} THEN Done([@ EXCEPT !.left = {}], Element(@.moved))
                                   ELSE [@ EXCEPT !.left = @ \ {s}]]
        /\ ex' = [ex EXCEPT ![s] = Idle]
        /\ UNCHANGED <<prog, todo, data, tasks, hops, queue, dirty, ghosts>>

-----------------------------------------------------------------------------
(* Plain commands of other clients, executed by the owner of their key.    *)

PlainPush(c) ==
    /\ todo[c] # <<>> /\ Head(todo[c]).op = "push"
    /\ LET k == Head(todo[c]).k
           s == ShardOf[k]
       IN  /\ ex[s].pc = "idle"
           /\ data' = [data EXCEPT ![k] = @ \o Head(todo[c]).es]
           /\ ex' = IF queue[k] = <<>> THEN ex ELSE [ex EXCEPT ![s] = Serving(s, k)]
    /\ todo' = [todo EXCEPT ![c] = Tail(@)]
    /\ UNCHANGED <<prog, st, tasks, hops, queue, dirty, ghosts>>
PlainPop(c) ==
    /\ todo[c] # <<>> /\ Head(todo[c]).op = "pop"
    /\ LET k == Head(todo[c]).k
       IN  /\ ex[ShardOf[k]].pc = "idle"
           /\ data' = [data EXCEPT ![k] = IF @ = <<>> THEN @ ELSE Tail(@)]
           /\ taken' = IF data[k] = <<>> THEN taken ELSE taken \cup {Head(data[k])}
    /\ todo' = [todo EXCEPT ![c] = Tail(@)]
    /\ UNCHANGED <<prog, st, tasks, hops, queue, dirty, ex, overtaken, spared, crossed, late>>

Executor(s) ==
    \/ \E w \in DOMAIN st :
          \/ EnterCancelled(s, w) \/ EnterPost(s, w) \/ EnterClaimed(s, w) \/ EnterProbe(s, w)
          \/ EnterRegister(s, w) \/ EnterLate(s, w) \/ FirstHop(s, w) \/ SecondHop(s, w)
    \/ Arrive(s) \/ Pick(s) \/ Decide(s) \/ DropReference(s) \/ blocking_task_done(s)
    \/ ServiceSkip(s) \/ ServiceEnd(s) \/ ServiceOffer(s) \/ ServiceOffered(s) \/ ServiceClaim(s)
    \/ PublishStore(s) \/ PublishLoad(s)
    \/ blocking_owner_cycle(s) \/ SweepDead(s) \/ SweepExpired(s) \/ SweepPass(s)
    \/ HopEnd(s)
Io(w) == blocking_start(w) \/ Cancel(w) \/ blocking_cancel_client(w) \/ blocking_resume_move(w)
         \/ blocking_retire(w)
Next ==
    \/ \E s \in Shards : Executor(s)
    \/ \E w \in DOMAIN st : Io(w)
    \/ \E c \in DOMAIN todo : PlainPush(c) \/ PlainPop(c)

Spec == Init /\ [][Next]_vars

-----------------------------------------------------------------------------
(* Properties.                                                             *)

Jobs == {"idle", "arrive", "pick", "decide", "leave", "settle", "service", "offered", "publish",
         "sweep", "hop"}
\* Shapes of the shared state: counters never run below zero, one entry per waiter and queue.
TypeOK ==
    /\ \A w \in DOMAIN st :
          /\ st[w].phase \in Phases
          /\ st[w].pending \in 0 .. Cardinality(Shards)
          /\ st[w].active \in 0 .. 2 * Cardinality(Shards)
          /\ st[w].candidate \in DOMAIN KeysOf(w) \cup {NoIndex}
    /\ \A s \in Shards : ex[s].pc \in Jobs /\ tasks[s] \cup hops[s] \subseteq DOMAIN st
    /\ \A k \in Keys : Cardinality(Entries(k)) = Len(queue[k])

Busy(w) == \E s \in Shards :
    \/ w \in tasks[s]
    \/ ex[s].w = w /\ ex[s].pc \in {"arrive", "pick", "decide", "leave", "settle", "publish"}
Scattered(w) == \E s \in Shards : w \in hops[s] \/ ex[s].hop = w \/ (ex[s].w = w /\ ex[s].pc = "hop")

\* Someone is on the way to the waiters of k.
Owed(k) ==
    LET s == ShardOf[k]
    IN  \/ ex[s].pc \in {"service", "publish", "offered"} /\ ex[s].k = k
        \/ dirty[s]
        \/ ex[s].values /\ (ex[s].k = k \/ Contains(ex[s].rest, k))
        \/ \E m \in DOMAIN st : /\ Kind(m) = "move" /\ KeysOf(m)[1] = k
                                /\ ~st[m].done /\ st[m].phase \in {"MoveRequested", "Transferred"}

\* A list with elements and a waiter parked on it do not rest beside each other: someone is on the
\* way to serve the queue (its owner is at it, a beat has been asked for, a move of the list's head
\* has a second hop to come).  Left out: a key offered to a waiter that was still registering, which
\* may park without looking again, take the element of another key, or take one element of several;
\* and a key whose move ended without taking its element.
WaitersAreServed ==
    \A k \in Keys \ spared : \A j \in DOMAIN queue[k] :
        LET v == queue[k][j].w
        IN  st[v].phase = "Parked" /\ blocking_probe_key(v, st[v], queue[k][j].i) = "Ready"
              => Owed(k)

\* Where an element may be.
Lists == {k \in Keys : \A w \in DOMAIN st : Kind(w) = "read" => ~Contains(KeysOf(w), k)}
Pushed == UNION {Range(prog.load[k]) : k \in Lists}
    \cup UNION {UNION {Range(prog.plain[c][n].es) : n \in {n \in 1 .. Len(prog.plain[c]) - Len(todo[c]) :
                                                              prog.plain[c][n].op = "push"
                                                              /\ prog.plain[c][n].k \in Lists}}
                : c \in DOMAIN todo}
Moving(e) == \E w \in DOMAIN st : st[w].moved = e /\ st[w].hop = 2 /\ st[w].left # {}
Holders(e) ==
    {<<"list", k>> : k \in {k \in Lists : Contains(data[k], e)}}
    \cup {<<"reply", w>> : w \in {w \in DOMAIN st : st[w].reply = Element(e) /\ Kind(w) = "pop"}}
    \cup {<<"plain", 0>> : c \in {c \in {e} : e \in taken}}

\* Every element pushed is in exactly one place: a list, the reply of one waiter, or with a plain
\* command.  Left out: an element popped between the hops of a move of it, which the move delivers
\* a second time.
ElementsAreKept ==
    \A e \in Pushed : /\ Moving(e) \/ Holders(e) # {}
                      /\ Cardinality(Holders(e)) > 1 => e \in overtaken \/ Moving(e)

\* An op is announced to its IO thread when, and only when, nothing of it is left on an executor:
\* never while one of its tasks is queued or running, and a waiter not yet announced has something
\* that will bring it to its end (a task, an entry in the registry of each of its keys, its IO
\* thread).  Left out: an announcement whose load of active ran ahead of its store of the phase; and
\* the last look of blocking_task_done or of blocking_publish_completion, which may come after
\* the other has announced the op (or, for a cancelled move, after its transfer).
DoneWhenFinished ==
    \A w \in DOMAIN st \ late :
        LET x == st[w]
        IN  IF x.done
            THEN /\ \A s \in Shards : /\ w \notin tasks[s]
                                      /\ ex[s].w = w => ex[s].pc \in {"settle", "publish"}
                 /\ ~Scattered(w)
            ELSE \/ x.phase = "None" \/ w \in crossed \/ Busy(w)
                 \/ x.phase = "Parked" /\ \A i \in DOMAIN KeysOf(w) : w \in Entries(KeysOf(w)[i])
                 \/ x.phase = "MoveRequested" /\ x.active = 0
                 \/ x.phase = "Transferred" /\ Scattered(w)
=============================================================================
