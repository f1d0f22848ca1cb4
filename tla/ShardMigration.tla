--------------------------- MODULE ShardMigration ---------------------------
(***************************************************************************)
(* The load balancer's migration of a shard from one executor to another   *)
(* (core/server.h, core/io_loop.h, core/ex_loop.h, core/shard.h).          *)
(* The coordinator, one of the IO threads, publishes IoDrain; once every   *)
(* IO thread has left its parse pass it publishes ExDrain; once every      *)
(* executor has found itself quiescent it moves the shard and publishes    *)
(* Idle. A drain that takes too long is withdrawn, and so is one that a    *)
(* FLIP request meets. Borrow releases are not paused: one may reach the   *)
(* old owner after the move, and is forwarded, as a task would be.         *)
(***************************************************************************)
EXTENDS Integers, Sequences, Functions, FiniteSets

CONSTANTS
    IOs, Executors, Shards,
    Coordinator,  \* the IO thread that runs the balancer
    LaneCap,      \* tasks a producer's lane holds
    MaxTasks,     \* MaxTasks[i]: bound on the tasks IO thread i sends to a shard
    MaxReleases,  \* MaxReleases[i]: bound on the borrow releases it sends
    MaxEpochs,    \* bound on the drains started
    MaxFlips      \* bound on the FLIP requests

ASSUME MigrationAssumption ==
    /\ Coordinator \in IOs /\ IOs \cap Executors = {}
    /\ IsFiniteSet(IOs) /\ IsFiniteSet(Executors)
    /\ LaneCap \in Nat /\ MaxTasks \in [IOs -> Nat] /\ MaxReleases \in [IOs -> Nat]
    /\ MaxEpochs \in Nat /\ MaxFlips \in Nat

VARIABLES
    stage, epoch,  \* LbStage and lb_epoch_
    ack,       \* ack[t]: the epoch and stage thread t acknowledged last
    flip,      \* a FLIP is past its planning stage
    flips,     \* FLIP requests so far
    plan,      \* lb_shard_moves_: the shard, its source and its destination
    owner,     \* owner[s]: the router's entry and shard_owner_
    member,    \* member[e]: the shards() vector of executor e
    lane,      \* lane[p][e]: tasks from producer p to executor e
    release,   \* release[p][e]: borrow releases from producer p to executor e
    stale, staleRel, \* tasks and releases whose forwarding was refused
    io,        \* io[i]: the place of an IO thread and what it has sampled
    ex,        \* ex[e]: the place of an executor in its pass
    sent,      \* sent[i][s]: tasks IO thread i has sent to shard s
    executed,  \* the tasks that have been executed
    borrows,   \* releases not yet sent, per IO thread
    applied,   \* releases the owner has applied
    look,      \* look[e]: the epoch in which executor e found itself quiescent
    late,      \* an executor has acknowledged a later drain than it looked at
    withdrawn  \* a FLIP has withdrawn a drain under the coordinator's hands

vars == <<stage, epoch, ack, flip, flips, plan, owner, member, lane, release,
          stale, staleRel, io, ex, sent, executed, borrows, applied, look,
          late, withdrawn>>
queues == <<lane, release, stale, staleRel>>
places == <<owner, member, plan>>
work == <<sent, executed, borrows, applied>>
control == <<stage, epoch, ack, flip, flips, look, late, withdrawn>>

Threads == IOs \cup Executors
NoAck == <<0, "Idle">>
NoPlan == [shard |-> "none", source |-> "none", dest |-> "none"]
Task(i, s, n) == [io |-> i, shard |-> s, n |-> n]
At(place) == [at |-> place, shard |-> "none", target |-> "none"]
AtLoop == At("loop")

Init ==
    /\ stage = "Idle" /\ epoch = 0 /\ ack = [t \in Threads |-> NoAck]
    /\ flip = FALSE /\ flips = 0 /\ plan = NoPlan
    /\ owner \in [Shards -> Executors]
    /\ member = [e \in Executors |-> {s \in Shards : owner[s] = e}]
    /\ lane = [p \in Threads |-> [e \in Executors |-> <<>>]]
    /\ release = [p \in Threads |-> [e \in Executors |-> <<>>]]
    /\ stale = [e \in Executors |-> <<>>] /\ staleRel = [e \in Executors |-> <<>>]
    /\ io = [i \in IOs |-> AtLoop]
    /\ ex = [e \in Executors |-> "top"]
    /\ sent = [i \in IOs |-> [s \in Shards |-> 0]]
    /\ executed = {}
    /\ borrows = MaxReleases /\ applied = 0
    /\ look = [e \in Executors |-> 0]
    /\ late = FALSE /\ withdrawn = FALSE

\* lb_dispatch_paused and flip_dispatch_paused
DispatchPaused == stage \in {"IoDrain", "ExDrain"} \/ flip

Acked(t) == ack[t] = <<epoch, stage>>
lb_all_io_acked == \A i \in IOs : Acked(i)
lb_all_ex_acked == \A e \in Executors : Acked(e)

-----------------------------------------------------------------------------
(* IO threads. *)

\* parse_and_dispatch samples the owner of a key; the pause was tested at the
\* start of the parse pass, and no drain can pass this thread before its end.
SampleOwner(i, s) ==
    /\ io[i].at = "loop" /\ ~DispatchPaused /\ sent[i][s] < MaxTasks[i]
    /\ io' = [io EXCEPT ![i] = [at |-> "post", shard |-> s, target |-> owner[s]]]
    /\ UNCHANGED <<control, places, queues, ex, work>>

\* The task is posted, or the lane is full and the frame is parsed again later.
PostTask(i) ==
    /\ io[i].at = "post"
    /\ LET s == io[i].shard
           e == io[i].target
           t == Task(i, s, sent[i][s] + 1)
       IN  \/ /\ Len(lane[i][e]) < LaneCap
              /\ lane' = [lane EXCEPT ![i][e] = Append(@, t)]
              /\ sent' = [sent EXCEPT ![i][s] = @ + 1]
           \/ /\ Len(lane[i][e]) = LaneCap
              /\ UNCHANGED <<lane, sent>>
    /\ io' = [io EXCEPT ![i] = AtLoop]
    /\ UNCHANGED <<control, places, release, stale, staleRel, ex, executed, borrows, applied>>

\* flush_borrow_releases, after a send completion: not paused by a drain.
SampleRelease(i, s) ==
    /\ io[i].at = "loop" /\ borrows[i] > 0
    /\ io' = [io EXCEPT ![i] = [at |-> "release", shard |-> s, target |-> owner[s]]]
    /\ UNCHANGED <<control, places, queues, ex, work>>

PostRelease(i) ==
    /\ io[i].at = "release"
    /\ LET e == io[i].target IN
        \/ /\ Len(release[i][e]) < LaneCap
           /\ release' = [release EXCEPT ![i][e] = Append(@, io[i].shard)]
           /\ borrows' = [borrows EXCEPT ![i] = @ - 1]
        \/ /\ Len(release[i][e]) = LaneCap
           /\ UNCHANGED <<release, borrows>>
    /\ io' = [io EXCEPT ![i] = AtLoop]
    /\ UNCHANGED <<control, places, lane, stale, staleRel, ex, sent, executed, applied>>

\* A FLIP command met in a parse pass; flip_begin is called further on.
ParseFlip(i) ==
    /\ io[i].at = "loop" /\ ~DispatchPaused /\ flips < MaxFlips
    /\ io' = [io EXCEPT ![i] = At("flip")]
    /\ flips' = flips + 1
    /\ UNCHANGED <<stage, epoch, ack, flip, look, late, withdrawn, places, queues, ex, work>>

\* flip_begin withdraws a drain, and is then refused or starts its own stages.
flip_begin ==
    /\ stage' = IF stage \in {"IoDrain", "ExDrain"} THEN "Idle" ELSE stage
    /\ flip' \in (IF flip THEN {TRUE} ELSE BOOLEAN)

CommandFlip(i) ==
    /\ io[i].at = "flip"
    /\ flip_begin
    /\ io' = [io EXCEPT ![i] = AtLoop]
    /\ UNCHANGED <<epoch, ack, flips, look, late, withdrawn, places, queues, ex, work>>

\* issue_flip, on the main thread (--flip-auto): the coordinator may be in the
\* middle of a step.
issue_flip ==
    /\ flips < MaxFlips
    /\ flip_begin
    /\ flips' = flips + 1
    /\ withdrawn' = (withdrawn \/ (stage' # stage /\ io[Coordinator].at # "loop"))
    /\ UNCHANGED <<epoch, ack, look, late, places, queues, io, ex, work>>

\* The FLIP ends. It cannot before every IO thread has drained.
FlipEnds ==
    /\ flip /\ flip' = FALSE
    /\ \A i \in IOs : io[i].at = "loop"
    /\ UNCHANGED <<stage, epoch, ack, flips, look, late, withdrawn, places, queues, io, ex, work>>

\* lb_control_pass of an IO thread: it is outside dispatch.
IoAck(i) ==
    /\ io[i].at = "loop" /\ stage = "IoDrain" /\ ~Acked(i)
    /\ ack' = [ack EXCEPT ![i] = <<epoch, stage>>]
    /\ UNCHANGED <<stage, epoch, flip, flips, look, late, withdrawn, places, queues, io, ex, work>>

-----------------------------------------------------------------------------
(* The coordinator. *)

Coordinating(at) == io[Coordinator].at = at
Goto(place) == io' = [io EXCEPT ![Coordinator] = At(place)]

\* lb_controller_tick: a plan is published under the transition lock.
lb_controller_tick ==
    /\ Coordinating("loop") /\ stage = "Idle" /\ ~flip /\ epoch < MaxEpochs
    /\ \E s \in Shards : \E d \in Executors \ {owner[s]} :
        plan' = [shard |-> s, source |-> owner[s], dest |-> d]
    /\ ack' = [t \in Threads |-> NoAck]
    /\ epoch' = epoch + 1
    /\ stage' = "IoDrain"
    /\ UNCHANGED <<flip, flips, look, late, withdrawn, owner, member, queues, io, ex, work>>

\* lb_begin_ex_drain: the test, and then the store.
lb_begin_ex_drain == Coordinating("loop") /\ stage = "IoDrain" /\ lb_all_io_acked

BeginExDrain ==
    /\ lb_begin_ex_drain
    /\ Goto("begin")
    /\ UNCHANGED <<control, places, queues, ex, work>>

PublishExDrain ==
    /\ Coordinating("begin")
    /\ stage' = "ExDrain"
    /\ Goto("loop")
    /\ UNCHANGED <<epoch, ack, flip, flips, look, late, withdrawn, places, queues, ex, work>>

\* lb_stage_timed_out: some thread has not acknowledged for too long.
lb_stage_timed_out ==
    /\ Coordinating("loop")
    /\ \/ stage = "IoDrain" /\ ~lb_all_io_acked
       \/ stage = "ExDrain" /\ ~lb_all_ex_acked
    /\ stage' = "Idle"
    /\ UNCHANGED <<epoch, ack, flip, flips, look, late, withdrawn, places, queues, io, ex, work>>

MayCommit_early == stage = "ExDrain" /\ \E e \in Executors : Acked(e)

MayCommit == stage = "ExDrain" /\ lb_all_ex_acked

\* lb_commit_shard_plan: no capacity at the destination ends the drain.
lb_commit_shard_plan ==
    /\ Coordinating("loop") /\ MayCommit
    /\ \/ Goto("commit") /\ UNCHANGED stage
       \/ stage' = "Idle" /\ UNCHANGED io
    /\ UNCHANGED <<epoch, ack, flip, flips, look, late, withdrawn, places, queues, ex, work>>

\* transfer_shard_quiesced, up to the ownership edge: the vectors change hands.
MoveMembership ==
    /\ Coordinating("commit")
    /\ member' = [member EXCEPT ![plan.source] = @ \ {plan.shard},
                                ![plan.dest] = @ \cup {plan.shard}]
    /\ Goto("publish")
    /\ UNCHANGED <<control, owner, plan, queues, ex, work>>

\* commit_transfer and the store to shard_owner_.
commit_transfer ==
    /\ Coordinating("publish")
    /\ owner' = [owner EXCEPT ![plan.shard] = plan.dest]
    /\ Goto("finish")
    /\ UNCHANGED <<control, member, plan, queues, ex, work>>

FinishCommit ==
    /\ Coordinating("finish")
    /\ stage' = "Idle"
    /\ Goto("loop")
    /\ UNCHANGED <<epoch, ack, flip, flips, look, late, withdrawn, places, queues, ex, work>>

-----------------------------------------------------------------------------
(* Executors. *)

\* The top of a pass: an executor that has acknowledged touches nothing.
StartPass(e) ==
    /\ ex[e] = "top"
    /\ ~(stage \in {"IoDrain", "ExDrain"} /\ Acked(e))
    /\ ex' = [ex EXCEPT ![e] = "work"]
    /\ UNCHANGED <<control, places, queues, io, work>>

RunTask_drops(e, t, ln) ==
    /\ executed' = IF owner[t.shard] = e THEN executed \cup {t} ELSE executed
    /\ lane' = IF owner[t.shard] # e /\ Len(ln[e][owner[t.shard]]) < LaneCap
               THEN [ln EXCEPT ![e][owner[t.shard]] = Append(@, t)] ELSE ln
    /\ UNCHANGED stale

\* execute, forward_stale_task: the owner is read again before any access.
RunTask(e, t, ln) ==
    \/ /\ owner[t.shard] = e
       /\ executed' = executed \cup {t}
       /\ lane' = ln
       /\ UNCHANGED stale
    \/ /\ owner[t.shard] # e
       /\ UNCHANGED executed
       /\ LET d == owner[t.shard] IN
          IF Len(ln[e][d]) < LaneCap
          THEN lane' = [ln EXCEPT ![e][d] = Append(@, t)] /\ UNCHANGED stale
          ELSE lane' = ln /\ stale' = [stale EXCEPT ![e] = Append(@, t)]

drain_tasks(e, p) ==
    /\ ex[e] = "work" /\ lane[p][e] # <<>>
    /\ RunTask(e, Head(lane[p][e]), [lane EXCEPT ![p][e] = Tail(@)])
    /\ UNCHANGED <<control, places, release, staleRel, io, ex, sent, borrows, applied>>

\* service_stale_forwards, for tasks: the oldest one is tried again.
ServiceStale(e) ==
    /\ ex[e] = "work" /\ stale[e] # <<>>
    /\ LET t == Head(stale[e])
           d == owner[t.shard]
       IN  IF d = e
           THEN executed' = executed \cup {t} /\ UNCHANGED lane
           ELSE /\ Len(lane[e][d]) < LaneCap
                /\ lane' = [lane EXCEPT ![e][d] = Append(@, t)]
                /\ UNCHANGED executed
    /\ stale' = [stale EXCEPT ![e] = Tail(@)]
    /\ UNCHANGED <<control, places, release, staleRel, io, ex, sent, borrows, applied>>

\* drain_releases, forward_stale_release
drain_releases(e, p) ==
    /\ ex[e] = "work" /\ release[p][e] # <<>>
    /\ LET s == Head(release[p][e])
           d == owner[s]
           rest == [release EXCEPT ![p][e] = Tail(@)]
       IN  IF d = e THEN release' = rest /\ applied' = applied + 1 /\ UNCHANGED staleRel
           ELSE IF Len(rest[e][d]) < LaneCap
           THEN release' = [rest EXCEPT ![e][d] = Append(@, s)] /\ UNCHANGED <<applied, staleRel>>
           ELSE /\ release' = rest /\ staleRel' = [staleRel EXCEPT ![e] = Append(@, s)]
                /\ UNCHANGED applied
    /\ UNCHANGED <<control, places, lane, stale, io, ex, sent, executed, borrows>>

ServiceStaleRelease(e) ==
    /\ ex[e] = "work" /\ staleRel[e] # <<>>
    /\ LET s == Head(staleRel[e])
           d == owner[s]
       IN  IF d = e THEN applied' = applied + 1 /\ UNCHANGED release
           ELSE /\ Len(release[e][d]) < LaneCap
                /\ release' = [release EXCEPT ![e][d] = Append(@, s)]
                /\ UNCHANGED applied
    /\ staleRel' = [staleRel EXCEPT ![e] = Tail(@)]
    /\ UNCHANGED <<control, places, lane, stale, io, ex, sent, executed, borrows>>

flip_quiesced_stale_only(e) == stale[e] = <<>> /\ staleRel[e] = <<>>

\* flip_quiesced: nothing queued, nothing waiting to be forwarded.
flip_quiesced(e) ==
    /\ \A p \in Threads : lane[p][e] = <<>> /\ release[p][e] = <<>>
    /\ stale[e] = <<>> /\ staleRel[e] = <<>>

\* lb_control_pass ends an executor's pass: it looks at its queues ...
ControlPass(e) ==
    /\ ex[e] = "work"
    /\ \/ /\ stage = "ExDrain" /\ ~Acked(e) /\ flip_quiesced(e)
          /\ ex' = [ex EXCEPT ![e] = "ack"]
          /\ look' = [look EXCEPT ![e] = epoch]
       \/ /\ ~(stage = "ExDrain" /\ ~Acked(e) /\ flip_quiesced(e))
          /\ ex' = [ex EXCEPT ![e] = "top"]
          /\ UNCHANGED look
    /\ UNCHANGED <<stage, epoch, ack, flip, flips, late, withdrawn, places, queues, io, work>>

\* ... and acknowledges the epoch and the stage that are current by then.
lb_ack(e) ==
    /\ ex[e] = "ack"
    /\ ack' = [ack EXCEPT ![e] = <<epoch, stage>>]
    /\ ex' = [ex EXCEPT ![e] = "top"]
    /\ late' = (late \/ (stage = "ExDrain" /\ epoch # look[e]))
    /\ look' = [look EXCEPT ![e] = 0]
    /\ UNCHANGED <<stage, epoch, flip, flips, withdrawn, places, queues, io, work>>

-----------------------------------------------------------------------------
IoStep(i) == PostTask(i) \/ PostRelease(i) \/ CommandFlip(i) \/ IoAck(i)

CoordinatorStep ==
    \/ BeginExDrain \/ PublishExDrain \/ lb_stage_timed_out \/ lb_commit_shard_plan
    \/ MoveMembership \/ commit_transfer \/ FinishCommit

\* One item of one of the executor's queues is handled.
Drain(e) ==
    \/ ServiceStale(e) \/ ServiceStaleRelease(e)
    \/ \E p \in Threads : drain_tasks(e, p) \/ drain_releases(e, p)

ExecutorStep(e) == StartPass(e) \/ Drain(e) \/ ControlPass(e) \/ lb_ack(e)

Next ==
    \/ \E i \in IOs :
        \/ IoStep(i) \/ ParseFlip(i)
        \/ \E s \in Shards : SampleOwner(i, s) \/ SampleRelease(i, s)
    \/ lb_controller_tick \/ CoordinatorStep
    \/ issue_flip \/ FlipEnds
    \/ \E e \in Executors : ExecutorStep(e)

Spec == Init /\ [][Next]_vars

-----------------------------------------------------------------------------
\* Types of the state.
TypeOK ==
    /\ stage \in {"Idle", "IoDrain", "ExDrain"} /\ epoch \in 0..MaxEpochs
    /\ ack \in [Threads -> (0..MaxEpochs) \X {"Idle", "IoDrain", "ExDrain"}]
    /\ flip \in BOOLEAN
    /\ owner \in [Shards -> Executors] /\ member \in [Executors -> SUBSET Shards]
    /\ \A p \in Threads, e \in Executors :
        /\ Len(lane[p][e]) <= LaneCap /\ Len(release[p][e]) <= LaneCap
        /\ Range(release[p][e]) \subseteq Shards
    /\ ex \in [Executors -> {"top", "work", "ack"}]
    /\ \A i \in IOs :
        io[i].at \in {"loop", "post", "release", "flip", "begin", "commit", "publish", "finish"}
    /\ \A i \in IOs : borrows[i] \in 0..MaxReleases[i]

Moving == io[Coordinator].at \in {"commit", "publish", "finish"}

\* No task is in a lane, waits to be forwarded, or is about to be posted.
AllDrained ==
    /\ \A p \in Threads, e \in Executors : lane[p][e] = <<>>
    /\ \A e \in Executors : stale[e] = <<>>
    /\ \A i \in IOs : io[i].at # "post"

\* While the coordinator moves a shard, every executor is at its safe point (none
\* is inside a pass that walks its shards or runs tasks) and nothing is queued
\* for any shard; outside a move exactly the published owner has the shard in its
\* vector. Two exceptions: a drain that a FLIP withdraws during the move, and an
\* executor that acknowledged the drain with the look it had taken at its queues
\* in an earlier one.
HardSafePoint ==
    /\ Moving /\ ~withdrawn => \A e \in Executors : ex[e] # "work"
    /\ Moving /\ ~withdrawn /\ ~late => AllDrained
    /\ ~Moving => \A s \in Shards : {e \in Executors : s \in member[e]} = {owner[s]}

\* The tasks an IO thread sends to a shard are executed in the order they were
\* sent, across every migration: no task of a later route overtakes one that
\* has to be forwarded. The exceptions are those of HardSafePoint.
TasksInOrder ==
    ~late /\ ~withdrawn =>
        \A t \in executed : \A k \in 1..t.n : Task(t.io, t.shard, k) \in executed

\* However often the shard moves and a forwarding post is refused, every task
\* and every release is in exactly one place: executed (applied), or queued
\* once for some executor.
NothingLost ==
    LET all == Threads \X Executors
    IN  /\ \A i \in IOs, s \in Shards : \A n \in 1..sent[i][s] :
            LET t == Task(i, s, n)
                lanes == {pe \in all : t \in Range(lane[pe[1]][pe[2]])}
                waits == {e \in Executors : t \in Range(stale[e])}
            IN  Cardinality(lanes) + Cardinality(waits) = IF t \in executed THEN 0 ELSE 1
        /\ SumFunction(borrows) + applied
             + SumFunction([pe \in all |-> Len(release[pe[1]][pe[2]])])
             + SumFunction([e \in Executors |-> Len(staleRel[e])])
           = SumFunction(MaxReleases)

=============================================================================
