------------------------ MODULE ShardMigrationProofs ------------------------
(***************************************************************************)
(* Proofs about ShardMigration, for any number of IO threads, executors    *)
(* and shards and for lanes of any length.                                 *)
(***************************************************************************)
EXTENDS ShardMigration, TLAPS

Stages == {"Idle", "IoDrain", "ExDrain"}
Tasks == [io : IOs, shard : Shards, n : Nat]
Places == {"loop", "post", "release", "flip", "begin", "commit", "publish", "finish"}

\* The shapes of the state, by the parts that change together.
ControlTypes ==
    /\ stage \in Stages /\ epoch \in Nat /\ ack \in [Threads -> Nat \X Stages]
    /\ ex \in [Executors -> {"top", "work", "ack"}]
    /\ look \in [Executors -> Nat] /\ \A e \in Executors : look[e] <= epoch

PlaceTypes == owner \in [Shards -> Executors] /\ member \in [Executors -> SUBSET Shards]

IoTypes ==
    /\ io \in [IOs -> [at : Places, shard : Shards \cup {"none"},
                       target : Executors \cup {"none"}]]
    /\ \A i \in IOs : io[i].at \in {"post", "release"} =>
                          io[i].shard \in Shards /\ io[i].target \in Executors
    /\ \A i \in IOs \ {Coordinator} : io[i].at \in {"loop", "post", "release", "flip"}

TaskTypes ==
    /\ lane \in [Threads -> [Executors -> Seq(Tasks)]]
    /\ stale \in [Executors -> Seq(Tasks)]
    /\ sent \in [IOs -> [Shards -> Nat]]
    /\ executed \in SUBSET Tasks

ReleaseTypes ==
    /\ release \in [Threads -> [Executors -> Seq(Shards)]]
    /\ staleRel \in [Executors -> Seq(Shards)]
    /\ borrows \in [IOs -> Int] /\ applied \in Int

Types == ControlTypes /\ PlaceTypes /\ IoTypes /\ TaskTypes /\ ReleaseTypes

ExAcked(e) == ack[e] = <<epoch, "ExDrain">>
BeforeExDrain == stage = "IoDrain" \/ Coordinating("begin")

\* The drain: who has acknowledged what, and what a thread that has may not do.
Protocol ==
    /\ Coordinating("begin") => stage # "ExDrain"
    /\ stage # "Idle" => epoch > 0
    /\ BeforeExDrain => epoch > 0 /\ \A e \in Executors : ~ExAcked(e) /\ look[e] # epoch
    /\ stage = "IoDrain" =>
          \A i \in IOs : Acked(i) => io[i].at \notin {"post", "flip"}
    /\ Coordinating("begin") /\ ~withdrawn => stage = "IoDrain" /\ lb_all_io_acked
    /\ stage = "ExDrain" /\ ~withdrawn => \A i \in IOs : io[i].at \notin {"post", "flip"}
    /\ stage = "ExDrain" => \A e \in Executors : Acked(e) => ex[e] = "top"
    /\ Moving /\ ~withdrawn => stage = "ExDrain" /\ lb_all_ex_acked

PlanIsValid ==
    /\ plan.shard \in Shards /\ plan.source \in Executors /\ plan.dest \in Executors
    /\ plan.source = owner[plan.shard] /\ plan.dest # plan.source

Owners(s) == {e \in Executors : s \in member[e]}

\* Who has a shard in its vector: the published owner, or between the two steps of
\* a move the destination.
Placement ==
    /\ stage # "Idle" /\ ~Coordinating("finish") => PlanIsValid
    /\ io[Coordinator].at \in {"begin", "commit", "publish"} => PlanIsValid
    /\ \A s \in Shards :
        Owners(s) = {IF Coordinating("publish") /\ s = plan.shard THEN plan.dest ELSE owner[s]}

Excused == late \/ withdrawn

\* An executor that has found itself quiescent in this drain, or has said so.
Quiet(e) == stage = "ExDrain" /\ (Acked(e) \/ (ex[e] = "ack" /\ look[e] = epoch))

\* Without an exception no task is ever at an executor that does not own its shard.
LanesRouted ==
    \A p \in Threads, e \in Executors : \A j \in 1..Len(lane[p][e]) :
        owner[lane[p][e][j].shard] = e
NothingStale == \A e \in Executors : stale[e] = <<>>
PostsRouted == \A i \in IOs : io[i].at = "post" => io[i].target = owner[io[i].shard]
QuietIsEmpty == \A e \in Executors : Quiet(e) => \A p \in Threads : lane[p][e] = <<>>

Routed == LanesRouted /\ NothingStale /\ PostsRouted /\ QuietIsEmpty
Routing == ~Excused => Routed

\* The tasks of an IO thread for a shard: executed, or in the one lane, in order.
LanesInOrder ==
    \A p \in Threads, e \in Executors : \A j \in 1..Len(lane[p][e]) :
        /\ lane[p][e][j].io = p
        /\ lane[p][e][j].n \in 1..sent[p][lane[p][e][j].shard]
        /\ \A k \in 1..(j - 1) :
              lane[p][e][k].shard = lane[p][e][j].shard => lane[p][e][k].n < lane[p][e][j].n
InLane(i, s, n) == \E j \in 1..Len(lane[i][owner[s]]) : lane[i][owner[s]][j] = Task(i, s, n)
SentIsKept ==
    \A i \in IOs, s \in Shards : \A n \in 1..sent[i][s] :
        Task(i, s, n) \in executed \/ InLane(i, s, n)
ExecutedWereSent == \A t \in executed : t.n \in 1..sent[t.io][t.shard]
ExecutedInOrder == \A t \in executed : \A k \in 1..t.n : Task(t.io, t.shard, k) \in executed

Ordered == LanesInOrder /\ SentIsKept /\ ExecutedWereSent /\ ExecutedInOrder
Order == ~Excused => Ordered

IInv == Types /\ Protocol /\ Placement /\ Routing /\ Order

-----------------------------------------------------------------------------
(* Types. *)

\* A queue of a table of queues that gets an element or loses its first one.
LEMMA TableAppend ==
    ASSUME NEW S, NEW P, NEW E, NEW f \in [P -> [E -> Seq(S)]], NEW p \in P, NEW e \in E, NEW t \in S
    PROVE  [f EXCEPT ![p][e] = Append(@, t)] \in [P -> [E -> Seq(S)]]
<1>1. Append(f[p][e], t) \in Seq(S)
  OBVIOUS
<1> QED BY <1>1, Zenon

\* So does taking the first element of one, as a drain does, and that element has the type.
LEMMA TableTail ==
    ASSUME NEW S, NEW P, NEW E, NEW f \in [P -> [E -> Seq(S)]], NEW p \in P, NEW e \in E,
           f[p][e] # <<>>
    PROVE  [f EXCEPT ![p][e] = Tail(@)] \in [P -> [E -> Seq(S)]] /\ Head(f[p][e]) \in S
<1>1. Tail(f[p][e]) \in Seq(S) /\ Head(f[p][e]) \in S
  OBVIOUS
<1> QED BY <1>1, Zenon

\* Replacing one queue of a table leaves the others.
LEMMA TableUpdate ==
    ASSUME NEW S, NEW P, NEW E, NEW f \in [P -> [E -> S]], NEW p \in P, NEW e \in E, NEW v
    PROVE  /\ [f EXCEPT ![p][e] = v][p][e] = v
           /\ \A q \in P, g \in E : q # p \/ g # e => [f EXCEPT ![p][e] = v][q][g] = f[q][g]
OBVIOUS

\* The elements of such a queue.
LEMMA AppendElements ==
    ASSUME NEW S, NEW q \in Seq(S), NEW t \in S, NEW j \in 1..Len(Append(q, t))
    PROVE  \/ j \in 1..Len(q) /\ Append(q, t)[j] = q[j]
           \/ j = Len(q) + 1 /\ Append(q, t)[j] = t
OBVIOUS

\* What is left of a queue is the elements behind its first.
LEMMA TailElements ==
    ASSUME NEW S, NEW q \in Seq(S), q # <<>>, NEW j \in 1..Len(Tail(q))
    PROVE  j + 1 \in 1..Len(q) /\ Tail(q)[j] = q[j + 1]
OBVIOUS

\* Every step keeps the types of the drain's control words and of the executors' places.
LEMMA ControlTypesStep ==
    ASSUME Types, [Next]_vars
    PROVE  ControlTypes'
<1> USE DEF Types, ControlTypes, Stages, control
<1>1. ASSUME NEW i \in IOs, NEW s \in Shards, SampleOwner(i, s) \/ SampleRelease(i, s)
      PROVE  ControlTypes'
  BY <1>1 DEF SampleOwner, SampleRelease
<1>2. ASSUME NEW i \in IOs, PostTask(i) \/ PostRelease(i) \/ ParseFlip(i)
      PROVE  ControlTypes'
  BY <1>2, Zenon DEF PostTask, PostRelease, ParseFlip
<1>3. ASSUME NEW i \in IOs, CommandFlip(i)
      PROVE  ControlTypes'
  BY <1>3, Zenon DEF CommandFlip, flip_begin
<1>4. ASSUME NEW i \in IOs, IoAck(i)
      PROVE  ControlTypes'
  BY <1>4, Zenon DEF IoAck, Threads
<1>5. CASE lb_controller_tick
  BY <1>5 DEF lb_controller_tick, NoAck
<1>6. CASE CoordinatorStep
  BY <1>6, Zenon DEF CoordinatorStep, BeginExDrain, PublishExDrain, lb_stage_timed_out,
              lb_commit_shard_plan, MoveMembership, commit_transfer, FinishCommit
<1>9. CASE issue_flip \/ FlipEnds
  BY <1>9, Zenon DEF issue_flip, flip_begin, FlipEnds
<1>10. ASSUME NEW e \in Executors, StartPass(e) \/ ControlPass(e)
       PROVE  ControlTypes'
  BY <1>10 DEF StartPass, ControlPass
<1>11. ASSUME NEW e \in Executors, lb_ack(e)
       PROVE  ControlTypes'
  BY <1>11 DEF lb_ack, Threads
<1>12. ASSUME NEW e \in Executors, Drain(e)
       PROVE  ControlTypes'
  BY <1>12, Zenon DEF Drain, drain_tasks, drain_releases, ServiceStale, ServiceStaleRelease
<1>15. CASE UNCHANGED vars
  BY <1>15, Zenon DEF vars
<1> QED
  BY <1>1, <1>2, <1>3, <1>4, <1>5, <1>6, <1>9, <1>10, <1>11, <1>12,
     <1>15, Zenon DEF Next, IoStep, ExecutorStep

\* Only the coordinator, with a plan it has made, changes where a shard is.
LEMMA PlaceTypesStep ==
    ASSUME Types, Placement, [Next]_vars
    PROVE  PlaceTypes'
<1> USE DEF Types, PlaceTypes, places
<1>1. CASE MoveMembership
  BY <1>1, Zenon DEF MoveMembership, Placement, PlanIsValid, Coordinating
<1>2. CASE commit_transfer
  BY <1>2, Zenon DEF commit_transfer, Placement, PlanIsValid, Coordinating
<1>3. CASE UNCHANGED <<owner, member>>
  BY <1>3, Zenon
<1>4. ASSUME NEW i \in IOs, NEW s \in Shards, SampleOwner(i, s) \/ SampleRelease(i, s)
      PROVE  UNCHANGED <<owner, member>>
  BY <1>4, Zenon DEF SampleOwner, SampleRelease
<1>5. ASSUME NEW i \in IOs, IoStep(i) \/ ParseFlip(i)
      PROVE  UNCHANGED <<owner, member>>
  BY <1>5, Zenon DEF IoStep, PostTask, PostRelease, ParseFlip, CommandFlip, IoAck
<1>6. ASSUME \/ lb_controller_tick \/ BeginExDrain \/ PublishExDrain \/ lb_stage_timed_out
             \/ lb_commit_shard_plan \/ FinishCommit \/ issue_flip \/ FlipEnds
      PROVE  UNCHANGED <<owner, member>>
  BY <1>6, Zenon DEF lb_controller_tick, BeginExDrain, PublishExDrain, lb_stage_timed_out,
              lb_commit_shard_plan, FinishCommit, issue_flip, FlipEnds
<1>7. ASSUME NEW e \in Executors, ExecutorStep(e)
      PROVE  UNCHANGED <<owner, member>>
  BY <1>7, Zenon DEF ExecutorStep, StartPass, ControlPass, lb_ack, Drain, drain_tasks, drain_releases,
              ServiceStale, ServiceStaleRelease
<1>8. CASE UNCHANGED vars
  BY <1>8, Zenon DEF vars
<1> QED
  BY <1>1, <1>2, <1>3, <1>4, <1>5, <1>6, <1>7, <1>8, Zenon DEF Next, CoordinatorStep

\* An IO thread that is about to post has sampled a shard and an executor, and only the
\* coordinator is ever inside the balancer's steps.
LEMMA IoTypesStep ==
    ASSUME Types, [Next]_vars
    PROVE  IoTypes'
<1> USE MigrationAssumption DEF Types, IoTypes, Places, At, AtLoop
<1>1. ASSUME NEW i \in IOs, NEW s \in Shards, NEW e \in Executors, NEW place \in {"post", "release"},
             io' = [io EXCEPT ![i] = [at |-> place, shard |-> s, target |-> e]],
             io[i].at = "loop"
      PROVE  IoTypes'
  BY <1>1
<1>2. ASSUME NEW i \in IOs, NEW place \in {"loop", "flip"}, io' = [io EXCEPT ![i] = At(place)]
      PROVE  IoTypes'
  BY <1>2
<1>3. ASSUME NEW place \in Places \ {"post", "release"}, Goto(place)
      PROVE  IoTypes'
  BY <1>3 DEF Goto
<1>4. CASE CoordinatorStep
  <2>1. (\E place \in Places \ {"post", "release"} : Goto(place)) \/ UNCHANGED io
    BY <1>4, Zenon DEF CoordinatorStep, BeginExDrain, PublishExDrain, lb_stage_timed_out,
              lb_commit_shard_plan, MoveMembership, commit_transfer, FinishCommit
  <2> QED BY <1>3, <2>1, Zenon
<1>5. CASE UNCHANGED io
  BY <1>5, Zenon
<1>6. ASSUME NEW e \in Executors, ExecutorStep(e)
      PROVE  UNCHANGED io
  BY <1>6, Zenon DEF ExecutorStep, StartPass, ControlPass, lb_ack, Drain, drain_tasks, drain_releases,
              ServiceStale, ServiceStaleRelease
<1>7. ASSUME NEW i \in IOs, IoAck(i)
      PROVE  UNCHANGED io
  BY <1>7, Zenon DEF IoAck
<1>8. ASSUME lb_controller_tick \/ issue_flip \/ FlipEnds \/ UNCHANGED vars
      PROVE  UNCHANGED io
  BY <1>8, Zenon DEF lb_controller_tick, issue_flip, FlipEnds, vars
<1> QED
  <2>1. ASSUME NEW i \in IOs, NEW s \in Shards, SampleOwner(i, s) \/ SampleRelease(i, s)
        PROVE  IoTypes'
    BY <2>1, <1>1 DEF SampleOwner, SampleRelease, PlaceTypes
  <2>2. ASSUME NEW i \in IOs, PostTask(i) \/ PostRelease(i) \/ CommandFlip(i) \/ ParseFlip(i)
        PROVE  IoTypes'
    BY <2>2, <1>2, Zenon DEF PostTask, PostRelease, CommandFlip, ParseFlip
  <2> QED
    BY <2>1, <2>2, <1>4, <1>5, <1>6, <1>7, <1>8, Zenon DEF Next, IoStep

\* The steps that touch tasks: a post, a drain, the forwarding of a task that waits.
LEMMA TaskActions ==
    ASSUME [Next]_vars
    PROVE  \/ \E i \in IOs : PostTask(i)
           \/ \E e \in Executors : ServiceStale(e) \/ \E p \in Threads : drain_tasks(e, p)
           \/ UNCHANGED <<lane, stale, sent, executed>>
<1> USE DEF queues, work
<1>1. ASSUME NEW i \in IOs, NEW s \in Shards, SampleOwner(i, s) \/ SampleRelease(i, s)
      PROVE  UNCHANGED <<lane, stale, sent, executed>>
  BY <1>1, Zenon DEF SampleOwner, SampleRelease
<1>2. ASSUME NEW i \in IOs, PostRelease(i) \/ CommandFlip(i) \/ IoAck(i) \/ ParseFlip(i)
      PROVE  UNCHANGED <<lane, stale, sent, executed>>
  BY <1>2, Zenon DEF PostRelease, ParseFlip, CommandFlip, IoAck
<1>3. ASSUME lb_controller_tick \/ CoordinatorStep \/ issue_flip \/ FlipEnds
      PROVE  UNCHANGED <<lane, stale, sent, executed>>
  BY <1>3, Zenon DEF CoordinatorStep, lb_controller_tick, BeginExDrain, PublishExDrain, lb_stage_timed_out,
              lb_commit_shard_plan, MoveMembership, commit_transfer, FinishCommit, issue_flip, FlipEnds
<1>4. ASSUME NEW e \in Executors, StartPass(e) \/ ControlPass(e) \/ lb_ack(e)
      PROVE  UNCHANGED <<lane, stale, sent, executed>>
  BY <1>4, Zenon DEF StartPass, ControlPass, lb_ack
<1>5. ASSUME NEW e \in Executors,
             ServiceStaleRelease(e) \/ \E p \in Threads : drain_releases(e, p)
      PROVE  UNCHANGED <<lane, stale, sent, executed>>
  BY <1>5, Zenon DEF drain_releases, ServiceStaleRelease
<1>6. CASE UNCHANGED vars
  BY <1>6, Zenon DEF vars
<1> QED
  BY <1>1, <1>2, <1>3, <1>4, <1>5, <1>6, Zenon DEF Next, IoStep, ExecutorStep, Drain

\* Those steps keep the queues of tasks queues of tasks.
LEMMA TaskTypesStep ==
    ASSUME Types, [Next]_vars
    PROVE  TaskTypes'
<1> USE DEF Types, TaskTypes, queues, work, Threads
<1>1. ASSUME NEW i \in IOs, PostTask(i)
      PROVE  TaskTypes'
  <2> DEFINE s == io[i].shard
             e == io[i].target
             t == Task(i, s, sent[i][s] + 1)
  <2>1. s \in Shards /\ e \in Executors /\ t \in Tasks
    BY <1>1 DEF PostTask, IoTypes, Task, Tasks
  <2>2. [lane EXCEPT ![i][e] = Append(@, t)] \in [Threads -> [Executors -> Seq(Tasks)]]
    BY <2>1, TableAppend
  <2>3. /\ lane' \in {lane, [lane EXCEPT ![i][e] = Append(@, t)]}
        /\ sent' \in {sent, [sent EXCEPT ![i][s] = @ + 1]}
        /\ UNCHANGED <<stale, executed>>
    BY <1>1, Zenon DEF PostTask
  <2> HIDE DEF s, e, t
  <2>4. [sent EXCEPT ![i][s] = @ + 1] \in [IOs -> [Shards -> Nat]]
    BY <2>1
  <2> QED BY <2>2, <2>3, <2>4, Zenon
<1>2. ASSUME NEW e \in Executors, NEW p \in Threads, drain_tasks(e, p)
      PROVE  TaskTypes'
  <2> DEFINE t == Head(lane[p][e])
             ln == [lane EXCEPT ![p][e] = Tail(@)]
             d == owner[t.shard]
  <2>1. ln \in [Threads -> [Executors -> Seq(Tasks)]] /\ t \in Tasks
    BY <1>2, TableTail DEF drain_tasks
  <2>2. d \in Executors
    BY <2>1, Zenon DEF Tasks, PlaceTypes
  <2>3. /\ lane' \in {ln, [ln EXCEPT ![e][d] = Append(@, t)]}
        /\ stale' \in {stale, [stale EXCEPT ![e] = Append(@, t)]}
        /\ executed' \in {executed, executed \cup {t}}
        /\ UNCHANGED sent
    BY <1>2, Zenon DEF drain_tasks, RunTask
  <2> HIDE DEF t, ln, d
  <2>4. [ln EXCEPT ![e][d] = Append(@, t)] \in [Threads -> [Executors -> Seq(Tasks)]]
    BY <2>1, <2>2, TableAppend, Zenon
  <2>5. [stale EXCEPT ![e] = Append(@, t)] \in [Executors -> Seq(Tasks)]
    BY <2>1
  <2> QED BY <2>1, <2>3, <2>4, <2>5, Zenon
<1>3. ASSUME NEW e \in Executors, ServiceStale(e)
      PROVE  TaskTypes'
  <2> DEFINE t == Head(stale[e])
             d == owner[t.shard]
  <2>1. [stale EXCEPT ![e] = Tail(@)] \in [Executors -> Seq(Tasks)] /\ t \in Tasks
    BY <1>3 DEF ServiceStale
  <2>2. d \in Executors
    BY <2>1, Zenon DEF Tasks, PlaceTypes
  <2>3. [lane EXCEPT ![e][d] = Append(@, t)] \in [Threads -> [Executors -> Seq(Tasks)]]
    BY <2>1, <2>2, TableAppend
  <2>4. /\ lane' \in {lane, [lane EXCEPT ![e][d] = Append(@, t)]}
        /\ stale' = [stale EXCEPT ![e] = Tail(@)]
        /\ executed' \in {executed, executed \cup {t}}
        /\ UNCHANGED sent
    BY <1>3, Zenon DEF ServiceStale
  <2> QED BY <2>1, <2>3, <2>4, Zenon
<1>4. CASE UNCHANGED <<lane, stale, sent, executed>>
  BY <1>4
<1> QED BY <1>1, <1>2, <1>3, <1>4, TaskActions, Zenon

\* The steps that touch borrow releases, likewise.
LEMMA ReleaseActions ==
    ASSUME [Next]_vars
    PROVE  \/ \E i \in IOs : PostRelease(i)
           \/ \E e \in Executors :
                 ServiceStaleRelease(e) \/ \E p \in Threads : drain_releases(e, p)
           \/ UNCHANGED <<release, staleRel, borrows, applied>>
<1> USE DEF queues, work
<1>1. ASSUME NEW i \in IOs, NEW s \in Shards, SampleOwner(i, s) \/ SampleRelease(i, s)
      PROVE  UNCHANGED <<release, staleRel, borrows, applied>>
  BY <1>1 DEF SampleOwner, SampleRelease
<1>2. ASSUME NEW i \in IOs, PostTask(i) \/ CommandFlip(i) \/ IoAck(i) \/ ParseFlip(i)
      PROVE  UNCHANGED <<release, staleRel, borrows, applied>>
  BY <1>2, Zenon DEF PostTask, ParseFlip, CommandFlip, IoAck
<1>3. ASSUME lb_controller_tick \/ CoordinatorStep \/ issue_flip \/ FlipEnds
      PROVE  UNCHANGED <<release, staleRel, borrows, applied>>
  BY <1>3, Zenon DEF CoordinatorStep, lb_controller_tick, BeginExDrain, PublishExDrain, lb_stage_timed_out,
              lb_commit_shard_plan, MoveMembership, commit_transfer, FinishCommit, issue_flip, FlipEnds
<1>4. ASSUME NEW e \in Executors, StartPass(e) \/ ControlPass(e) \/ lb_ack(e) \/ ServiceStale(e)
      PROVE  UNCHANGED <<release, staleRel, borrows, applied>>
  BY <1>4, Zenon DEF StartPass, ControlPass, lb_ack, ServiceStale
<1>5. ASSUME NEW e \in Executors, NEW p \in Threads, drain_tasks(e, p)
      PROVE  UNCHANGED <<release, staleRel, borrows, applied>>
  BY <1>5, Zenon DEF drain_tasks
<1>6. CASE UNCHANGED vars
  BY <1>6, Zenon DEF vars
<1> QED
  BY <1>1, <1>2, <1>3, <1>4, <1>5, <1>6, Zenon DEF Next, IoStep, ExecutorStep, Drain

\* They keep the queues of releases queues of shards.
LEMMA ReleaseTypesStep ==
    ASSUME Types, [Next]_vars
    PROVE  ReleaseTypes'
<1> USE DEF Types, ReleaseTypes, queues, work, Threads
<1>1. ASSUME NEW i \in IOs, PostRelease(i)
      PROVE  ReleaseTypes'
  <2> DEFINE s == io[i].shard
             e == io[i].target
  <2>1. s \in Shards /\ e \in Executors
    BY <1>1, Zenon DEF PostRelease, IoTypes
  <2>2. [release EXCEPT ![i][e] = Append(@, s)] \in [Threads -> [Executors -> Seq(Shards)]]
    BY <2>1, TableAppend
  <2>3. /\ release' \in {release, [release EXCEPT ![i][e] = Append(@, s)]}
        /\ UNCHANGED <<staleRel, applied>>
    BY <1>1, Zenon DEF PostRelease
  <2>4. borrows' \in [IOs -> Int]
    BY <1>1 DEF PostRelease
  <2> QED BY <2>2, <2>3, <2>4, Zenon
<1>2. ASSUME NEW e \in Executors, NEW p \in Threads, drain_releases(e, p)
      PROVE  ReleaseTypes'
  <2> DEFINE s == Head(release[p][e])
             rest == [release EXCEPT ![p][e] = Tail(@)]
             d == owner[s]
  <2>1. rest \in [Threads -> [Executors -> Seq(Shards)]] /\ s \in Shards
    <3>1. release[p][e] # <<>>
      BY <1>2, Zenon DEF drain_releases
    <3> QED BY <3>1, TableTail
  <2>2. d \in Executors
    BY <2>1, Zenon DEF PlaceTypes
  <2>3. /\ release' \in {rest, [rest EXCEPT ![e][d] = Append(@, s)]}
        /\ staleRel' \in {staleRel, [staleRel EXCEPT ![e] = Append(@, s)]}
        /\ applied' \in {applied, applied + 1}
        /\ UNCHANGED borrows
    BY <1>2, Zenon DEF drain_releases
  <2> HIDE DEF s, rest, d
  <2>4. [rest EXCEPT ![e][d] = Append(@, s)] \in [Threads -> [Executors -> Seq(Shards)]]
    BY <2>1, <2>2, TableAppend, Zenon
  <2>5. [staleRel EXCEPT ![e] = Append(@, s)] \in [Executors -> Seq(Shards)]
    BY <2>1
  <2>6. applied' \in Int
    BY <2>3
  <2> QED BY <2>1, <2>3, <2>4, <2>5, <2>6, Zenon
<1>3. ASSUME NEW e \in Executors, ServiceStaleRelease(e)
      PROVE  ReleaseTypes'
  <2> DEFINE s == Head(staleRel[e])
             d == owner[s]
  <2>1. [staleRel EXCEPT ![e] = Tail(@)] \in [Executors -> Seq(Shards)] /\ s \in Shards
    BY <1>3 DEF ServiceStaleRelease
  <2>2. d \in Executors
    BY <2>1, Zenon DEF PlaceTypes
  <2>3. [release EXCEPT ![e][d] = Append(@, s)] \in [Threads -> [Executors -> Seq(Shards)]]
    BY <2>1, <2>2, TableAppend
  <2>4. /\ release' \in {release, [release EXCEPT ![e][d] = Append(@, s)]}
        /\ staleRel' = [staleRel EXCEPT ![e] = Tail(@)]
        /\ applied' \in {applied, applied + 1}
        /\ UNCHANGED borrows
    BY <1>3, Zenon DEF ServiceStaleRelease
  <2>5. applied' \in Int
    BY <2>4
  <2> HIDE DEF s, d
  <2> QED BY <2>1, <2>3, <2>4, <2>5, Zenon
<1>4. CASE UNCHANGED <<release, staleRel, borrows, applied>>
  BY <1>4
<1> QED BY <1>1, <1>2, <1>3, <1>4, ReleaseActions, Zenon

-----------------------------------------------------------------------------
(* The drain. *)

\* Every step keeps the drain's bookkeeping.
LEMMA ProtocolStep ==
    ASSUME Types, Protocol, [Next]_vars
    PROVE  Protocol'
<1> USE MigrationAssumption
    DEF Types, ControlTypes, IoTypes, Protocol, BeforeExDrain, ExAcked, Coordinating, Moving, Acked,
        lb_all_io_acked, lb_all_ex_acked, control
<1>1. ASSUME NEW i \in IOs, NEW s \in Shards, SampleOwner(i, s)
      PROVE  Protocol'
  BY <1>1, Zenon DEF SampleOwner, DispatchPaused, Stages
<1>2. ASSUME NEW i \in IOs, NEW s \in Shards, SampleRelease(i, s)
      PROVE  Protocol'
  BY <1>2 DEF SampleRelease
<1>3. ASSUME NEW i \in IOs, PostTask(i) \/ PostRelease(i)
      PROVE  Protocol'
  <2>1. /\ io[i].at \in {"post", "release"}
        /\ io' = [io EXCEPT ![i] = At("loop")]
        /\ UNCHANGED <<stage, epoch, ack, ex, look, withdrawn>>
    BY <1>3, Zenon DEF PostTask, PostRelease, AtLoop
  <2> QED BY <2>1 DEF At
<1>4. ASSUME NEW i \in IOs, ParseFlip(i)
      PROVE  Protocol'
  BY <1>4, Zenon DEF ParseFlip, DispatchPaused, At, Stages
<1>5. ASSUME NEW i \in IOs, CommandFlip(i)
      PROVE  Protocol'
  BY <1>5, Zenon DEF CommandFlip, flip_begin, AtLoop, At, Stages
<1>6. ASSUME NEW i \in IOs, IoAck(i)
      PROVE  Protocol'
  BY <1>6, Zenon DEF IoAck, Threads
<1>7. CASE lb_controller_tick
  BY <1>7 DEF lb_controller_tick, NoAck, Threads
<1>8. CASE BeginExDrain
  BY <1>8 DEF BeginExDrain, lb_begin_ex_drain, Goto, At
<1>9. CASE PublishExDrain
  BY <1>9, Zenon DEF PublishExDrain, Goto, At
<1>10. CASE lb_stage_timed_out
  BY <1>10, Zenon DEF lb_stage_timed_out
<1>11. CASE lb_commit_shard_plan
  BY <1>11 DEF lb_commit_shard_plan, MayCommit, Goto, At
<1>12. CASE MoveMembership \/ commit_transfer
  <2>1. /\ Coordinating("commit") \/ Coordinating("publish")
        /\ \E place \in {"publish", "finish"} : Goto(place)
        /\ UNCHANGED <<stage, epoch, ack, ex, look, withdrawn>>
    BY <1>12, Zenon DEF MoveMembership, commit_transfer
  <2> QED BY <2>1 DEF Goto, At
<1>13. CASE FinishCommit
  BY <1>13, Zenon DEF FinishCommit, Goto, At
<1>14. CASE issue_flip
  BY <1>14, Zenon DEF issue_flip, flip_begin, Stages
<1>15. CASE FlipEnds
  BY <1>15, Zenon DEF FlipEnds
<1>16. ASSUME NEW e \in Executors, StartPass(e)
       PROVE  Protocol'
  BY <1>16, Zenon DEF StartPass
<1>17. ASSUME NEW e \in Executors, ControlPass(e)
       PROVE  Protocol'
  BY <1>17, Zenon DEF ControlPass
<1>18. ASSUME NEW e \in Executors, lb_ack(e)
       PROVE  Protocol'
  <2>1. /\ ex[e] = "ack" /\ ex' = [ex EXCEPT ![e] = "top"]
        /\ ack' = [ack EXCEPT ![e] = <<epoch, stage>>]
        /\ look' = [look EXCEPT ![e] = 0]
        /\ UNCHANGED <<stage, epoch, io, withdrawn>>
    BY <1>18, Zenon DEF lb_ack
  <2>2. /\ ack'[e] = <<epoch, stage>> /\ ex'[e] = "top" /\ look'[e] = 0
        /\ \A t \in Threads : t # e => ack'[t] = ack[t]
        /\ \A f \in Executors : f # e => ex'[f] = ex[f] /\ look'[f] = look[f]
    BY <2>1 DEF Threads
  <2>3. \A i \in IOs : i # e /\ i \in Threads
    BY DEF Threads
  <2>4. \A f \in Executors : f \in Threads
    BY Zenon DEF Threads
  <2>5. BeforeExDrain => stage # "ExDrain" /\ <<epoch, stage>> # <<epoch, "ExDrain">>
    BY Zenon
  <2>6. (BeforeExDrain => epoch > 0 /\ \A f \in Executors : ~ExAcked(f) /\ look[f] # epoch)'
    BY <2>1, <2>2, <2>4, <2>5
  <2>7. (\A i \in IOs : Acked(i) <=> Acked(i)') /\ (lb_all_io_acked <=> lb_all_io_acked')
    BY <2>1, <2>2, <2>3
  <2>8. (stage = "ExDrain" => \A f \in Executors : Acked(f) => ex[f] = "top")'
    BY <2>1, <2>2, <2>4
  <2>9. lb_all_ex_acked => lb_all_ex_acked'
    BY <2>1, <2>2, <2>4, Zenon
  <2> QED BY <2>1, <2>6, <2>7, <2>8, <2>9, Zenon
<1>19. ASSUME NEW e \in Executors, Drain(e)
       PROVE  Protocol'
  BY <1>19, Zenon DEF Drain, drain_tasks, drain_releases, ServiceStale, ServiceStaleRelease
<1>20. CASE UNCHANGED vars
  BY <1>20, Zenon DEF vars
<1> QED
  BY <1>1, <1>2, <1>3, <1>4, <1>5, <1>6, <1>7, <1>8, <1>9, <1>10, <1>11, <1>12, <1>13, <1>14,
     <1>15, <1>16, <1>17, <1>18, <1>19, <1>20, Zenon DEF Next, IoStep, CoordinatorStep, ExecutorStep

-----------------------------------------------------------------------------
(* The owners. *)

\* Every step keeps the plan valid and the shard in exactly one vector.
LEMMA PlacementStep ==
    ASSUME Types, Protocol, Placement, [Next]_vars
    PROVE  Placement'
<1> USE MigrationAssumption
    DEF Types, ControlTypes, IoTypes, PlaceTypes, Placement, PlanIsValid, Coordinating, Owners,
        control, places
<1>1. ASSUME NEW i \in IOs, NEW s \in Shards, SampleOwner(i, s) \/ SampleRelease(i, s)
      PROVE  Placement'
  <2>1. /\ io[i].at = "loop"
        /\ \E place \in {"post", "release"} :
              io' = [io EXCEPT ![i] = [at |-> place, shard |-> s, target |-> owner[s]]]
        /\ UNCHANGED <<stage, owner, member, plan>>
    BY <1>1, Zenon DEF SampleOwner, SampleRelease
  <2> QED BY <2>1
<1>2. ASSUME NEW i \in IOs, PostTask(i) \/ PostRelease(i)
      PROVE  Placement'
  <2>1. /\ io[i].at \in {"post", "release"}
        /\ io' = [io EXCEPT ![i] = At("loop")]
        /\ UNCHANGED <<stage, owner, member, plan>>
    BY <1>2, Zenon DEF PostTask, PostRelease, AtLoop
  <2> QED BY <2>1 DEF At
<1>3. ASSUME NEW i \in IOs, ParseFlip(i) \/ CommandFlip(i) \/ IoAck(i)
      PROVE  Placement'
  <2>1. /\ io' = io \/ (io[i].at \in {"loop", "flip"} /\
                         \E place \in {"loop", "flip"} : io' = [io EXCEPT ![i] = At(place)])
        /\ stage' \in {stage, "Idle"}
        /\ UNCHANGED <<owner, member, plan>>
    BY <1>3, Zenon DEF ParseFlip, CommandFlip, flip_begin, IoAck, AtLoop
  <2>2. \A place \in {"begin", "commit", "publish", "finish"} :
           io'[Coordinator].at = place <=> io[Coordinator].at = place
    <3>1. CASE io' = io
      BY <3>1, Zenon
    <3>2. CASE /\ io[i].at \in {"loop", "flip"}
               /\ \E place \in {"loop", "flip"} : io' = [io EXCEPT ![i] = At(place)]
      <4>1. PICK place \in {"loop", "flip"} : io' = [io EXCEPT ![i] = At(place)]
        BY <3>2, Zenon
      <4>2. i # Coordinator => io'[Coordinator] = io[Coordinator]
        BY <4>1
      <4>3. io'[i].at = place
        BY <4>1 DEF At
      <4> QED BY <3>2, <4>2, <4>3, Zenon
    <3> QED BY <2>1, <3>1, <3>2, Zenon
  <2> QED BY <2>1, <2>2, Zenon
<1>4. CASE lb_controller_tick
  BY <1>4 DEF lb_controller_tick
<1>5. CASE BeginExDrain \/ PublishExDrain \/ lb_stage_timed_out
  BY <1>5 DEF BeginExDrain, PublishExDrain, lb_begin_ex_drain, lb_stage_timed_out, Goto, At
<1>6. CASE lb_commit_shard_plan
  BY <1>6 DEF lb_commit_shard_plan, MayCommit, Goto, At
<1>7. CASE MoveMembership
  <2>1. /\ Coordinating("commit") /\ PlanIsValid /\ Goto("publish")
        /\ UNCHANGED <<stage, owner, plan>>
        /\ member' = [member EXCEPT ![plan.source] = @ \ {plan.shard},
                                    ![plan.dest] = @ \cup {plan.shard}]
    BY <1>7, Zenon DEF MoveMembership
  <2>2. Coordinating("publish")'
    BY <2>1 DEF Goto, At
  <2>3. \A e \in Executors :
           member'[e] = IF e = plan.dest THEN member[e] \cup {plan.shard}
                        ELSE IF e = plan.source THEN member[e] \ {plan.shard} ELSE member[e]
    BY <2>1, Zenon
  <2>4. ASSUME NEW s \in Shards, s # plan.shard
        PROVE  Owners(s)' = {owner[s]}
    BY <2>1, <2>3, <2>4, Zenon
  <2>5. Owners(plan.shard)' = {plan.dest}
    BY <2>1, <2>3
  <2> QED BY <2>1, <2>2, <2>4, <2>5
<1>8. CASE commit_transfer
  BY <1>8 DEF commit_transfer, Goto, At
<1>9. CASE FinishCommit
  BY <1>9 DEF FinishCommit, Goto, At
<1>10. CASE issue_flip \/ FlipEnds
  <2>1. stage' \in {stage, "Idle"} /\ UNCHANGED <<io, owner, member, plan>>
    BY <1>10, Zenon DEF issue_flip, flip_begin, FlipEnds
  <2> QED BY <2>1, Zenon
<1>11. ASSUME NEW e \in Executors, ExecutorStep(e)
       PROVE  Placement'
  <2>1. UNCHANGED <<stage, io, owner, member, plan>>
    BY <1>11, Zenon DEF ExecutorStep, StartPass, ControlPass, lb_ack, Drain, drain_tasks, drain_releases,
                 ServiceStale, ServiceStaleRelease
  <2> QED BY <2>1
<1>12. CASE UNCHANGED vars
  BY <1>12, Zenon DEF vars
<1> QED
  BY <1>1, <1>2, <1>3, <1>4, <1>5, <1>6, <1>7, <1>8, <1>9, <1>10, <1>11, <1>12, Zenon
     DEF Next, IoStep, CoordinatorStep

-----------------------------------------------------------------------------
(* The routes. *)

\* An exception, once made, stays.
LEMMA ExcusesStay ==
    ASSUME [Next]_vars
    PROVE  (late => late') /\ (withdrawn => withdrawn')
<1> USE DEF control
<1>1. ASSUME NEW i \in IOs, NEW s \in Shards, SampleOwner(i, s) \/ SampleRelease(i, s)
      PROVE  UNCHANGED <<late, withdrawn>>
  BY <1>1, Zenon DEF SampleOwner, SampleRelease
<1>2. ASSUME NEW i \in IOs, IoStep(i) \/ ParseFlip(i)
      PROVE  UNCHANGED <<late, withdrawn>>
  BY <1>2, Zenon DEF IoStep, PostTask, PostRelease, ParseFlip, CommandFlip, IoAck
<1>3. ASSUME lb_controller_tick \/ CoordinatorStep \/ FlipEnds
      PROVE  UNCHANGED <<late, withdrawn>>
  BY <1>3, Zenon DEF lb_controller_tick, CoordinatorStep, BeginExDrain, PublishExDrain, lb_stage_timed_out,
              lb_commit_shard_plan, MoveMembership, commit_transfer, FinishCommit, FlipEnds
<1>4. CASE issue_flip
  BY <1>4, Zenon DEF issue_flip
<1>5. ASSUME NEW e \in Executors, lb_ack(e)
      PROVE  (late => late') /\ UNCHANGED withdrawn
  BY <1>5, Zenon DEF lb_ack
<1>6. ASSUME NEW e \in Executors, StartPass(e) \/ ControlPass(e) \/ Drain(e)
      PROVE  UNCHANGED <<late, withdrawn>>
  BY <1>6, Zenon DEF StartPass, ControlPass, Drain, drain_tasks, drain_releases, ServiceStale,
              ServiceStaleRelease
<1>7. CASE UNCHANGED vars
  BY <1>7, Zenon DEF vars
<1> QED
  BY <1>1, <1>2, <1>3, <1>4, <1>5, <1>6, <1>7 DEF Next, ExecutorStep

\* Every step keeps the routes. Only a post, a drained task and the ownership edge
\* touch them; a step may also make an executor quiet.
LEMMA RoutingStep ==
    ASSUME Types, Protocol, Routing, [Next]_vars, ~Excused'
    PROVE  Routed'
<1> USE DEF Routed
<1>1. ~late /\ ~withdrawn /\ LanesRouted /\ NothingStale /\ PostsRouted /\ QuietIsEmpty
  BY ExcusesStay, Zenon DEF Excused, Routing
<1>2. ASSUME UNCHANGED <<lane, stale, owner>>,
             \A i \in IOs : io'[i].at = "post" =>
                io'[i] = io[i] \/ io'[i].target = owner[io'[i].shard],
             \A e \in Executors : Quiet(e)' => Quiet(e)
      PROVE  Routed'
  BY <1>1, <1>2 DEF LanesRouted, NothingStale, PostsRouted, QuietIsEmpty
<1> USE MigrationAssumption DEF Types, ControlTypes, IoTypes, control, places, queues, work
<1>3. ASSUME NEW i \in IOs, NEW s \in Shards, SampleOwner(i, s) \/ SampleRelease(i, s)
      PROVE  Routed'
  <2>1. /\ \E place \in {"post", "release"} :
              io' = [io EXCEPT ![i] = [at |-> place, shard |-> s, target |-> owner[s]]]
        /\ UNCHANGED <<lane, stale, owner, stage, epoch, ack, ex, look>>
    BY <1>3, Zenon DEF SampleOwner, SampleRelease
  <2>2. \A j \in IOs : io'[j].at = "post" =>
                io'[j] = io[j] \/ io'[j].target = owner[io'[j].shard]
    BY <2>1
  <2>3. \A e \in Executors : Quiet(e)' => Quiet(e)
    BY <2>1, Zenon DEF Quiet, Acked
  <2> QED BY <1>2, <2>1, <2>2, <2>3, Zenon
<1>4. ASSUME NEW i \in IOs, PostTask(i)
      PROVE  Routed'
  <2> DEFINE s == io[i].shard
             e == io[i].target
             t == Task(i, s, sent[i][s] + 1)
  <2>1. /\ io[i].at = "post" /\ io' = [io EXCEPT ![i] = AtLoop]
        /\ lane' \in {lane, [lane EXCEPT ![i][e] = Append(@, t)]}
        /\ UNCHANGED <<stale, owner, stage, epoch, ack, ex, look>>
    BY <1>4, Zenon DEF PostTask
  <2>2. s \in Shards /\ e \in Executors /\ owner[s] = e /\ t \in Tasks /\ t.shard = s
    BY <1>1, <2>1 DEF PostsRouted, Task, Tasks, TaskTypes
  <2>3. stage # "ExDrain"
    BY <1>1, <2>1, Zenon DEF Protocol
  <2> HIDE DEF s, e, t
  <2>4. LanesRouted'
    <3> SUFFICES ASSUME NEW p \in Threads, NEW f \in Executors, NEW j \in 1..Len(lane'[p][f])
                 PROVE  owner[lane'[p][f][j].shard] = f
      BY <2>1, Zenon DEF LanesRouted
    <3> HIDE DEF Types, ControlTypes, IoTypes, Routed
    <3>1. lane[p][f] \in Seq(Tasks) /\ i \in Threads
      BY DEF Types, TaskTypes, Threads
    <3>2. CASE lane'[p][f] = lane[p][f]
      BY <1>1, <3>2 DEF LanesRouted
    <3>3. CASE lane'[p][f] = Append(lane[p][f], t) /\ f = e
      <4>1. \/ j \in 1..Len(lane[p][f]) /\ lane'[p][f][j] = lane[p][f][j]
            \/ lane'[p][f][j] = t
        BY <2>2, <3>1, <3>3, AppendElements
      <4> QED BY <1>1, <2>2, <3>3, <4>1 DEF LanesRouted
    <3>4. lane'[p][f] = lane[p][f] \/ (lane'[p][f] = Append(lane[p][f], t) /\ f = e)
      <4>1. CASE lane' = lane
        BY <4>1
      <4>2. CASE lane' = [lane EXCEPT ![i][e] = Append(@, t)]
        <5>1. lane \in [Threads -> [Executors -> Seq(Tasks)]]
          BY Zenon DEF Types, TaskTypes
        <5>2. CASE p = i /\ f = e
          BY <2>2, <3>1, <4>2, <5>1, <5>2, Zenon
        <5>3. CASE p # i \/ f # e
          BY <2>2, <3>1, <4>2, <5>1, <5>3, Zenon
        <5> QED BY <5>2, <5>3, Zenon
      <4> QED BY <2>1, <4>1, <4>2, Zenon
    <3> QED BY <3>2, <3>3, <3>4, Zenon
  <2>5. PostsRouted'
    BY <1>1, <2>1, Zenon DEF PostsRouted, AtLoop, At
  <2>6. QuietIsEmpty'
    BY <2>1, <2>3, Zenon DEF QuietIsEmpty, Quiet
  <2> QED BY <1>1, <2>1, <2>4, <2>5, <2>6, Zenon DEF NothingStale
<1>5. ASSUME NEW i \in IOs, PostRelease(i) \/ ParseFlip(i) \/ CommandFlip(i)
      PROVE  Routed'
  <2>1. /\ \E place \in {"loop", "flip"} : io' = [io EXCEPT ![i] = At(place)]
        /\ stage' \in {stage, "Idle"}
        /\ UNCHANGED <<lane, stale, owner, epoch, ack, ex, look>>
    BY <1>5, Zenon DEF PostRelease, ParseFlip, CommandFlip, flip_begin, AtLoop
  <2>2. \A j \in IOs : io'[j].at = "post" => io'[j] = io[j]
    BY <2>1 DEF At
  <2>3. \A e \in Executors : Quiet(e)' => Quiet(e)
    BY <2>1, Zenon DEF Quiet, Acked
  <2> QED BY <1>2, <2>1, <2>2, <2>3, Zenon
<1>6. ASSUME NEW i \in IOs, IoAck(i)
      PROVE  Routed'
  <2>1. UNCHANGED <<lane, stale, owner, io, stage>> /\ stage = "IoDrain"
    BY <1>6, Zenon DEF IoAck
  <2> QED BY <1>2, <2>1, Zenon DEF Quiet
<1>7. CASE lb_controller_tick
  <2>1. UNCHANGED <<lane, stale, owner, io>> /\ stage' = "IoDrain"
    BY <1>7, Zenon DEF lb_controller_tick
  <2> QED BY <1>2, <2>1, Zenon DEF Quiet
<1>8. CASE BeginExDrain \/ lb_stage_timed_out \/ lb_commit_shard_plan \/ MoveMembership \/ FinishCommit
  <2>1. /\ io' = io \/ \E place \in {"begin", "loop", "commit", "publish"} : Goto(place)
        /\ stage' \in {stage, "Idle"}
        /\ UNCHANGED <<lane, stale, owner, epoch, ack, ex, look>>
    BY <1>8, Zenon DEF BeginExDrain, lb_stage_timed_out, lb_commit_shard_plan, MoveMembership, FinishCommit
  <2>2. \A j \in IOs : io'[j].at = "post" => io'[j] = io[j]
    BY <2>1 DEF Goto, At
  <2>3. \A e \in Executors : Quiet(e)' => Quiet(e)
    BY <2>1, Zenon DEF Quiet, Acked
  <2> QED BY <1>2, <2>1, <2>2, <2>3, Zenon
<1>9. CASE PublishExDrain
  <2>1. /\ Coordinating("begin") /\ Goto("loop")
        /\ UNCHANGED <<lane, stale, owner, epoch, ack, ex, look>>
    BY <1>9, Zenon DEF PublishExDrain
  <2>2. \A j \in IOs : io'[j].at = "post" => io'[j] = io[j]
    BY <2>1, Zenon DEF Goto, At
  <2>3. \A e \in Executors : ~ExAcked(e) /\ look[e] # epoch
    BY <2>1, Zenon DEF Protocol, BeforeExDrain
  <2>4. \A e \in Executors : ~Quiet(e)'
    BY <2>1, <2>3, Zenon DEF Quiet, Acked, ExAcked
  <2> QED BY <1>2, <2>1, <2>2, <2>4, Zenon
<1>10. CASE commit_transfer
  <2>1. /\ Moving /\ UNCHANGED <<lane, stale>> /\ Goto("finish")
    BY <1>10, Zenon DEF commit_transfer, Moving, Coordinating
  <2>2. /\ \A e \in Executors : Quiet(e)
        /\ \A i \in IOs : io[i].at # "post"
    BY <1>1, <2>1, Zenon DEF Protocol, lb_all_ex_acked, Quiet
  <2>3. \A e \in Executors, p \in Threads : lane[p][e] = <<>>
    BY <1>1, <2>2, Zenon DEF QuietIsEmpty
  <2>4. \A i \in IOs : io'[i].at # "post"
    BY <2>1, <2>2, Zenon DEF Goto, At
  <2> QED BY <1>1, <2>1, <2>3, <2>4 DEF LanesRouted, NothingStale, PostsRouted, QuietIsEmpty
<1>11. CASE issue_flip \/ FlipEnds
  <2>1. stage' \in {stage, "Idle"} /\ UNCHANGED <<lane, stale, owner, io, epoch, ack, ex, look>>
    BY <1>11, Zenon DEF issue_flip, flip_begin, FlipEnds
  <2>2. \A e \in Executors : Quiet(e)' => Quiet(e)
    BY <2>1, Zenon DEF Quiet, Acked
  <2> QED BY <1>2, <2>1, <2>2, Zenon
<1>12. ASSUME NEW e \in Executors, StartPass(e)
       PROVE  Routed'
  <2>1. /\ ex' = [ex EXCEPT ![e] = "work"]
        /\ UNCHANGED <<lane, stale, owner, io, stage, epoch, ack, look>>
    BY <1>12, Zenon DEF StartPass
  <2>2. \A f \in Executors : Quiet(f)' => Quiet(f)
    BY <2>1, Zenon DEF Quiet, Acked
  <2> QED BY <1>2, <2>1, <2>2, Zenon
<1>13. ASSUME NEW e \in Executors, ControlPass(e)
       PROVE  Routed'
  <2>1. UNCHANGED <<lane, stale, owner, io, stage, epoch, ack>>
    BY <1>13, Zenon DEF ControlPass
  <2>2. \A f \in Executors : f # e => (Quiet(f)' => Quiet(f))
    BY <1>13, <2>1 DEF ControlPass, Quiet, Acked
  <2>3. Quiet(e)' => Quiet(e) \/ \A p \in Threads : lane[p][e] = <<>>
    BY <1>13, <2>1, Zenon DEF ControlPass, flip_quiesced, Quiet, Acked
  <2>4. QuietIsEmpty'
    BY <1>1, <2>1, <2>2, <2>3, Zenon DEF QuietIsEmpty
  <2> QED BY <1>1, <2>1, <2>4 DEF LanesRouted, NothingStale, PostsRouted
<1>14. ASSUME NEW e \in Executors, lb_ack(e)
       PROVE  Routed'
  <2>1. /\ ex[e] = "ack" /\ ex' = [ex EXCEPT ![e] = "top"]
        /\ ack' = [ack EXCEPT ![e] = <<epoch, stage>>]
        /\ UNCHANGED <<lane, stale, owner, io, stage, epoch>>
        /\ \A f \in Executors : f # e => look'[f] = look[f]
    BY <1>14, Zenon DEF lb_ack
  <2>2. stage = "ExDrain" => look[e] = epoch
    BY <1>14, Zenon DEF lb_ack, Excused
  <2>3. \A f \in Executors : f # e => (Quiet(f)' => Quiet(f))
    BY <2>1 DEF Quiet, Acked, Threads
  <2>4. Quiet(e)' => Quiet(e)
    BY <2>1, <2>2, Zenon DEF Quiet
  <2> QED BY <1>2, <2>1, <2>3, <2>4, Zenon
<1>15. ASSUME NEW e \in Executors, NEW p \in Threads, drain_tasks(e, p)
       PROVE  Routed'
  <2> DEFINE t == Head(lane[p][e])
             ln == [lane EXCEPT ![p][e] = Tail(@)]
  <2>1. /\ lane[p][e] \in Seq(Tasks) /\ lane[p][e] # <<>>
        /\ RunTask(e, t, ln)
        /\ UNCHANGED <<owner, io, stage, epoch, ack, ex, look>>
    BY <1>15 DEF drain_tasks, TaskTypes
  <2>2. t = lane[p][e][1] /\ 1 \in 1..Len(lane[p][e])
    BY <2>1
  <2>3. owner[t.shard] = e
    BY <1>1, <2>2 DEF LanesRouted
  <2>4. lane' = ln /\ UNCHANGED stale
    BY <2>1, <2>3, Zenon DEF RunTask
  <2>5. /\ lane'[p][e] = Tail(lane[p][e])
        /\ \A q \in Threads, f \in Executors :
              q # p \/ f # e => lane'[q][f] = lane[q][f]
    BY <2>4 DEF TaskTypes
  <2>6. LanesRouted'
    <3> SUFFICES ASSUME NEW q \in Threads, NEW f \in Executors, NEW j \in 1..Len(lane'[q][f])
                 PROVE  owner[lane'[q][f][j].shard] = f
      BY <2>1, Zenon DEF LanesRouted
    <3> HIDE DEF Types, ControlTypes, IoTypes, Routed, t, ln
    <3>1. CASE q # p \/ f # e
      <4>1. lane'[q][f] = lane[q][f]
        BY <2>5, <3>1, Zenon
      <4> QED BY <1>1, <4>1 DEF LanesRouted
    <3>2. CASE q = p /\ f = e
      <4>1. j \in 1..Len(Tail(lane[p][e])) /\ lane'[p][e][j] = Tail(lane[p][e])[j]
        BY <2>5, <3>2, Zenon
      <4>2. j + 1 \in 1..Len(lane[p][e]) /\ lane'[p][e][j] = lane[p][e][j + 1]
        BY <2>1, <4>1, TailElements, Zenon
      <4> QED BY <1>1, <3>2, <4>2 DEF LanesRouted
    <3> QED BY <3>1, <3>2, Zenon
  <2>7. QuietIsEmpty'
    <3>1. \A f \in Executors : Quiet(f)' <=> Quiet(f)
      BY <2>1, Zenon DEF Quiet, Acked
    <3>2. ~Quiet(e)
      BY <1>1, <2>1, Zenon DEF QuietIsEmpty
    <3> QED BY <1>1, <2>5, <3>1, <3>2, Zenon DEF QuietIsEmpty
  <2> QED BY <1>1, <2>1, <2>4, <2>6, <2>7, Zenon DEF NothingStale, PostsRouted
<1>16. ASSUME NEW e \in Executors, ServiceStale(e)
       PROVE  Routed'
  BY <1>1, <1>16, Zenon DEF ServiceStale, NothingStale
<1>17. ASSUME NEW e \in Executors,
              ServiceStaleRelease(e) \/ \E p \in Threads : drain_releases(e, p)
       PROVE  Routed'
  <2>1. UNCHANGED <<lane, stale, owner, io, stage, epoch, ack, ex, look>>
    BY <1>17, Zenon DEF drain_releases, ServiceStaleRelease
  <2>2. \A f \in Executors : Quiet(f)' => Quiet(f)
    BY <2>1 DEF Quiet, Acked
  <2> QED BY <1>2, <2>1, <2>2, Zenon
<1>18. CASE UNCHANGED vars
  <2>1. UNCHANGED <<lane, stale, owner, io, stage, epoch, ack, ex, look>>
    BY <1>18 DEF vars
  <2>2. \A f \in Executors : Quiet(f)' => Quiet(f)
    BY <2>1, Zenon DEF Quiet, Acked
  <2> QED BY <1>2, <2>1, <2>2, Zenon
<1> HIDE DEF Routed, Types, ControlTypes, IoTypes, control, places, queues, work
<1> QED
  BY <1>3, <1>4, <1>5, <1>6, <1>7, <1>8, <1>9, <1>10, <1>11, <1>12, <1>13, <1>14, <1>15, <1>16,
     <1>17, <1>18, Zenon DEF Next, IoStep, CoordinatorStep, ExecutorStep, Drain

-----------------------------------------------------------------------------
(* The order. *)

\* A post appends the next number of its IO thread and shard.
LEMMA PostKeepsOrder ==
    ASSUME Types, Protocol, Routed, Ordered, ~withdrawn, NEW i \in IOs, PostTask(i)
    PROVE  Ordered'
<1> DEFINE s == io[i].shard
           e == io[i].target
           t == Task(i, s, sent[i][s] + 1)
<1>1. /\ s \in Shards /\ e \in Executors /\ i \in Threads /\ e = owner[s]
      /\ sent[i][s] \in Nat /\ lane[i][e] \in Seq(Tasks)
      /\ lane \in [Threads -> [Executors -> Seq(Tasks)]] /\ sent \in [IOs -> [Shards -> Nat]]
  BY Zenon DEF PostTask, Types, IoTypes, TaskTypes, Routed, PostsRouted, Threads
<1>2. \/ UNCHANGED <<lane, sent>>
      \/ /\ lane' = [lane EXCEPT ![i][e] = Append(@, t)]
         /\ sent' = [sent EXCEPT ![i][s] = @ + 1]
  BY Zenon DEF PostTask
<1>3. UNCHANGED <<owner, executed>>
  BY Zenon DEF PostTask, places
<1>4. t \in Tasks /\ t.io = i /\ t.shard = s /\ t.n = sent[i][s] + 1
  BY <1>1 DEF Task, Tasks
<1>5. t = Task(i, s, sent[i][s] + 1)
  BY Zenon
<1> HIDE DEF s, e, t
<1>6. CASE UNCHANGED <<lane, sent>>
  BY <1>3, <1>6 DEF Ordered, LanesInOrder, SentIsKept, InLane, ExecutedWereSent, ExecutedInOrder
<1>7. CASE /\ lane' = [lane EXCEPT ![i][e] = Append(@, t)]
           /\ sent' = [sent EXCEPT ![i][s] = @ + 1]
  <2>1. /\ lane'[i][e] = Append(lane[i][e], t)
        /\ \A p \in Threads, f \in Executors : p # i \/ f # e => lane'[p][f] = lane[p][f]
    BY <1>1, <1>7, Zenon
  <2>2. /\ sent'[i][s] = sent[i][s] + 1
        /\ \A p \in IOs, q \in Shards : p # i \/ q # s => sent'[p][q] = sent[p][q]
    BY <1>1, <1>7, Zenon
  <2>3. /\ Len(lane'[i][e]) = Len(lane[i][e]) + 1 /\ Len(lane[i][e]) \in Nat
        /\ lane'[i][e][Len(lane[i][e]) + 1] = t
        /\ \A j \in 1..Len(lane[i][e]) : lane'[i][e][j] = lane[i][e][j]
    BY <1>1, <1>4, <2>1
  <2>4. ASSUME NEW p \in IOs, NEW q \in Shards
        PROVE  1..sent[p][q] \subseteq 1..sent'[p][q]
    BY <1>1, <2>2
  <2>5. LanesInOrder'
    <3> SUFFICES ASSUME NEW p \in Threads, NEW f \in Executors, NEW j \in 1..Len(lane'[p][f])
                 PROVE  /\ lane'[p][f][j].io = p
                        /\ lane'[p][f][j].n \in 1..sent'[p][lane'[p][f][j].shard]
                        /\ \A k \in 1..(j - 1) : lane'[p][f][k].shard = lane'[p][f][j].shard =>
                                                     lane'[p][f][k].n < lane'[p][f][j].n
      BY Zenon DEF LanesInOrder
    <3>1. ASSUME j \in 1..Len(lane[p][f]), \A k \in 1..j : lane'[p][f][k] = lane[p][f][k]
          PROVE  /\ lane'[p][f][j].io = p
                 /\ lane'[p][f][j].n \in 1..sent'[p][lane'[p][f][j].shard]
                 /\ \A k \in 1..(j - 1) : lane'[p][f][k].shard = lane'[p][f][j].shard =>
                                              lane'[p][f][k].n < lane'[p][f][j].n
      <4>1. lane[p][f][j] \in Tasks /\ lane[p][f][j].io = p
        BY <1>1, <3>1 DEF Ordered, LanesInOrder
      <4>2. p \in IOs /\ lane[p][f][j].shard \in Shards
        BY <4>1, Zenon DEF Tasks
      <4>3. lane'[p][f][j] = lane[p][f][j]
        BY <3>1
      <4>4. lane[p][f][j].n \in 1..sent'[p][lane[p][f][j].shard]
        BY <2>4, <3>1, <4>2, Zenon DEF Ordered, LanesInOrder
      <4>5. \A k \in 1..(j - 1) : lane[p][f][k].shard = lane[p][f][j].shard =>
                                    lane[p][f][k].n < lane[p][f][j].n
        BY <3>1, Zenon DEF Ordered, LanesInOrder
      <4>6. \A k \in 1..(j - 1) : lane'[p][f][k] = lane[p][f][k]
        BY <3>1
      <4> QED BY <4>1, <4>3, <4>4, <4>5, <4>6, Zenon
    <3>2. CASE p # i \/ f # e
      BY <2>1, <3>1, <3>2, Zenon
    <3>3. CASE p = i /\ f = e /\ j \in 1..Len(lane[i][e])
      <4>1. \A k \in 1..j : k \in 1..Len(lane[i][e])
        BY <2>3, <3>3
      <4> QED BY <2>3, <3>1, <3>3, <4>1, Zenon
    <3>4. CASE p = i /\ f = e /\ j = Len(lane[i][e]) + 1
      <4>1. lane'[p][f][j] = t /\ t.n \in 1..sent'[i][s]
        BY <1>1, <1>4, <2>2, <2>3, <3>4
      <4>2. ASSUME NEW k \in 1..(j - 1), lane'[p][f][k].shard = s
            PROVE  lane'[p][f][k].n < t.n
        <5>1. k \in 1..Len(lane[i][e]) /\ lane'[p][f][k] = lane[i][e][k]
          BY <2>3, <3>4
        <5>2. lane[i][e][k].n \in 1..sent[i][s]
          BY <4>2, <5>1, <1>1 DEF Ordered, LanesInOrder
        <5> QED BY <1>1, <1>4, <5>1, <5>2
      <4> QED BY <1>4, <3>4, <4>1, <4>2
    <3>5. p # i \/ f # e \/ j \in 1..Len(lane[i][e]) \/ j = Len(lane[i][e]) + 1
      BY <2>3
    <3> QED BY <3>2, <3>3, <3>4, <3>5, Zenon
  <2>6. SentIsKept'
    <3> SUFFICES ASSUME NEW p \in IOs, NEW q \in Shards, NEW n \in 1..sent'[p][q],
                        Task(p, q, n) \notin executed
                 PROVE  InLane(p, q, n)'
      BY <1>3 DEF SentIsKept
    <3>1. CASE n \in 1..sent[p][q]
      <4>1. PICK j \in 1..Len(lane[p][owner[q]]) : lane[p][owner[q]][j] = Task(p, q, n)
        BY <3>1, Zenon DEF Ordered, SentIsKept, InLane
      <4>2. j \in 1..Len(lane'[p][owner[q]]) /\ lane'[p][owner[q]][j] = lane[p][owner[q]][j]
        <5>1. p \in Threads /\ owner[q] \in Executors
          BY DEF Threads, Types, PlaceTypes
        <5>2. CASE p # i \/ owner[q] # e
          BY <2>1, <4>1, <5>1, <5>2, Zenon
        <5>3. CASE p = i /\ owner[q] = e
          <6>1. j \in 1..Len(lane[i][e])
            BY <4>1, <5>3, Zenon
          <6>2. j \in 1..Len(lane'[i][e]) /\ lane'[i][e][j] = lane[i][e][j]
            BY <1>1, <2>3, <6>1
          <6> QED BY <5>3, <6>2, Zenon
        <5> QED BY <5>2, <5>3, Zenon
      <4> QED BY <1>3, <4>1, <4>2, Zenon DEF InLane
    <3>2. CASE n \notin 1..sent[p][q]
      <4>1. p = i /\ q = s /\ n = sent[i][s] + 1
        BY <1>1, <2>2, <3>2
      <4>2. /\ Len(lane[i][e]) + 1 \in 1..Len(lane'[i][e])
            /\ lane'[i][e][Len(lane[i][e]) + 1] = Task(p, q, n)
        BY <1>5, <2>3, <4>1
      <4>3. lane'[p][owner'[q]] = lane'[i][e]
        BY <1>1, <1>3, <4>1, Zenon
      <4> QED BY <4>2, <4>3, Zenon DEF InLane
    <3> QED BY <3>1, <3>2, Zenon
  <2>7. ExecutedWereSent'
    <3> SUFFICES ASSUME NEW x \in executed
                 PROVE  x.n \in 1..sent'[x.io][x.shard]
      BY <1>3, Zenon DEF ExecutedWereSent
    <3>1. x \in Tasks
      BY Zenon DEF Types, TaskTypes
    <3>2. x.io \in IOs /\ x.shard \in Shards
      BY <3>1 DEF Tasks
    <3> QED BY <2>4, <3>2, Zenon DEF Ordered, ExecutedWereSent
  <2>8. ExecutedInOrder'
    BY <1>3, Zenon DEF Ordered, ExecutedInOrder
  <2> QED BY <2>5, <2>6, <2>7, <2>8, Zenon DEF Ordered
<1> QED BY <1>2, <1>6, <1>7, Zenon

\* A drained task is executed where it is, and is the oldest of its kind.
LEMMA DrainKeepsOrder ==
    ASSUME Types, Routed, Ordered, NEW e \in Executors, NEW p \in Threads, drain_tasks(e, p)
    PROVE  Ordered'
<1> DEFINE t == Head(lane[p][e])
           ln == [lane EXCEPT ![p][e] = Tail(@)]
<1>1. /\ lane \in [Threads -> [Executors -> Seq(Tasks)]]
      /\ lane[p][e] \in Seq(Tasks) /\ lane[p][e] # <<>>
      /\ RunTask(e, t, ln) /\ UNCHANGED <<owner, sent>>
  BY Zenon DEF drain_tasks, Types, TaskTypes, places
<1>2. t = lane[p][e][1] /\ 1 \in 1..Len(lane[p][e]) /\ Len(lane[p][e]) \in Nat /\ t \in Tasks
  BY <1>1
<1>3. owner[t.shard] = e
  BY <1>2 DEF Routed, LanesRouted
<1>4. lane' = ln /\ executed' = executed \cup {t}
  BY <1>1, <1>3, Zenon DEF RunTask
<1>5. /\ lane'[p][e] = Tail(lane[p][e])
      /\ \A q \in Threads, f \in Executors : q # p \/ f # e => lane'[q][f] = lane[q][f]
  BY <1>1, <1>4, Zenon
<1> HIDE DEF t, ln
<1>6. /\ Len(lane'[p][e]) = Len(lane[p][e]) - 1
      /\ \A j \in 1..Len(lane'[p][e]) : j + 1 \in 1..Len(lane[p][e]) /\
                                           lane'[p][e][j] = lane[p][e][j + 1]
  BY <1>1, <1>5
<1>7. t.io = p /\ p \in IOs /\ t.shard \in Shards /\ t.n \in 1..sent[p][t.shard] /\ t.n \in Nat
  BY <1>2, Zenon DEF Ordered, LanesInOrder, Tasks
<1>8. t = Task(p, t.shard, t.n)
  BY <1>2, <1>7, Zenon DEF Task, Tasks
<1>9. LanesInOrder'
  <2> SUFFICES ASSUME NEW q \in Threads, NEW f \in Executors, NEW j \in 1..Len(lane'[q][f])
               PROVE  /\ lane'[q][f][j].io = q
                      /\ lane'[q][f][j].n \in 1..sent[q][lane'[q][f][j].shard]
                      /\ \A k \in 1..(j - 1) : lane'[q][f][k].shard = lane'[q][f][j].shard =>
                                                   lane'[q][f][k].n < lane'[q][f][j].n
    BY <1>1 DEF LanesInOrder
  <2>1. CASE q # p \/ f # e
    <3>1. lane'[q][f] = lane[q][f]
      BY <1>5, <2>1, Zenon
    <3> QED BY <3>1 DEF Ordered, LanesInOrder
  <2>2. CASE q = p /\ f = e
    <3>1. j + 1 \in 1..Len(lane[p][e]) /\ lane'[p][e][j] = lane[p][e][j + 1]
      BY <1>6, <2>2, Zenon
    <3>2. \A k \in 1..(j - 1) : k + 1 \in 1..((j + 1) - 1) /\ lane'[p][e][k] = lane[p][e][k + 1]
      BY <1>2, <1>6, <2>2
    <3>3. /\ lane[p][e][j + 1].io = p
          /\ lane[p][e][j + 1].n \in 1..sent[p][lane[p][e][j + 1].shard]
          /\ \A k \in 1..((j + 1) - 1) : lane[p][e][k].shard = lane[p][e][j + 1].shard =>
                                             lane[p][e][k].n < lane[p][e][j + 1].n
      BY <3>1, Zenon DEF Ordered, LanesInOrder
    <3> QED BY <2>2, <3>1, <3>2, <3>3, Zenon
  <2> QED BY <2>1, <2>2, Zenon
<1>10. SentIsKept'
  <2> SUFFICES ASSUME NEW i \in IOs, NEW s \in Shards, NEW n \in 1..sent[i][s],
                      Task(i, s, n) \notin executed'
               PROVE  InLane(i, s, n)'
    BY <1>1 DEF SentIsKept
  <2>1. PICK j \in 1..Len(lane[i][owner[s]]) : lane[i][owner[s]][j] = Task(i, s, n)
    BY <1>4, Zenon DEF Ordered, SentIsKept, InLane
  <2>2. i \in Threads /\ owner[s] \in Executors
    BY Zenon DEF Threads, Types, PlaceTypes
  <2>3. CASE i # p \/ owner[s] # e
    BY <1>1, <1>5, <2>1, <2>2, <2>3, Zenon DEF InLane
  <2>4. CASE i = p /\ owner[s] = e
    <3>1. j # 1
      BY <1>2, <1>4, <2>1, <2>4, Zenon
    <3>2. j - 1 \in 1..Len(lane'[p][e]) /\ lane'[p][e][j - 1] = lane[p][e][j]
      BY <1>2, <1>6, <2>1, <2>4, <3>1
    <3> QED BY <1>1, <2>1, <2>4, <3>2, Zenon DEF InLane
  <2> QED BY <2>3, <2>4, Zenon
<1>11. ExecutedWereSent'
  BY <1>1, <1>4, <1>7, Zenon DEF Ordered, ExecutedWereSent
<1>12. ExecutedInOrder'
  <2>1. ASSUME NEW k \in 1..t.n
        PROVE  Task(p, t.shard, k) \in executed'
    <3>1. CASE k = t.n
      BY <1>4, <1>8, <3>1
    <3>2. CASE k < t.n /\ Task(p, t.shard, k) \notin executed
      <4>1. k \in 1..sent[p][t.shard]
        <5>1. sent[p][t.shard] \in Nat
          BY <1>7 DEF Types, TaskTypes
        <5> QED BY <1>7, <5>1
      <4>2. PICK j \in 1..Len(lane[p][e]) : lane[p][e][j] = Task(p, t.shard, k)
        BY <1>3, <1>7, <3>2, <4>1 DEF Ordered, SentIsKept, InLane
      <4>3. lane[p][e][j].shard = t.shard /\ lane[p][e][j].n = k
        BY <4>2 DEF Task
      <4>4. j # 1 => lane[p][e][1].n < lane[p][e][j].n
        <5>1. j # 1 => 1 \in 1..(j - 1)
          BY <1>2
        <5>2. \A h \in 1..(j - 1) : lane[p][e][h].shard = lane[p][e][j].shard =>
                                      lane[p][e][h].n < lane[p][e][j].n
          BY Zenon DEF Ordered, LanesInOrder
        <5> QED BY <1>2, <4>3, <5>1, <5>2, Zenon
      <4> QED BY <1>2, <1>7, <3>2, <4>3, <4>4
    <3> QED BY <1>4, <1>7, <3>1, <3>2
  <2> QED BY <1>4, <1>7, <2>1 DEF Ordered, ExecutedInOrder
<1> QED BY <1>9, <1>10, <1>11, <1>12, Zenon DEF Ordered

\* Every step keeps the order. The ownership edge finds all lanes empty.
LEMMA OrderStep ==
    ASSUME Types, Protocol, Routing, Order, [Next]_vars, ~Excused'
    PROVE  Ordered'
<1> USE DEF places, queues, work
<1>1. ~late /\ ~withdrawn /\ Routed /\ Ordered
  BY ExcusesStay DEF Excused, Routing, Order
<1>2. CASE UNCHANGED <<lane, owner, sent, executed>>
  BY <1>1, <1>2 DEF Ordered, LanesInOrder, SentIsKept, InLane, ExecutedWereSent, ExecutedInOrder
<1>3. ASSUME NEW i \in IOs, NEW s \in Shards, SampleOwner(i, s) \/ SampleRelease(i, s)
      PROVE  UNCHANGED <<lane, owner, sent, executed>>
  BY <1>3, Zenon DEF SampleOwner, SampleRelease
<1>4. ASSUME NEW i \in IOs, PostRelease(i) \/ ParseFlip(i) \/ CommandFlip(i) \/ IoAck(i)
      PROVE  UNCHANGED <<lane, owner, sent, executed>>
  BY <1>4, Zenon DEF PostRelease, ParseFlip, CommandFlip, IoAck
<1>5. ASSUME \/ lb_controller_tick \/ BeginExDrain \/ PublishExDrain \/ lb_stage_timed_out
             \/ lb_commit_shard_plan \/ MoveMembership \/ FinishCommit \/ issue_flip \/ FlipEnds
             \/ UNCHANGED vars
      PROVE  UNCHANGED <<lane, owner, sent, executed>>
  BY <1>5, Zenon DEF lb_controller_tick, BeginExDrain, PublishExDrain, lb_stage_timed_out,
              lb_commit_shard_plan, MoveMembership, FinishCommit, issue_flip, FlipEnds, vars
<1>6. ASSUME NEW e \in Executors,
             \/ StartPass(e) \/ ControlPass(e) \/ lb_ack(e) \/ ServiceStaleRelease(e)
             \/ \E p \in Threads : drain_releases(e, p)
      PROVE  UNCHANGED <<lane, owner, sent, executed>>
  BY <1>6, Zenon DEF StartPass, ControlPass, lb_ack, drain_releases, ServiceStaleRelease
<1>7. ASSUME NEW i \in IOs, PostTask(i)
      PROVE  Ordered'
  BY <1>1, <1>7, PostKeepsOrder, Zenon
<1>8. ASSUME NEW e \in Executors, NEW p \in Threads, drain_tasks(e, p)
      PROVE  Ordered'
  BY <1>1, <1>8, DrainKeepsOrder, Zenon
<1>9. ASSUME NEW e \in Executors, ServiceStale(e)
      PROVE  FALSE
  BY <1>1, <1>9, Zenon DEF ServiceStale, Routed, NothingStale
<1>10. CASE commit_transfer
  <2>1. Moving /\ UNCHANGED <<lane, sent, executed>> /\ owner' = [owner EXCEPT ![plan.shard] = plan.dest]
    BY <1>10 DEF commit_transfer, Moving, Coordinating
  <2>2. \A e \in Executors : Quiet(e)
    BY <1>1, <2>1, Zenon DEF Protocol, lb_all_ex_acked, Quiet
  <2>3. \A e \in Executors, p \in Threads : lane[p][e] = <<>>
    BY <1>1, <2>2 DEF Routed, QuietIsEmpty
  <2>4. \A s \in Shards, i \in IOs, n \in Nat : ~InLane(i, s, n)
    BY <2>3 DEF InLane, Types, PlaceTypes, Threads
  <2>5. \A i \in IOs, s \in Shards : \A n \in 1..sent[i][s] : Task(i, s, n) \in executed
    BY <1>1, <2>4 DEF Ordered, SentIsKept, Types, TaskTypes
  <2> QED BY <1>1, <2>1, <2>5 DEF Ordered, LanesInOrder, SentIsKept, ExecutedWereSent, ExecutedInOrder
<1> QED
  BY <1>2, <1>3, <1>4, <1>5, <1>6, <1>7, <1>8, <1>9, <1>10, Zenon
     DEF Next, IoStep, CoordinatorStep, ExecutorStep, Drain

-----------------------------------------------------------------------------
(* The invariant and what follows from it. *)

\* The initial states satisfy the invariant.
LEMMA InitIsInvariant == Init => IInv
<1> SUFFICES ASSUME Init PROVE IInv
  OBVIOUS
<1> USE MigrationAssumption DEF Init, AtLoop, At
<1>1. ControlTypes
  BY DEF ControlTypes, Stages, NoAck
<1>2. PlaceTypes
  BY Zenon DEF PlaceTypes
<1>3. IoTypes
  BY Zenon DEF IoTypes, Places
<1>4. TaskTypes
  BY DEF TaskTypes
<1>5. ReleaseTypes
  BY DEF ReleaseTypes
<1>6. Protocol
  BY Zenon DEF Protocol, BeforeExDrain, Coordinating, Moving
<1>7. Placement
  BY Zenon DEF Placement, Coordinating, Owners
<1>8. Routed
  BY DEF Routed, LanesRouted, NothingStale, PostsRouted, QuietIsEmpty, Quiet
<1>9. Ordered
  BY DEF Ordered, LanesInOrder, SentIsKept, ExecutedWereSent, ExecutedInOrder
<1> QED
  BY <1>1, <1>2, <1>3, <1>4, <1>5, <1>6, <1>7, <1>8, <1>9 DEF IInv, Types, Routing, Order

\* Every step preserves it.
LEMMA StepKeepsInvariant == IInv /\ [Next]_vars => IInv'
<1> SUFFICES ASSUME IInv, [Next]_vars PROVE IInv'
  OBVIOUS
<1>1. Types'
  BY ControlTypesStep, PlaceTypesStep, IoTypesStep, TaskTypesStep, ReleaseTypesStep DEF IInv, Types
<1>2. Protocol'
  BY ProtocolStep DEF IInv
<1>3. Placement'
  BY PlacementStep DEF IInv
<1>4. Routing'
  BY RoutingStep DEF IInv, Routing
<1>5. Order'
  BY OrderStep DEF IInv, Order
<1> QED
  BY <1>1, <1>2, <1>3, <1>4, <1>5 DEF IInv

\* IInv holds in every reachable state.
LEMMA Invariance == Spec => []IInv
<1> QED
  BY InitIsInvariant, StepKeepsInvariant, PTL DEF Spec

\* However many IO threads, executors and shards there are, and however the drains,
\* their withdrawals and the executors' passes interleave: while the coordinator
\* moves a shard (transfer_shard_quiesced, commit_transfer) no executor is inside a
\* pass and nothing is queued for a shard, and outside a move exactly the published
\* owner has the shard in its vector; save for the two exceptions HardSafePoint names.
THEOREM MovesAtTheSafePoint == Spec => []HardSafePoint
<1>1. IInv => HardSafePoint
  <2> SUFFICES ASSUME IInv PROVE HardSafePoint
    OBVIOUS
  <2>1. ASSUME Moving, ~withdrawn
        PROVE  \A e \in Executors : ex[e] # "work"
    BY <2>1, Zenon DEF IInv, Protocol, lb_all_ex_acked
  <2>2. ASSUME Moving, ~withdrawn, ~late
        PROVE  AllDrained
    <3>1. Routed /\ \A e \in Executors : Quiet(e)
      BY <2>2 DEF IInv, Routing, Excused, Protocol, lb_all_ex_acked, Quiet
    <3>2. \A i \in IOs : io[i].at # "post"
      BY <2>2 DEF IInv, Protocol
    <3> QED BY <3>1, <3>2 DEF AllDrained, Routed, QuietIsEmpty, NothingStale
  <2>3. ASSUME ~Moving, NEW s \in Shards
        PROVE  {e \in Executors : s \in member[e]} = {owner[s]}
    BY <2>3, Zenon DEF IInv, Placement, Owners, Moving, Coordinating
  <2> QED BY <2>1, <2>2, <2>3 DEF HardSafePoint
<1> QED
  BY <1>1, Invariance, PTL

\* And the tasks an IO thread sends to a shard are executed in the order they were
\* sent, across every migration (execute, forward_stale_task, lb_commit_shard_plan).
THEOREM ExecutionFollowsTheOrder == Spec => []TasksInOrder
<1>1. IInv => TasksInOrder
  BY DEF IInv, Order, Excused, Ordered, ExecutedInOrder, TasksInOrder
<1> QED
  BY <1>1, Invariance, PTL
=============================================================================
