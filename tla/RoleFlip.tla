------------------------------ MODULE RoleFlip ------------------------------
(***************************************************************************)
(* FLIP: the live change of the split between IO threads and executors     *)
(* (core/server.h, core/io_loop.h, core/ex_loop.h). The thread on which    *)
(* the FLIP was admitted coordinates it. It publishes a stage; every       *)
(* thread does its part in the control pass at the end of its loop and     *)
(* acknowledges; the coordinator looks at the acknowledgements and         *)
(* publishes the next stage:                                               *)
(*   IoDrain, IoPrepare, ExDrain, ClientPrepare, ClientCommit,             *)
(*   ClientInstall, RoleReady, ExInstall, and Idle again.                  *)
(* A failure, or five seconds, before ClientCommit leads to Rollback.      *)
(* Dispatch and admission of connections are paused while a FLIP runs.     *)
(***************************************************************************)
EXTENDS Integers, FiniteSets, WeightedLb

CONSTANTS
    Threads,     \* 0..n-1
    Clients, Shards,
    Domain,      \* Domain[t]: the L3 domain of a thread
    Keepers,     \* the AOF writer and the owner of the UNIX listener
    Sticky,      \* connections with owner-local state (TLS) that cannot move
    Weight,      \* Weight[i]: sampled demand of a connection or a shard
    KeyOf,       \* KeyOf[c]: the shard the commands of a connection touch
    Scenarios,   \* starting shapes, and what may happen in them
    MaxFlips,    \* bound on the FLIP requests of a scenario
    MaxRefusals  \* no more failures once that many FLIPs have been refused

VARIABLES
    role, ready,   \* the role a thread is to have, and the loop it runs
    stage, epoch, coordinator, target,
    convert,       \* convert[t]: flip_convert_, the role t is to take or "Idle"
    ack,           \* ack[t]: the epoch and the stage t acknowledged last
    failed,        \* flip_failed_
    expired,       \* the deadline has passed
    look,          \* what the coordinator has read of flip_failed_ in this pass
    plan,          \* flip_client_plan_ and _destinations_: c to its new owner
    quota,         \* flip_client_quota_
    shardPlan, shardQuota,  \* flip_shard_destination_, flip_bucket_quota_
    prepared,      \* prepared[t]: flip_prepare_epoch_
    transfers,     \* flip_active_transfers_, of connections
    owner,         \* owner[s]: worker_of_shard
    conn,          \* conn[c]: a connection
    listener,      \* listener[t]: the state of a thread's accept
    flipClient,    \* the connection whose FLIP command is running
    answered,      \* FLIP commands answered, per connection
    completed, refused, begun, \* counters; begun counts the requests
    scene,         \* the scenario
    left,          \* connections that left since the plan was made
    aborted        \* std::abort was reached

shape == <<role, ready>>
control == <<stage, epoch, coordinator, target, convert, expired>>
planned == <<plan, quota, shardPlan, shardQuota, transfers>>
counts == <<completed, refused, begun, answered>>
vars == <<shape, control, ack, failed, look, planned, prepared, owner, conn, listener,
          flipClient, counts, scene, left, aborted>>

Nobody == -1
NoClient == -1
NoAck == <<0, "Idle">>
Unlooked == "none"

Stages == <<"Idle", "IoDrain", "IoPrepare", "ExDrain", "ClientPrepare", "ClientCommit",
            "ClientInstall", "RoleReady", "ExInstall", "Rollback">>
Before(a, b) == \E i, j \in DOMAIN Stages : Stages[i] = a /\ Stages[j] = b /\ i < j
\* Wrong: the deadline still counts while connections are being committed.
ReversibleTooLong == {"IoDrain", "IoPrepare", "ExDrain", "ClientPrepare", "ClientCommit"}

\* Wrong: off by one at the other end.
ReversibleTooShort == {"IoDrain", "IoPrepare", "ExDrain"}

Reversible == {"IoDrain", "IoPrepare", "ExDrain", "ClientPrepare"}

OfRole(r) == {t \in Threads : role[t] = r}
role_count(r) == Cardinality(OfRole(r))
flip_final_role(t) == IF convert[t] = "Idle" THEN role[t] ELSE convert[t]
flip_dispatch_paused == stage # "Idle"
flip_acked(t, s) == ack[t] = <<epoch, s>>
flip_all_role_acked(r, s) == \A t \in OfRole(r) : flip_acked(t, s)
flip_ack(t, s) == ack' = [ack EXCEPT ![t] = <<epoch, s>>]

\* self_->clients() of a thread; the connections it is detaching; its inbox.
Served(t) == {c \in Clients : conn[c].st = "live" /\ conn[c].at = t}
client_migrations(t) == {c \in Served(t) : conn[c].mig # "no"}
Inbox(t) == {c \in Clients : conn[c].st = "transit" /\ conn[c].at = t}
LiveClients == {c \in Clients : conn[c].st \in {"live", "transit", "closing"}}
client_transfers_prepared(t) == \A c \in client_migrations(t) : conn[c].mig = "ready"

NewConn(t) == [st |-> "live", at |-> t, op |-> "none", ex |-> Nobody,
               mig |-> "no", to |-> Nobody, hold |-> FALSE, recv |-> TRUE]
NoConn == [st |-> "out", at |-> Nobody, op |-> "none", ex |-> Nobody,
           mig |-> "no", to |-> Nobody, hold |-> FALSE, recv |-> FALSE]

NoPlan == [c \in Clients |-> Nobody]
NoQuota == [t \in Threads |-> 0]

Init ==
    /\ scene \in Scenarios
    /\ role = scene.role /\ ready = scene.role
    /\ stage = "Idle" /\ epoch = 0 /\ coordinator = Nobody /\ target = role_count("Ifid")
    /\ convert = [t \in Threads |-> "Idle"] /\ ack = [t \in Threads |-> NoAck]
    /\ failed = FALSE /\ expired = FALSE /\ look = Unlooked
    /\ plan = NoPlan /\ quota = NoQuota
    /\ shardPlan = [s \in Shards |-> Nobody] /\ shardQuota = NoQuota
    /\ prepared = [t \in Threads |-> 0] /\ transfers = 0
    /\ owner = scene.owner
    /\ conn = [c \in Clients |-> IF scene.at[c] = Nobody THEN NoConn ELSE NewConn(scene.at[c])]
    /\ listener = [t \in Threads |-> IF role[t] = "Ifid" THEN "armed" ELSE "none"]
    /\ flipClient = NoClient /\ answered = [c \in Clients |-> 0]
    /\ completed = 0 /\ refused = 0 /\ begun = 0
    /\ left = {} /\ aborted = FALSE

-----------------------------------------------------------------------------
(* Connections. *)

\* on_accept, admit_fd, adopt_client: a connection that arrives during a FLIP
\* is closed.
Connect(c, t) ==
    /\ "connect" \in scene.may
    /\ conn[c].st = "out" /\ role[t] = "Ifid" /\ listener[t] = "armed"
    /\ ~flip_dispatch_paused
    /\ conn' = [conn EXCEPT ![c] = NewConn(t)]
    /\ UNCHANGED <<shape, control, ack, failed, look, planned, prepared, owner, listener,
                   flipClient, counts, scene, left, aborted>>

\* parse_and_dispatch of an ordinary command.
Dispatch(c) ==
    /\ "dispatch" \in scene.may
    /\ conn[c].st = "live" /\ conn[c].op = "none" /\ conn[c].mig = "no"
    /\ ~flip_dispatch_paused
    /\ conn' = [conn EXCEPT ![c].op = "task", ![c].ex = owner[KeyOf[c]]]
    /\ UNCHANGED <<shape, control, ack, failed, look, planned, prepared, owner, listener,
                   flipClient, counts, scene, left, aborted>>

\* An executor that has acknowledged ExDrain touches nothing until ExInstall.
Frozen(t) == ~Before(stage, "ExDrain") /\ flip_acked(t, "ExDrain")

Execute(t) ==
    /\ ready[t] = "Ex" /\ ~Frozen(t)
    /\ \E c \in Clients :
        /\ conn[c].op = "task" /\ conn[c].ex = t
        /\ conn' = [conn EXCEPT ![c].op = "done", ![c].ex = Nobody]
    /\ UNCHANGED <<shape, control, ack, failed, look, planned, prepared, owner, listener,
                   flipClient, counts, scene, left, aborted>>

Gone(c) == [conn[c] EXCEPT !.st = "dead", !.op = "none", !.recv = FALSE]

\* The reply is written; a connection that was closing is released.
Serve(c) ==
    /\ conn[c].op = "done" \/ (conn[c].st = "closing" /\ conn[c].op = "none")
    /\ conn' = [conn EXCEPT ![c] = IF @.st = "closing" THEN Gone(c) ELSE [@ EXCEPT !.op = "none"]]
    /\ UNCHANGED <<shape, control, ack, failed, look, planned, prepared, owner, listener,
                   flipClient, counts, scene, left, aborted>>

\* reap_dead
Reap(c) ==
    /\ conn[c].st = "dead"
    /\ conn' = [conn EXCEPT ![c].st = "gone"]
    /\ UNCHANGED <<shape, control, ack, failed, look, planned, prepared, owner, listener,
                   flipClient, counts, scene, left, aborted>>

\* on_recv of an end of file, close_client: the connection leaves clients() at
\* once, and is released when its last command has been answered and the
\* receive that a cancelled transfer armed again has ended.
close_client(c) ==
    /\ "close" \in scene.may
    /\ conn[c].st = "live" /\ conn[c].recv
    /\ conn' = [conn EXCEPT ![c] = IF @.op = "none" /\ @.mig = "no" THEN Gone(c)
                                   ELSE [@ EXCEPT !.st = "closing", !.recv = FALSE,
                                                  !.mig = "no", !.to = Nobody, !.hold = FALSE]]
    /\ left' = IF Before("IoDrain", stage) /\ stage # "Rollback" THEN left \cup {c} ELSE left
    /\ UNCHANGED <<shape, control, ack, failed, look, planned, prepared, owner, listener,
                   flipClient, counts, scene, aborted>>

-----------------------------------------------------------------------------
(* The transfer of one connection. *)

client_transfer_ready(c, t) ==
    /\ conn[c].st = "live" /\ conn[c].at = t
    /\ conn[c].op = "none" /\ c \notin Sticky

\* request_client_transfer_impl: the receive is cancelled first; until it is,
\* the source is the owner.
Detached(c, d, hold) ==
    [conn[c] EXCEPT !.mig = IF conn[c].recv THEN "wait" ELSE "ready", !.to = d, !.hold = hold]

\* commit_client_transfer: the owner edge, and the post to the destination.
Sent(k) == [k EXCEPT !.st = "transit", !.at = k.to, !.mig = "no", !.to = Nobody, !.hold = FALSE]

\* cancel_client_transfer
Kept(k) == [k EXCEPT !.mig = "no", !.to = Nobody, !.hold = FALSE, !.recv = TRUE]

AllServed == UNION {Served(t) : t \in OfRole("Ifid")}

ClientItems ==
    [c \in AllServed |-> [owner |-> conn[c].at, weight |-> Weight[c], bytes |-> 0,
                          pinned |-> c = flipClient]]

\* The load balancer's move of a connection, one at a time: the one that narrows
\* the spread most.
LbMove(c, d) ==
    /\ "balance" \in scene.may
    /\ ~flip_dispatch_paused /\ \A k \in Clients : conn[k].mig = "no" /\ conn[k].st # "transit"
    /\ <<c, d>> \in weighted_lb_best_incremental_move(ClientItems, OfRole("Ifid"), TRUE)
    /\ client_transfer_ready(c, conn[c].at)
    /\ conn' = [conn EXCEPT ![c] = Detached(c, d, FALSE)]
    /\ UNCHANGED <<shape, control, ack, failed, look, planned, prepared, owner, listener,
                   flipClient, counts, scene, left, aborted>>

\* The receive has been cancelled: finish_client_transfer.
finish_client_transfer(c) ==
    /\ conn[c].mig = "wait"
    /\ conn' = [conn EXCEPT ![c] =
         LET k == [conn[c] EXCEPT !.recv = FALSE]
         IN  IF ~client_transfer_ready(c, k.at) THEN Kept(k)
             ELSE IF k.hold THEN [k EXCEPT !.mig = "ready"] ELSE Sent(k)]
    /\ UNCHANGED <<shape, control, ack, failed, look, planned, prepared, owner, listener,
                   flipClient, counts, scene, left, aborted>>

\* drain_client_transfers, by a thread whose IO loop runs.
drain_client_transfers(t) ==
    /\ ready[t] = "Ifid" /\ Inbox(t) # {}
    /\ conn' = [c \in Clients |-> IF c \in Inbox(t)
                                  THEN [conn[c] EXCEPT !.st = "live", !.recv = TRUE] ELSE conn[c]]
    /\ UNCHANGED <<shape, control, ack, failed, look, planned, prepared, owner, listener,
                   flipClient, counts, scene, left, aborted>>

\* The cancellation of a multishot accept has completed.
AcceptCancelled(t) ==
    /\ listener[t] = "cancelling"
    /\ listener' = [listener EXCEPT ![t] = "off"]
    /\ UNCHANGED <<shape, control, ack, failed, look, planned, prepared, owner, conn,
                   flipClient, counts, scene, left, aborted>>

-----------------------------------------------------------------------------
(* Admission: flip_begin. *)

\* IO threads that may become executors, executors that may become IO threads.
Candidates(n, t) ==
    IF n < role_count("Ifid") THEN OfRole("Ifid") \ ({t} \cup Keepers) ELSE OfRole("Ex")

\* Conversions go round the domains: none gets two more than one that still
\* has a candidate.
DomainEven(chosen, candidates) ==
    LET taken(d) == Cardinality({t \in chosen : Domain[t] = d})
        domains == {Domain[t] : t \in candidates}
    IN  \A d, e \in domains :
            (\E t \in candidates \ chosen : Domain[t] = e) => taken(d) <= taken(e) + 1

Conversions(n, t) ==
    {S \in SUBSET Candidates(n, t) :
        /\ Cardinality(S) = IF n < role_count("Ifid") THEN role_count("Ifid") - n
                            ELSE n - role_count("Ifid")
        /\ DomainEven(S, Candidates(n, t))}

Valid(n, t) == n \in 1..(Cardinality(Threads) - 1) /\ role[t] = "Ifid"

Refusable(n, t) == flip_dispatch_paused \/ ~Valid(n, t)

Short(n, t) == n # role_count("Ifid") /\ Conversions(n, t) = {}

ForgetPlans ==
    /\ ack' = [t \in Threads |-> NoAck]
    /\ plan' = NoPlan /\ quota' = NoQuota /\ transfers' = 0
    /\ shardPlan' = [s \in Shards |-> Nobody] /\ shardQuota' = NoQuota

Opposite(S) ==
    [u \in Threads |-> IF u \notin S THEN "Idle" ELSE IF role[u] = "Ifid" THEN "Ex" ELSE "Ifid"]

refuse(n) ==
    /\ refused' = refused + 1
    /\ target' = IF flip_dispatch_paused THEN target ELSE n
    /\ UNCHANGED <<stage, epoch, coordinator, convert, expired, ack, failed, planned, completed>>

\* Too few threads may change: every candidate has been marked by then.
refuse_short(n, t) ==
    /\ refused' = refused + 1 /\ target' = n
    /\ ForgetPlans /\ convert' = Opposite(Candidates(n, t))
    /\ UNCHANGED <<stage, epoch, coordinator, expired, failed, completed>>

\* The live split again: complete at once.
same_split(n) ==
    /\ completed' = completed + 1 /\ target' = n
    /\ ForgetPlans /\ convert' = Opposite({})
    /\ UNCHANGED <<stage, epoch, coordinator, expired, failed, refused>>

start(n, t) ==
    /\ \E S \in Conversions(n, t) : convert' = Opposite(S)
    /\ ForgetPlans
    /\ stage' = "IoDrain" /\ epoch' = epoch + 1 /\ coordinator' = t /\ target' = n
    /\ expired' = FALSE /\ failed' = FALSE
    /\ UNCHANGED <<completed, refused>>

\* flip_begin without a transition. A snapshot or a load may be running in the
\* scenarios that say so.
AtOnce(n, t) ==
    \/ (Refusable(n, t) \/ "snapshot" \in scene.may) /\ refuse(n)
    \/ ~Refusable(n, t) /\ n = role_count("Ifid") /\ same_split(n)
    \/ ~Refusable(n, t) /\ Short(n, t) /\ refuse_short(n, t)

Starts(n, t) ==
    ~Refusable(n, t) /\ n # role_count("Ifid") /\ ~Short(n, t) /\ start(n, t) /\ left' = {}

\* The FLIP command of a connection: answered at once, or when the FLIP ends.
FlipCommand(c, n) ==
    /\ begun < scene.flips /\ begun' = begun + 1
    /\ conn[c].st = "live" /\ conn[c].op = "none" /\ conn[c].mig = "no"
    /\ \/ /\ AtOnce(n, conn[c].at) /\ answered' = [answered EXCEPT ![c] = @ + 1]
          /\ conn' = [conn EXCEPT ![c].op = "done"] /\ UNCHANGED <<flipClient, left>>
       \/ /\ Starts(n, conn[c].at) /\ UNCHANGED answered
          /\ conn' = [conn EXCEPT ![c].op = "flip"] /\ flipClient' = c
    /\ UNCHANGED <<shape, look, prepared, owner, listener, scene, aborted>>

\* Five seconds.
Expire ==
    /\ "stall" \in scene.may
    /\ stage \in Reversible /\ ~expired
    /\ expired' = TRUE
    /\ UNCHANGED <<shape, stage, epoch, coordinator, target, convert, ack, failed, look, planned,
                   prepared, owner, conn, listener, flipClient, counts, scene, left, aborted>>

-----------------------------------------------------------------------------
(* The control pass of an IO thread. *)

\* Nothing of the thread's own is under way: no reply to write, no transfer in
\* either direction, no corpse. Connections that are closing are no longer in
\* clients(), and are not looked at.
flip_io_drained(t) ==
    /\ client_migrations(t) = {} /\ Inbox(t) = {}
    /\ \A c \in Clients : conn[c].st = "dead" => conn[c].at # t
    /\ \A c \in Served(t) :
        conn[c].op = IF t = coordinator /\ c = flipClient THEN "flip" ELSE "none"

\* Failures of allocation and of system calls are there in some scenarios only,
\* and not for ever.
Fails(kind) == IF kind \in scene.may /\ refused < MaxRefusals THEN BOOLEAN ELSE {FALSE}

IoDrain(t) ==
    /\ stage = "IoDrain" /\ flip_io_drained(t)
    /\ flip_ack(t, stage)
    /\ UNCHANGED <<failed, conn, listener, prepared, transfers>>

IoPrepare(t) ==
    /\ stage = "IoPrepare" /\ flip_ack(t, stage)
    /\ \E bad \in Fails("reserve") : failed' = (failed \/ bad)
    /\ UNCHANGED <<conn, listener, prepared, transfers>>

\* The connections a source is to give away, the ones that have left included.
flip_client_plan(t) == {c \in Clients : plan[c] # Nobody /\ conn[c].at = t}
flip_source_clients(t) == Cardinality(flip_client_plan(t))

flip_candidate_clients_ready(t) ==
    \A c \in flip_client_plan(t) : c # flipClient /\ client_transfer_ready(c, t)

quiesce_accepts_for_conversion(t) ==
    IF convert[t] = "Ex" /\ listener[t] = "armed"
    THEN [listener EXCEPT ![t] = "cancelling"] ELSE listener

accepts_quiesced(t) == listener[t] \notin {"armed", "cancelling"}

\* A source that has found its planned connections idle detaches them; one that
\* cannot be detached ends the loop and fails the FLIP.
DetachPlanned(t) ==
    \E bad \in Fails("detach"), S \in SUBSET flip_client_plan(t) :
        /\ Cardinality(S) = flip_source_clients(t) - (IF bad THEN 1 ELSE 0)
        /\ failed' = (failed \/ bad)
        /\ prepared' = [prepared EXCEPT ![t] = epoch]
        /\ conn' = [c \in Clients |-> IF c \in S THEN Detached(c, plan[c], TRUE) ELSE conn[c]]
        /\ UNCHANGED ack

\* A busy connection is waited for until the deadline.
NotReady(t) ==
    /\ failed' = (failed \/ expired)
    /\ prepared' = IF expired THEN [prepared EXCEPT ![t] = epoch] ELSE prepared
    /\ UNCHANGED <<conn, ack>>

\* Every transfer the source has begun is ready: acknowledge, or fail when
\* they are not the planned ones any more.
JudgePrepared(t) ==
    /\ client_transfers_prepared(t)
    /\ \/ /\ Cardinality(client_migrations(t)) = flip_source_clients(t)
          /\ convert[t] = "Ex" => accepts_quiesced(t)
          /\ flip_ack(t, stage) /\ UNCHANGED failed
       \/ /\ Cardinality(client_migrations(t)) # flip_source_clients(t)
          /\ failed' = TRUE /\ UNCHANGED ack
    /\ UNCHANGED <<conn, prepared>>

ClientPrepare(t) ==
    /\ stage = "ClientPrepare"
    /\ listener' = quiesce_accepts_for_conversion(t)
    /\ IF flip_source_clients(t) # 0 /\ prepared[t] # epoch
       THEN IF flip_candidate_clients_ready(t) THEN DetachPlanned(t) ELSE NotReady(t)
       ELSE \/ JudgePrepared(t)
            \/ /\ listener # quiesce_accepts_for_conversion(t)
               /\ UNCHANGED <<failed, conn, prepared, ack>>
    /\ UNCHANGED transfers

\* commit_prepared_client_transfers: the owner edge of every planned connection.
ClientCommit(t) ==
    /\ stage = "ClientCommit" /\ flip_ack(t, stage)
    /\ conn' = [c \in Clients |-> IF c \in client_migrations(t) THEN Sent(conn[c]) ELSE conn[c]]
    /\ transfers' = transfers + Cardinality(client_migrations(t))
    /\ UNCHANGED <<failed, listener, prepared>>

\* The transit barrier.
ClientInstall(t) ==
    /\ stage = "ClientInstall" /\ flip_io_drained(t)
    /\ convert[t] = "Ex" => accepts_quiesced(t)
    /\ flip_ack(t, stage)
    /\ UNCHANGED <<failed, conn, listener, prepared, transfers>>

RoleReady(t) ==
    /\ stage = "RoleReady" /\ Inbox(t) = {} /\ Cardinality(Served(t)) = quota[t]
    /\ flip_ack(t, stage)
    /\ UNCHANGED <<failed, conn, listener, prepared, transfers>>

\* Wrong: the listener stays closed.
AcceptsForgotten(t) ==
    /\ stage = "Rollback" /\ client_transfers_prepared(t) /\ listener[t] # "cancelling"
    /\ conn' = [c \in Clients |-> IF c \in client_migrations(t) THEN Kept(conn[c]) ELSE conn[c]]
    /\ flip_ack(t, stage)
    /\ UNCHANGED <<failed, prepared, transfers, listener>>

\* cancel_prepared_client_transfers, restore_accepts_after_rollback
IoRollback(t) ==
    /\ stage = "Rollback" /\ client_transfers_prepared(t) /\ listener[t] # "cancelling"
    /\ conn' = [c \in Clients |-> IF c \in client_migrations(t) THEN Kept(conn[c]) ELSE conn[c]]
    /\ listener' = [listener EXCEPT ![t] = "armed"]
    /\ flip_ack(t, stage)
    /\ UNCHANGED <<failed, prepared, transfers>>

\* A pass does nothing once the stage is acknowledged.
IoPass(t) ==
    /\ ready[t] = "Ifid" /\ ~flip_acked(t, stage)
    /\ \/ IoDrain(t) \/ IoPrepare(t) \/ ClientPrepare(t) \/ ClientCommit(t)
       \/ ClientInstall(t) \/ RoleReady(t) \/ IoRollback(t)
    /\ UNCHANGED <<shape, control, look, plan, quota, shardPlan, shardQuota, owner, flipClient,
                   counts, scene, left, aborted>>

-----------------------------------------------------------------------------
(* The control pass of an executor. *)

\* prepare_io_role of an executor that is to become an IO thread.
ExPrepare(t) ==
    /\ stage = "IoPrepare" /\ convert[t] = "Ifid"
    /\ \E bad \in Fails("listen") :
        /\ failed' = (failed \/ bad)
        /\ listener' = IF bad THEN listener ELSE [listener EXCEPT ![t] = "prepared"]

\* flip_quiesced: no task in the inbox or set aside.
ExDrain(t) ==
    /\ stage = "ExDrain" /\ \A c \in Clients : conn[c].ex # t
    /\ UNCHANGED <<failed, listener>>

ExInstall(t) == stage = "ExInstall" /\ UNCHANGED <<failed, listener>>

ExRollback(t) ==
    /\ stage = "Rollback"
    /\ listener' = [listener EXCEPT ![t] = "none"]
    /\ UNCHANGED failed

ExPass(t) ==
    /\ ready[t] = "Ex" /\ ~flip_acked(t, stage) /\ flip_ack(t, stage)
    /\ ExPrepare(t) \/ ExDrain(t) \/ ExInstall(t) \/ ExRollback(t)
    /\ UNCHANGED <<shape, control, look, planned, prepared, owner, conn, flipClient, counts,
                   scene, left, aborted>>

-----------------------------------------------------------------------------
(* The coordinator. *)

FinallyOf(r) == {t \in Threads : flip_final_role(t) = r}

ShardItems ==
    [s \in Shards |-> [owner |-> owner[s], weight |-> Weight[s], bytes |-> 0, pinned |-> FALSE]]

\* flip_build_client_plan: the placements it can end with; none when the
\* connections do not add up or the bounds cannot be met.
ClientPlacements ==
    IF AllServed # LiveClients \/ (flipClient # NoClient /\ flipClient \notin AllServed) THEN {}
    ELSE weighted_lb_partition(ClientItems, FinallyOf("Ifid"))

flip_build_client_plan(place) ==
    /\ plan' = [c \in Clients |-> IF c \in DOMAIN place /\ place[c] # conn[c].at
                                  THEN place[c] ELSE Nobody]
    /\ quota' = [t \in Threads |-> Cardinality(On(place, t))]
    /\ UNCHANGED <<shardPlan, shardQuota, transfers>>

flip_shard_ownership_conserved == \A s \in Shards : role[owner[s]] = "Ex"

ShardPlacements ==
    IF ~flip_shard_ownership_conserved THEN {}
    ELSE weighted_lb_partition(ShardItems, FinallyOf("Ex"))

flip_reserve_shard_plan(place) ==
    /\ shardPlan' = place
    /\ shardQuota' = [t \in Threads |-> Cardinality(On(place, t))]
    /\ UNCHANGED <<plan, quota, transfers>>

\* First half of the coordinator's turn: the deadline and the failures noted.
Look ==
    /\ stage # "Idle" /\ look = Unlooked
    /\ failed' = (failed \/ (stage \in Reversible /\ expired))
    /\ look' = IF failed' THEN "failed" ELSE "clear"
    /\ UNCHANGED <<shape, control, ack, planned, prepared, owner, conn, listener, flipClient,
                   counts, scene, left, aborted>>

\* Wrong: only the executors that change their role are waited for.
converted_ex_acked == \A t \in Threads : convert[t] = "Ifid" => flip_acked(t, stage)

all_ex_acked == flip_all_role_acked("Ex", stage)

\* The acknowledgements the current stage waits for are all there.
StageDone ==
    CASE stage \in {"IoDrain", "ClientPrepare", "ClientCommit", "ClientInstall"} ->
            flip_all_role_acked("Ifid", stage)
      [] stage = "IoPrepare" ->
            /\ flip_all_role_acked("Ifid", stage)
            /\ \A t \in Threads : convert[t] = "Ifid" => flip_acked(t, stage)
      [] stage \in {"ExDrain", "ExInstall"} -> all_ex_acked
      [] stage = "RoleReady" ->
            /\ flip_all_role_acked("Ifid", stage)
            /\ \A t \in Threads : convert[t] # "Idle" => ready[t] = convert[t]
      [] OTHER -> flip_all_role_acked("Ifid", stage) /\ flip_all_role_acked("Ex", stage)

Publish(s) ==
    /\ stage' = s
    /\ UNCHANGED <<shape, owner, conn, flipClient, counts, aborted>>

\* A plan, or the rollback of a FLIP that has none or no memory for one.
PlanClients ==
    /\ stage = "IoDrain"
    /\ \/ /\ ClientPlacements = {} \/ TRUE \in Fails("plan")
          /\ failed' = TRUE /\ Publish("Rollback") /\ UNCHANGED planned
       \/ /\ \E place \in ClientPlacements : flip_build_client_plan(place)
          /\ Publish("IoPrepare") /\ UNCHANGED failed

Prepared == stage = "IoPrepare" /\ Publish("ExDrain") /\ UNCHANGED <<planned, failed>>

PlanShards ==
    /\ stage = "ExDrain"
    /\ \/ /\ ShardPlacements = {} \/ TRUE \in Fails("plan")
          /\ failed' = TRUE /\ Publish("Rollback") /\ UNCHANGED planned
       \/ /\ \E place \in ShardPlacements : flip_reserve_shard_plan(place)
          /\ Publish("ClientPrepare") /\ UNCHANGED failed

CommitClients ==
    /\ \E s \in {<<"ClientPrepare", "ClientCommit">>, <<"ClientCommit", "ClientInstall">>} :
        stage = s[1] /\ Publish(s[2])
    /\ UNCHANGED <<planned, failed>>

\* flip_commit_roles_and_evacuate_shards
CommitRoles ==
    /\ stage = "ClientInstall"
    /\ owner' = shardPlan
    /\ role' = [t \in Threads |-> flip_final_role(t)]
    /\ stage' = "RoleReady"
    /\ UNCHANGED <<ready, conn, flipClient, counts, aborted, planned, failed>>

\* ShardCommit is published and superseded in one turn.
InstallExecutors == stage = "RoleReady" /\ Publish("ExInstall") /\ UNCHANGED <<planned, failed>>

\* finish_flip_command
finish_flip_command ==
    IF flipClient = NoClient THEN UNCHANGED <<conn, flipClient, answered>>
    ELSE /\ conn' = [conn EXCEPT ![flipClient].op = "done"]
         /\ answered' = [answered EXCEPT ![flipClient] = @ + 1]
         /\ flipClient' = NoClient

\* The completion audit of flip_complete_active; a mismatch aborts the server.
AuditPasses ==
    LET served == [t \in Threads |-> Cardinality(Served(t))]
        owned == [t \in Threads |-> Cardinality({s \in Shards : owner[s] = t})]
    IN  /\ \A t \in Threads : ready[t] \in {"Ifid", "Ex"}
        /\ flip_shard_ownership_conserved
        /\ Cardinality({t \in Threads : ready[t] = "Ifid"}) = target
        /\ \A t \in OfRole("Ex") : owned[t] = shardQuota[t]
        /\ \A t \in OfRole("Ifid") : served[t] = quota[t]
        /\ Spread({owned[t] : t \in OfRole("Ex")}) <= 1
        /\ Spread({served[t] : t \in OfRole("Ifid")}) <= 1
        /\ transfers = Cardinality({c \in Clients : plan[c] # Nobody})

flip_complete_active ==
    /\ stage = "ExInstall"
    /\ IF AuditPasses
       THEN /\ stage' = "Idle" /\ completed' = completed + 1 /\ finish_flip_command
            /\ UNCHANGED aborted
       ELSE aborted' = TRUE /\ UNCHANGED <<stage, completed, conn, flipClient, answered>>
    /\ UNCHANGED <<shape, owner, refused, begun, planned, failed>>

flip_refuse_active ==
    /\ stage = "Rollback"
    /\ stage' = "Idle" /\ refused' = refused + 1 /\ finish_flip_command
    /\ UNCHANGED <<shape, owner, completed, begun, planned, failed, aborted>>

flip_enter_rollback == Publish("Rollback") /\ UNCHANGED <<planned, failed>>

StageSwitch ==
    \/ PlanClients \/ Prepared \/ PlanShards \/ CommitClients \/ CommitRoles
    \/ InstallExecutors \/ flip_complete_active \/ flip_refuse_active

\* Second half: act on what was seen, or look again in the next pass.
Advance ==
    /\ look # Unlooked /\ look' = Unlooked
    /\ IF look = "failed" /\ stage \in Reversible THEN flip_enter_rollback
       ELSE IF StageDone THEN StageSwitch
       ELSE UNCHANGED <<shape, stage, planned, failed, owner, conn, flipClient, counts, aborted>>
    /\ UNCHANGED <<epoch, coordinator, target, convert, expired, ack, prepared, listener, scene, left>>

-----------------------------------------------------------------------------
(* The loop of a thread whose role has changed. *)

\* run returns; an IO loop is deactivated, which aborts over a connection.
LeaveLoop(t) ==
    /\ ready[t] # "Idle" /\ ready[t] # role[t]
    /\ ready' = [ready EXCEPT ![t] = "Idle"]
    /\ aborted' = (ready[t] = "Ifid" /\ Served(t) # {})
    /\ listener' = IF ready[t] = "Ifid" THEN [listener EXCEPT ![t] = "none"] ELSE listener
    /\ UNCHANGED <<role, control, ack, failed, look, planned, prepared, owner, conn, flipClient,
                   counts, scene, left>>

\* activate, publish_ready_role
EnterLoop(t) ==
    /\ ready[t] = "Idle"
    /\ ready' = [ready EXCEPT ![t] = role[t]]
    /\ listener' = IF role[t] = "Ifid" THEN [listener EXCEPT ![t] = "armed"] ELSE listener
    /\ UNCHANGED <<role, control, ack, failed, look, planned, prepared, owner, conn, flipClient,
                   counts, scene, left, aborted>>

\* Nothing need happen between FLIPs, or after an abort.
Rest == (stage = "Idle" \/ aborted) /\ UNCHANGED vars

Work ==
    \/ \E t \in Threads : \/ IoPass(t) \/ ExPass(t) \/ Execute(t) \/ drain_client_transfers(t)
                          \/ AcceptCancelled(t) \/ LeaveLoop(t) \/ EnterLoop(t)
    \/ \E c \in Clients : \/ Serve(c) \/ Reap(c) \/ finish_client_transfer(c)
    \/ Expire

Requests ==
    \/ \E c \in Clients : \/ Dispatch(c) \/ close_client(c)
                          \/ \E t \in Threads : Connect(c, t) \/ LbMove(c, t)
                          \/ \E n \in 0..Cardinality(Threads) : FlipCommand(c, n)

Next == (~aborted /\ (Work \/ Look \/ Advance \/ Requests)) \/ Rest

\* Every thread goes round its loop, the kernel completes what it was asked
\* for, and time passes. While a FLIP runs there is only a finite amount of that
\* work, so one condition is enough for all of it; the coordinator's passes
\* have no end and need one of their own.
Fairness == WF_vars(~aborted /\ Work) /\ WF_vars(~aborted /\ (Look \/ Advance))

Spec == Init /\ [][Next]_vars
FairSpec == Spec /\ Fairness

-----------------------------------------------------------------------------
(* Properties. *)

\* Between FLIPs the shape is whole: every thread runs the loop of its role,
\* every connection is served by an IO thread, every shard is owned by an
\* executor, IO threads and only they have a listener, nothing is detached for a
\* FLIP, and no FLIP command waits for its answer. The server aborts only when a
\* connection left after the FLIP had planned its place.
ShapeIsWhole ==
    /\ stage = "Idle" =>
        /\ \A t \in Threads : ready[t] = role[t] /\ (listener[t] = "armed") = (role[t] = "Ifid")
        /\ \A t \in Threads : role[t] = "Ex" => listener[t] = "none"
        /\ \A c \in Clients : /\ conn[c].st \in {"live", "transit"} => role[conn[c].at] = "Ifid"
                              /\ conn[c].op # "flip" /\ ~conn[c].hold
        /\ \A s \in Shards : role[owner[s]] = "Ex"
        /\ flipClient = NoClient
    /\ aborted => left # {}

\* When shards change owners and threads change roles, no task is on its way to
\* an executor or in its hands, every executor has stopped at ExDrain, and the
\* only connections between owners are on their way to a thread that is an IO
\* thread from then on: flip_commit_roles_and_evacuate_shards rewrites what
\* other threads own.
OwnershipMovesQuiesced ==
    [][(owner' # owner \/ role' # role) =>
        /\ \A c \in Clients : /\ conn[c].op # "task" /\ conn[c].mig = "no"
                              /\ conn[c].st \in {"live", "transit"} => role'[conn[c].at] = "Ifid"
        /\ \A t \in OfRole("Ex") : Frozen(t)]_vars

\* Every FLIP ends: the stages of flip_control_pass cannot wait for one another,
\* and what is waited for comes or the deadline does. The exception is a
\* connection that left after its place was planned: it is taken out of its
\* thread's count and not out of the quota RoleReady compares that count with.
FlipEnds == (stage # "Idle") ~> (stage = "Idle" \/ left # {} \/ aborted)

Phase ==
    CASE stage = "Idle" -> "idle"
      [] stage \in {"ClientCommit", "ClientInstall"} -> "committed"
      [] stage \in {"RoleReady", "ExInstall"} -> "changed"
      [] OTHER -> "reversible"

Actuator == INSTANCE FlipActuator
    WITH NThreads <- Cardinality(Threads), MaxCount <- MaxFlips, phase <- Phase,
         io <- role_count("Ifid")

\* A FLIP is what its issuers take it for: atomic in roles, refused without a
\* trace before connections are committed and never after, counted once.
ImplementsActuator == Actuator!ActuatorSpec
=============================================================================
