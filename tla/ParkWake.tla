------------------------------ MODULE ParkWake ------------------------------
(***************************************************************************)
(* How an executor thread goes to sleep and how a producer wakes it.       *)
(*                                                                         *)
(* Producers push tasks into private lanes of the executor's inbox, raise  *)
(* a bit of its NotifyMask and wake its ring only if it declared itself    *)
(* blocked (core/thread.h, core/signal.h).  The executor takes the bits,   *)
(* drains the lanes they name and, when a pass finds nothing, sweeps every *)
(* lane, declares itself blocked, looks again and waits on its ring with a *)
(* timeout (ExLoop::run in core/ex_loop.h, Ring in net/uring.h).           *)
(*                                                                         *)
(* The push publishes its tail with a release store and the mask is read   *)
(* with a relaxed load, so on x86 the store may still be in the producer's *)
(* store buffer when the load is done: stored[p] counts such pushes.       *)
(***************************************************************************)
EXTENDS Naturals, FiniteSets

CONSTANTS
    Producers,   \* the threads that own a lane of this inbox
    LaneCap,     \* capacity of a lane
    SpinBudget,  \* kExSpinBudget: empty passes before the executor parks
    MaxPosts     \* bound on the tasks one producer posts

ASSUME ConstantsAssumption ==
    /\ IsFiniteSet(Producers)
    /\ LaneCap \in Nat \ {0}
    /\ SpinBudget \in Nat \ {0}
    /\ MaxPosts \in Nat \ {0}

VARIABLES
    lane,      \* lane[p]: tasks between head and the visible tail of lane p
    stored,    \* stored[p]: pushed tasks whose tail store is still buffered
    posts,     \* posts[p]: tasks p has posted so far
    notify,    \* the bits raised in task_notify_
    blocked,   \* the inbox's blocked_ flag
    ppc,       \* ppc[p]: where producer p is in a post
    sqe,       \* producers with a prepared, not yet submitted wake
    cqe,       \* a wake completion is in the executor's ring
    cpc,       \* where the executor is in its loop
    took,      \* lanes still to be drained in this pass
    did,       \* this pass popped a task
    spins,     \* idle_spins
    toCheck,   \* lanes any_ex_inbound has still to look at
    overtaken, \* lanes whose bit was read as raised ahead of a buffered tail
    dropped    \* producers whose wake found the submission queue saturated

producerVars == <<posts, ppc, stored>>
loopVars == <<cpc, took, did, spins, toCheck>>
vars == <<lane, stored, posts, notify, blocked, ppc, sqe, cqe, cpc, took, did,
          spins, toCheck, overtaken, dropped>>

ProducerSteps == {"idle", "pushed", "raised"}
LoopSteps == {"run", "drain", "sweep", "arm", "mask", "check", "sleep"}

Init ==
    /\ lane = [p \in Producers |-> 0]
    /\ stored = [p \in Producers |-> 0]
    /\ posts = [p \in Producers |-> 0]
    /\ notify = {}
    /\ blocked = FALSE
    /\ ppc = [p \in Producers |-> "idle"]
    /\ sqe = {}
    /\ cqe = FALSE
    /\ cpc = "run"
    /\ took = {}
    /\ did = FALSE
    /\ spins = 0
    /\ toCheck = {}
    /\ overtaken = {}
    /\ dropped = {}

-----------------------------------------------------------------------------
(* Producers. *)

\* post_task_quiet: a push that is not yet announced.  A parse pass may push
\* several tasks before its one flush_task_notify.
post_task_quiet(p) ==
    /\ ppc[p] \in {"idle", "pushed"}
    /\ posts[p] < MaxPosts
    /\ lane[p] + stored[p] < LaneCap
    /\ stored' = [stored EXCEPT ![p] = @ + 1]
    /\ posts' = [posts EXCEPT ![p] = @ + 1]
    /\ ppc' = [ppc EXCEPT ![p] = "pushed"]
    /\ UNCHANGED <<lane, notify, blocked, sqe, cqe, overtaken, dropped, loopVars>>

\* The hardware makes the oldest buffered tail store visible.
StoreVisible(p) ==
    /\ stored[p] > 0
    /\ stored' = [stored EXCEPT ![p] = @ - 1]
    /\ lane' = [lane EXCEPT ![p] = @ + 1]
    /\ UNCHANGED <<posts, ppc, notify, blocked, sqe, cqe, overtaken, dropped, loopVars>>

\* NotifyMask::set reads the bit first and returns when it is already raised.
NotifySetAlready(p) ==
    /\ ppc[p] = "pushed"
    /\ p \in notify
    /\ ppc' = [ppc EXCEPT ![p] = "idle"]
    /\ overtaken' = IF stored[p] > 0 THEN overtaken \cup {p} ELSE overtaken
    /\ UNCHANGED <<lane, stored, posts, notify, blocked, sqe, cqe, dropped, loopVars>>

\* Otherwise its fetch_or, a full fence, empties the store buffer and raises
\* the bit.
NotifySetRaise(p) ==
    /\ ppc[p] = "pushed"
    /\ p \notin notify
    /\ lane' = [lane EXCEPT ![p] = @ + stored[p]]
    /\ stored' = [stored EXCEPT ![p] = 0]
    /\ notify' = notify \cup {p}
    /\ ppc' = [ppc EXCEPT ![p] = "raised"]
    /\ UNCHANGED <<posts, blocked, sqe, cqe, overtaken, dropped, loopVars>>

\* The producer that raised the bit wakes the executor only if it is blocked.
\* msg_to prepares an entry of the producer's own submission queue; when the
\* queue is saturated it returns false and wake() does not look at the answer.
wake(p) ==
    /\ ppc[p] = "raised"
    /\ ppc' = [ppc EXCEPT ![p] = "idle"]
    /\ \/ /\ ~ blocked
          /\ UNCHANGED <<sqe, dropped>>
       \/ /\ blocked
          /\ sqe' = sqe \cup {p}
          /\ UNCHANGED dropped
       \/ /\ blocked
          /\ dropped' = dropped \cup {p}
          /\ UNCHANGED sqe
    /\ UNCHANGED <<lane, stored, posts, notify, blocked, cqe, overtaken, loopVars>>

\* submit: a prepared wake reaches the kernel and completes in the
\* executor's ring.
submit(p) ==
    /\ p \in sqe
    /\ sqe' = sqe \ {p}
    /\ cqe' = TRUE
    /\ UNCHANGED <<producerVars, lane, notify, blocked, overtaken, dropped, loopVars>>

-----------------------------------------------------------------------------
(* The executor. *)

\* sample_depth, at most once per 100us: republish the bit of every lane that
\* is seen to be non-empty.
sample_depth ==
    /\ cpc = "run"
    /\ notify' = notify \cup {p \in Producers : lane[p] > 0}
    /\ UNCHANGED <<producerVars, lane, blocked, sqe, cqe, overtaken, dropped, loopVars>>

\* drain_tasks takes the bits before it drains the lanes they name.
take ==
    /\ cpc = "run"
    /\ took' = notify
    /\ notify' = {}
    /\ did' = FALSE
    /\ cpc' = "drain"
    /\ UNCHANGED <<producerVars, lane, blocked, sqe, cqe, spins, toCheck,
                   overtaken, dropped>>

\* recv: pop one task of a lane this pass looks at.
recv(p) ==
    /\ cpc \in {"drain", "sweep"}
    /\ p \in took
    /\ lane[p] > 0
    /\ lane' = [lane EXCEPT ![p] = @ - 1]
    /\ did' = TRUE
    /\ UNCHANGED <<producerVars, notify, blocked, sqe, cqe, cpc, took, spins,
                   toCheck, overtaken, dropped>>

\* A lane found empty is left.
RecvEmpty(p) ==
    /\ cpc \in {"drain", "sweep"}
    /\ p \in took
    /\ lane[p] = 0
    /\ took' = took \ {p}
    /\ overtaken' = IF stored[p] = 0 THEN overtaken \ {p} ELSE overtaken
    /\ dropped' = dropped \ {p}
    /\ UNCHANGED <<producerVars, lane, notify, blocked, sqe, cqe, cpc, did,
                   spins, toCheck>>

\* for_each_cqe consumes a wake that arrived while the loop was running.
for_each_cqe ==
    /\ cpc = "run"
    /\ cqe
    /\ cqe' = FALSE
    /\ UNCHANGED <<producerVars, lane, notify, blocked, sqe, overtaken, dropped, loopVars>>

\* The end of a pass: work resets idle_spins; an empty pass spins until the
\* budget is spent and then sweeps all lanes whatever the mask says.
PassEnd ==
    /\ cpc = "drain"
    /\ took = {}
    /\ \/ /\ did
          /\ cpc' = "run"
          /\ spins' = 0
          /\ UNCHANGED took
       \/ /\ ~ did
          /\ spins + 1 < SpinBudget
          /\ cpc' = "run"
          /\ spins' = spins + 1
          /\ UNCHANGED took
       \/ /\ ~ did
          /\ spins + 1 >= SpinBudget
          /\ cpc' = "sweep"
          /\ spins' = 0
          /\ took' = Producers
    /\ UNCHANGED <<producerVars, lane, notify, blocked, sqe, cqe, did, toCheck,
                   overtaken, dropped>>

SweepEnd ==
    /\ cpc = "sweep"
    /\ took = {}
    /\ cpc' = IF did THEN "run" ELSE "arm"
    /\ UNCHANGED <<producerVars, lane, notify, blocked, sqe, cqe, took, did,
                   spins, toCheck, overtaken, dropped>>

\* Mutation: the executor goes on to its last look without declaring itself
\* blocked.
arm_nothing ==
    /\ cpc = "arm"
    /\ cpc' = "mask"
    /\ UNCHANGED <<producerVars, lane, notify, blocked, sqe, cqe, took, did,
                   spins, toCheck, overtaken, dropped>>

\* arm_blocked stores the flag and ends in a full fence.
arm_blocked ==
    /\ cpc = "arm"
    /\ blocked' = TRUE
    /\ cpc' = "mask"
    /\ UNCHANGED <<producerVars, lane, notify, sqe, cqe, took, did, spins,
                   toCheck, overtaken, dropped>>

\* any_ex_inbound found something: submit_and_reap, then clear_blocked.
Abandon ==
    /\ blocked' = FALSE
    /\ cpc' = "run"
    /\ toCheck' = {}

\* any_ex_inbound looks at the mask first ...
CheckMask ==
    /\ cpc = "mask"
    /\ \/ notify # {} /\ Abandon
       \/ notify = {} /\ cpc' = "check" /\ toCheck' = Producers /\ UNCHANGED blocked
    /\ UNCHANGED <<producerVars, lane, notify, sqe, cqe, took, did, spins,
                   overtaken, dropped>>

\* ... and then at the depth of every lane.
CheckLane(p) ==
    /\ cpc = "check"
    /\ p \in toCheck
    /\ \/ lane[p] > 0 /\ Abandon
       \/ lane[p] = 0 /\ toCheck' = toCheck \ {p} /\ UNCHANGED <<cpc, blocked>>
    /\ UNCHANGED <<producerVars, lane, notify, sqe, cqe, took, did, spins,
                   overtaken, dropped>>

\* submit_and_wait blocks when both looks found nothing ...
Sleep ==
    /\ cpc = "check"
    /\ toCheck = {}
    /\ cpc' = "sleep"
    /\ UNCHANGED <<producerVars, lane, notify, blocked, sqe, cqe, took, did,
                   spins, toCheck, overtaken, dropped>>

\* ... until a completion arrives or its 50 ms are over; clear_blocked.
Awake ==
    /\ cpc = "sleep"
    /\ blocked' = FALSE
    /\ cpc' = "run"
    /\ UNCHANGED <<producerVars, lane, notify, sqe, took, did, spins, toCheck,
                   overtaken, dropped>>

\* Mutation: the wait has no timeout.
WaitForever == cqe /\ Awake /\ UNCHANGED cqe

WaitCompleted == cqe /\ Awake /\ cqe' = FALSE
WaitTimedOut == Awake /\ UNCHANGED cqe

-----------------------------------------------------------------------------

Produce(p) == NotifySetAlready(p) \/ NotifySetRaise(p) \/ wake(p)

Loop ==
    \/ take \/ PassEnd \/ SweepEnd \/ arm_blocked \/ CheckMask \/ Sleep
    \/ WaitCompleted \/ WaitTimedOut
    \/ \E p \in Producers : recv(p) \/ RecvEmpty(p) \/ CheckLane(p)

Next ==
    \/ \E p \in Producers :
          post_task_quiet(p) \/ StoreVisible(p) \/ Produce(p) \/ submit(p)
    \/ sample_depth
    \/ for_each_cqe
    \/ Loop

Spec == Init /\ [][Next]_vars

\* Threads are scheduled, store buffers empty themselves, a loop submits what
\* it prepared before it waits, and the wait has a timeout.  Nothing forces a
\* client to send, the sampling beat or a wake completion.
Fairness ==
    /\ \A p \in Producers :
          WF_vars(StoreVisible(p)) /\ WF_vars(Produce(p)) /\ WF_vars(submit(p))
    /\ WF_vars(Loop)

FairSpec == Spec /\ Fairness

-----------------------------------------------------------------------------

\* Every variable keeps its shape; a lane never holds more than its capacity.
TypeOK ==
    /\ lane \in [Producers -> Nat]
    /\ stored \in [Producers -> Nat]
    /\ posts \in [Producers -> 0..MaxPosts]
    /\ \A p \in Producers : lane[p] + stored[p] <= LaneCap
    /\ notify \subseteq Producers
    /\ blocked \in BOOLEAN
    /\ ppc \in [Producers -> ProducerSteps]
    /\ sqe \subseteq Producers
    /\ cqe \in BOOLEAN
    /\ cpc \in LoopSteps
    /\ took \subseteq Producers
    /\ did \in BOOLEAN
    /\ spins \in 0..SpinBudget
    /\ toCheck \subseteq Producers
    /\ overtaken \subseteq Producers
    /\ dropped \subseteq Producers

WakeComing == cqe \/ sqe # {}

\* p still has to announce what it pushed, or has raised its bit and not yet
\* read blocked_.
Announcing(p) == ppc[p] \in {"pushed", "raised"}

\* While the executor sleeps, a task in a lane has a producer that is still
\* announcing it or a wake under way; the only other ways are the two the code
\* leaves to the wait's timeout: a wake the saturated submission queue refused
\* (Ring::msg_to) and a tail store overtaken by NotifyMask::set's relaxed load.
SleepOnlyWhenWakeIsOwed ==
    cpc = "sleep" =>
        \A p \in Producers :
            lane[p] > 0 =>
                \/ Announcing(p)
                \/ WakeComing
                \/ p \in overtaken \cup dropped

\* Whatever is lost on the way, the wait's timeout and the mask-independent
\* sweep get every posted task taken.
EveryTaskTaken ==
    \A p \in Producers : (lane[p] + stored[p] > 0) ~> (lane[p] + stored[p] = 0)
=============================================================================
