--------------------------- MODULE ParkWakeProofs ---------------------------
(***************************************************************************)
(* Proof that the executor's park protocol never sleeps on a queued task   *)
(* without a wake being owed, for any number of producers, lane capacity,  *)
(* spin budget and number of posts.                                        *)
(*                                                                         *)
(* The invariant speaks of the sleep only, so it is strengthened to the    *)
(* states from the moment the executor has declared itself blocked: what   *)
(* any_ex_inbound has already looked at stays announced.                   *)
(***************************************************************************)
EXTENDS ParkWake, TLAPS

\* The executor is between its look at the mask and the end of its wait.
Parking == cpc \in {"check", "sleep"}

\* Someone will get the executor to look at lane p, or p is one of the two
\* cases that are left to the timeout.
Owed(p) == Announcing(p) \/ WakeComing \/ p \in overtaken \cup dropped

\* The Dekker half of the executor: it is blocked before it looks.
BlockedWhenLooking == cpc \in {"mask", "check", "sleep"} => blocked

\* A buffered tail store belongs to a post that is not announced yet, or was
\* overtaken by the read of the bit.
BufferedIsUnannounced ==
    \A p \in Producers : stored[p] > 0 => ppc[p] = "pushed" \/ p \in overtaken

\* A bit raised while the executor parks was raised after it declared itself
\* blocked, so its producer wakes it.
RaisedBitWakes ==
    Parking => \A p \in notify :
                   ppc[p] = "raised" \/ WakeComing \/ p \in overtaken \cup dropped

\* A task in a lane that was already looked at arrived after that look.
LookedAtIsOwed ==
    Parking => \A p \in Producers \ toCheck : lane[p] > 0 => Owed(p)

SleepHasLookedEverywhere == cpc = "sleep" => toCheck = {}

IInv ==
    /\ TypeOK
    /\ BlockedWhenLooking
    /\ BufferedIsUnannounced
    /\ RaisedBitWakes
    /\ LookedAtIsOwed
    /\ SleepHasLookedEverywhere

-----------------------------------------------------------------------------

\* The initial state is parked nowhere and has nothing queued.
LEMMA InitIInv == Init => IInv
<1> SUFFICES ASSUME Init PROVE IInv
  OBVIOUS
<1> USE ConstantsAssumption DEF ConstantsAssumption, Init
<1>1. TypeOK
  <2>1. /\ lane \in [Producers -> Nat] /\ stored \in [Producers -> Nat]
        /\ posts \in [Producers -> 0..MaxPosts]
        /\ \A p \in Producers : lane[p] + stored[p] <= LaneCap
        /\ spins \in 0..SpinBudget
    OBVIOUS
  <2>2. ppc \in [Producers -> ProducerSteps] /\ cpc \in LoopSteps
    BY DEF ProducerSteps, LoopSteps
  <2> QED BY <2>1, <2>2 DEF TypeOK
<1>2. BufferedIsUnannounced
  BY DEF BufferedIsUnannounced
<1> QED BY <1>1, <1>2 DEF IInv, BlockedWhenLooking, RaisedBitWakes, LookedAtIsOwed,
                          Parking, SleepHasLookedEverywhere

USE DEF ProducerSteps, LoopSteps

\* Every step of a producer or of the executor keeps the shape of the state.
LEMMA TypeStep == ASSUME TypeOK, [Next]_vars PROVE TypeOK'
<1> USE ConstantsAssumption DEF ConstantsAssumption
<1>1. ASSUME NEW p \in Producers, post_task_quiet(p) PROVE TypeOK'
  BY <1>1 DEF TypeOK, post_task_quiet, loopVars
<1>2. ASSUME NEW p \in Producers, StoreVisible(p) PROVE TypeOK'
  BY <1>2 DEF TypeOK, StoreVisible, loopVars
<1>3. ASSUME NEW p \in Producers, Produce(p) PROVE TypeOK'
  <2>1. CASE NotifySetAlready(p)
    BY <2>1 DEF TypeOK, NotifySetAlready, loopVars
  <2>2. CASE NotifySetRaise(p)
    BY <2>2 DEF TypeOK, NotifySetRaise, loopVars
  <2>3. CASE wake(p)
    BY <2>3 DEF TypeOK, wake, loopVars
  <2> QED BY <1>3, <2>1, <2>2, <2>3 DEF Produce
<1>4. ASSUME NEW p \in Producers, submit(p) PROVE TypeOK'
  BY <1>4 DEF TypeOK, submit, loopVars, producerVars
<1>5. CASE sample_depth
  BY <1>5 DEF TypeOK, sample_depth, loopVars, producerVars
<1>6. CASE for_each_cqe
  BY <1>6 DEF TypeOK, for_each_cqe, loopVars, producerVars
<1>7. CASE Loop
  <2>1. CASE take
    BY <2>1 DEF TypeOK, take, producerVars
  <2>2. CASE PassEnd
    BY <2>2 DEF TypeOK, PassEnd, producerVars
  <2>3. CASE SweepEnd \/ arm_blocked \/ Sleep
    BY <2>3 DEF TypeOK, SweepEnd, arm_blocked, Sleep, producerVars
  <2>4. CASE CheckMask
    BY <2>4 DEF TypeOK, CheckMask, Abandon, producerVars
  <2>5. CASE WaitCompleted \/ WaitTimedOut
    BY <2>5 DEF TypeOK, WaitCompleted, WaitTimedOut, Awake, producerVars
  <2>6. ASSUME NEW p \in Producers, recv(p) PROVE TypeOK'
    BY <2>6 DEF TypeOK, recv, producerVars
  <2>7. ASSUME NEW p \in Producers, RecvEmpty(p) PROVE TypeOK'
    BY <2>7 DEF TypeOK, RecvEmpty, producerVars
  <2>8. ASSUME NEW p \in Producers, CheckLane(p) PROVE TypeOK'
    BY <2>8 DEF TypeOK, CheckLane, Abandon, producerVars
  <2> QED BY <1>7, <2>1, <2>2, <2>3, <2>4, <2>5, <2>6, <2>7, <2>8 DEF Loop
<1>8. CASE UNCHANGED vars
  BY <1>8 DEF TypeOK, vars
<1> QED BY <1>1, <1>2, <1>3, <1>4, <1>5, <1>6, <1>7, <1>8 DEF Next

USE DEF BlockedWhenLooking, BufferedIsUnannounced, RaisedBitWakes, LookedAtIsOwed,
        SleepHasLookedEverywhere, Parking, Owed, Announcing, WakeComing

\* The strengthened invariant is inductive: one step per action.
LEMMA NextIInv == ASSUME IInv, [Next]_vars PROVE IInv'
<1>0. TypeOK'
  BY TypeStep DEF IInv
<1> DEFINE Rest == /\ BlockedWhenLooking /\ BufferedIsUnannounced /\ RaisedBitWakes
                   /\ LookedAtIsOwed /\ SleepHasLookedEverywhere
<1> SUFFICES Rest'
  BY <1>0 DEF IInv
<1> USE DEF IInv
<1>1. ASSUME NEW p \in Producers, post_task_quiet(p) PROVE Rest'
  BY <1>1 DEF TypeOK, post_task_quiet, loopVars
<1>2. ASSUME NEW p \in Producers, StoreVisible(p) PROVE Rest'
  BY <1>2 DEF TypeOK, StoreVisible, loopVars
<1>3. ASSUME NEW p \in Producers, Produce(p) PROVE Rest'
  <2>1. CASE NotifySetAlready(p)
    BY <2>1 DEF TypeOK, NotifySetAlready, loopVars
  <2>2. CASE NotifySetRaise(p)
    BY <2>2 DEF TypeOK, NotifySetRaise, loopVars
  <2>3. CASE wake(p)
    BY <2>3 DEF TypeOK, wake, loopVars
  <2> QED BY <1>3, <2>1, <2>2, <2>3 DEF Produce
<1>4. ASSUME NEW p \in Producers, submit(p) PROVE Rest'
  BY <1>4 DEF TypeOK, submit, loopVars, producerVars
<1>5. CASE sample_depth
  BY <1>5 DEF TypeOK, sample_depth, loopVars, producerVars
<1>6. CASE for_each_cqe
  BY <1>6 DEF TypeOK, for_each_cqe, loopVars, producerVars
<1>7. CASE Loop
  <2>1. CASE take
    BY <2>1 DEF TypeOK, take, producerVars
  <2>2. CASE PassEnd
    BY <2>2 DEF TypeOK, PassEnd, producerVars
  <2>3. CASE SweepEnd \/ arm_blocked \/ Sleep
    BY <2>3 DEF TypeOK, SweepEnd, arm_blocked, Sleep, producerVars
  <2>4. CASE CheckMask
    BY <2>4 DEF TypeOK, CheckMask, Abandon, producerVars
  <2>5. CASE WaitCompleted \/ WaitTimedOut
    BY <2>5 DEF TypeOK, WaitCompleted, WaitTimedOut, Awake, producerVars
  <2>6. ASSUME NEW p \in Producers, recv(p) PROVE Rest'
    BY <2>6 DEF TypeOK, recv, producerVars
  <2>7. ASSUME NEW p \in Producers, RecvEmpty(p) PROVE Rest'
    BY <2>7 DEF TypeOK, RecvEmpty, producerVars
  <2>8. ASSUME NEW p \in Producers, CheckLane(p) PROVE Rest'
    <3>1. CASE lane[p] > 0 /\ Abandon
      BY <2>8, <3>1 DEF TypeOK, CheckLane, Abandon, producerVars
    <3>2. CASE lane[p] = 0 /\ toCheck' = toCheck \ {p} /\ UNCHANGED <<cpc, blocked>>
      BY <2>8, <3>2 DEF TypeOK, CheckLane, producerVars
    <3> QED BY <2>8, <3>1, <3>2 DEF CheckLane
  <2> QED BY <1>7, <2>1, <2>2, <2>3, <2>4, <2>5, <2>6, <2>7, <2>8 DEF Loop
<1>8. CASE UNCHANGED vars
  BY <1>8 DEF TypeOK, vars
<1> QED BY <1>1, <1>2, <1>3, <1>4, <1>5, <1>6, <1>7, <1>8 DEF Next

\* ExLoop::run never waits on its ring while a task sits in a lane that nobody
\* is going to wake it for, but for a refused msg_to and an overtaken store.
THEOREM ParkIsSafe == Spec => [](TypeOK /\ SleepOnlyWhenWakeIsOwed)
<1>1. Init => IInv
  BY InitIInv
<1>2. IInv /\ [Next]_vars => IInv'
  BY NextIInv
<1>3. IInv => TypeOK /\ SleepOnlyWhenWakeIsOwed
  BY DEF IInv, SleepOnlyWhenWakeIsOwed
<1> QED BY <1>1, <1>2, <1>3, PTL DEF Spec
=============================================================================
