---------------------------- MODULE FlipActuator ----------------------------
(***************************************************************************)
(* What a role FLIP promises the operator and the controller that issue it *)
(* (Server::flip_begin, flip_refuse_active, flip_complete_active in        *)
(* core/server.h): one FLIP at a time; it can be refused until connections *)
(* are committed and not after; the roles change once, as a whole; a       *)
(* refused FLIP has changed nothing, a completed one has reached its       *)
(* target, and each request is counted once.                               *)
(***************************************************************************)
EXTENDS Integers

CONSTANTS NThreads, MaxCount

VARIABLES
    phase,      \* idle, reversible, committed (connections), changed (roles)
    io,         \* the number of IO threads
    target,     \* the number the last request asked for
    completed, refused  \* flip_completed_ and flip_refused_

actuator == <<phase, io, target, completed, refused>>

ActuatorInit ==
    /\ phase = "idle" /\ io \in 1..(NThreads - 1) /\ target = io
    /\ completed = 0 /\ refused = 0

\* A request is refused at once: one is running, or it cannot be satisfied. The
\* target that was asked for stays visible unless a FLIP is running.
RefuseAtOnce(n) ==
    /\ refused < MaxCount /\ refused' = refused + 1
    /\ target' = IF phase = "idle" THEN n ELSE target
    /\ UNCHANGED <<phase, io, completed>>

\* A request for the live split is complete at once.
CompleteAtOnce(n) ==
    /\ phase = "idle" /\ n = io /\ completed < MaxCount
    /\ target' = n /\ completed' = completed + 1
    /\ UNCHANGED <<phase, io, refused>>

Begin(n) ==
    /\ phase = "idle" /\ n \in 1..(NThreads - 1) /\ n # io
    /\ phase' = "reversible" /\ target' = n
    /\ UNCHANGED <<io, completed, refused>>

Refuse ==
    /\ phase = "reversible" /\ refused < MaxCount
    /\ phase' = "idle" /\ refused' = refused + 1
    /\ UNCHANGED <<io, target, completed>>

Commit ==
    /\ phase = "reversible" /\ phase' = "committed"
    /\ UNCHANGED <<io, target, completed, refused>>

ChangeRoles ==
    /\ phase = "committed" /\ phase' = "changed" /\ io' = target
    /\ UNCHANGED <<target, completed, refused>>

Complete ==
    /\ phase = "changed" /\ completed < MaxCount
    /\ phase' = "idle" /\ completed' = completed + 1
    /\ UNCHANGED <<io, target, refused>>

ActuatorNext ==
    \/ \E n \in 0..NThreads : RefuseAtOnce(n) \/ CompleteAtOnce(n) \/ Begin(n)
    \/ Refuse \/ Commit \/ ChangeRoles \/ Complete

ActuatorSpec == ActuatorInit /\ [][ActuatorNext]_actuator
=============================================================================
