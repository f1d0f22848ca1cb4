--------------------------- MODULE FlipController ---------------------------
(***************************************************************************)
(* The controller that issues FLIPs by itself (core/flipctl.cc), on top of *)
(* the FLIP protocol of RoleFlip. The main thread ticks it. Anchored, it   *)
(* watches the workload; a change starts a maneuver: measure the live      *)
(* split, move to the one the model prefers if it clears the bar, verify,  *)
(* go on from there or go back, settle, anchor. Operators may force a      *)
(* maneuver, name its target, and issue FLIPs of their own at any time.    *)
(* Rates and demand are not modelled: what a reading says is chosen from   *)
(* all that it can say. A scenario bounds the maneuvers of a behaviour and *)
(* gives the intervals of the IO share its readings may show.              *)
(***************************************************************************)
EXTENDS RoleFlip, FlipPolicy

CONSTANTS
    Bands,         \* the noise bands a reading may show, in per cent
    Kappas,        \* calibrations an outcome record may give, in per cent
    ReadingsCap,   \* model_readings_cap_
    ConfirmCap     \* the most confirmations a detector may ask for

VARIABLES
    ctl,   \* the controller: see CtlInit
    told   \* history: splits delivered, operators' FLIPs at the start, excuses

ctlvars == <<ctl, told>>
system == <<vars, ctlvars>>

NThreads == Cardinality(Threads)
Live == role_count("Ifid")
MinConfirmations == 2

CtlInit ==
    /\ Init
    /\ ctl = [phase |-> IF "auto" \in scene.may THEN "BootPending" ELSE "Disabled",
              mid |-> "no",       \* where inside a tick the controller is
              reason |-> "None", origin |-> 0, anchor |-> 0,
              samples |-> 0,      \* model_readings_
              visits |-> {}, best |-> 0,             \* readings_, its fastest split
              seek |-> "None", from |-> 0, to |-> 0, \* seek_origin_io_, seek_target_io_
              planned |-> 0, k |-> 0, refining |-> FALSE, missed |-> FALSE, flips |-> 0,
              after |-> "Settling", pend |-> [completed |-> 0, refused |-> 0, target |-> 0],
              retrigger |-> FALSE, disarmed |-> FALSE,
              margin |-> 1, shiftConf |-> MinConfirmations, rateConf |-> MinConfirmations,
              shift |-> 0, surge |-> 0, collapse |-> 0,
              calibrated |-> FALSE,  \* the record has an outcome
              forced |-> FALSE, debug |-> 0, debugForce |-> FALSE, triggers |-> 0]
    /\ told = [delivered |-> {}, commands |-> 0, excused |-> FALSE]

Maneuvering == ctl.phase \in {"Measuring", "WaitingFlip", "Seeking", "Settling"}

\* start_maneuver
Started(c, why) ==
    [c EXCEPT !.phase = "Measuring", !.reason = why, !.origin = Live, !.samples = 0,
              !.visits = {}, !.best = 0, !.seek = "None", !.from = Live, !.to = 0,
              !.planned = 0, !.k = 0, !.refining = FALSE, !.missed = FALSE, !.flips = 0,
              !.retrigger = FALSE, !.disarmed = FALSE, !.shift = 0, !.surge = 0, !.collapse = 0,
              !.triggers = @ + 1]

\* The history starts over too: the operators' FLIPs that are over by now.
start_maneuver(c, why) ==
    /\ ctl' = Started(c, why)
    /\ told' = [delivered |-> {}, commands |-> IF flipClient = NoClient THEN begun ELSE begun - 1,
                excused |-> FALSE]
    /\ UNCHANGED vars

\* record: the reading at a split may or may not be the fastest so far.
Recorded(c, split, faster) ==
    [c EXCEPT !.visits = @ \cup {split}, !.best = IF @ = 0 \/ faster THEN split ELSE @]

enter_settling(c) == [c EXCEPT !.phase = "Settling", !.mid = "no"]

-----------------------------------------------------------------------------
(* issue_flip. *)

coordinator_of_controller == Min(OfRole("Ifid"))

\* What the caller does when issue_flip reports failure: a move forward is given
\* up, a refused return goes on to settle, a settling FLIP is dropped.
Failed(c, kind) ==
    CASE kind = "forward" -> enter_settling([c EXCEPT !.seek = "None"])
      [] kind = "back" -> [c EXCEPT !.seek = "None", !.mid = "settle"]
      [] OTHER -> enter_settling(c)

Excuse(h, kind) == [h EXCEPT !.excused = @ \/ kind = "back"]

\* No caller asks for the live split, so the check for it is left out. The
\* counters are noted, flip_begin is called, and the stage is looked at
\* afterwards (SeeStage).
issue_flip(kind, n, c, h) ==
    LET noted == [c EXCEPT !.pend = [completed |-> completed, refused |-> refused, target |-> n],
                           !.after = IF kind = "forward" THEN "Seeking" ELSE "Settling"]
    IN  /\ \/ /\ AtOnce(n, coordinator_of_controller) /\ UNCHANGED left
              /\ ctl' = Failed(noted, kind) /\ told' = Excuse(h, kind)
           \/ /\ Starts(n, coordinator_of_controller)
              /\ ctl' = [noted EXCEPT !.phase = "WaitingFlip", !.mid = kind] /\ told' = h
        /\ UNCHANGED <<shape, look, prepared, owner, conn, listener, flipClient, begun, answered,
                       scene, aborted>>

\* The end of issue_flip: a FLIP whose stage is Idle again by now counts as one
\* that was not issued.
SeeStage ==
    /\ ctl.mid \in {"forward", "back", "best"}
    /\ IF stage # "Idle"
       THEN /\ ctl' = [ctl EXCEPT !.mid = "no", !.flips = 1]
            /\ UNCHANGED told
       ELSE /\ ctl' = Failed(ctl, ctl.mid)
            /\ told' = [told EXCEPT !.excused = TRUE]
    /\ UNCHANGED vars

\* settle: the fastest split that was read.
settle ==
    /\ ctl.mid = "settle"
    /\ \/ /\ ctl.best \in {0, Live}
          /\ ctl' = enter_settling(ctl) /\ UNCHANGED <<vars, told>>
       \/ ctl.best \notin {0, Live} /\ issue_flip("best", ctl.best, ctl, told)

-----------------------------------------------------------------------------
(* Measuring: decide_placement. *)

\* The model's choice, or the operator's target under the same bar or under none.
Choice(c, d, bar) ==
    LET s == c.debug
    IN  IF s \in (1..(NThreads - 1)) \ {Live} /\ c.samples >= MinSamples
        THEN [decided |-> TRUE, target |-> s,
              move |-> c.debugForce \/ GainLowExceeds(s, Live, NThreads, d, bar)]
        ELSE flip_choose_split(Live, NThreads, d, c.samples, bar)

DebugForced(c) == c.debugForce /\ c.debug \in (1..(NThreads - 1)) \ {Live}

Undirected(c) == [c EXCEPT !.debug = 0, !.debugForce = FALSE]

\* One reading: c counts it; unsaturated says both roles idle more than the band,
\* window is what flip_verify_window plans (0: not resolvable, or refused by
\* flip_cost_gate), error that a refinement's gain is within the model's own error.
decide_placement(c, choice, unsaturated, window, error, faster) ==
    LET wants == choice.decided /\ choice.move /\ choice.target # Live
        visited == c.refining /\ wants /\ choice.target \in c.visits
        within == c.refining /\ wants /\ ~visited /\ error
        move == wants /\ ~visited /\ ~within
        pays == DebugForced(c) \/ window > 0
        free == ~unsaturated /\ c.samples < ReadingsCap
        again == \/ move /\ ~pays
                 \/ choice.decided /\ ~move /\ ~visited /\ choice.target # Live
                 \/ ~choice.decided
    IN  IF again /\ free THEN ctl' = c /\ UNCHANGED <<vars, told>>
        ELSE IF unsaturated \/ ~move \/ ~pays
        THEN /\ ctl' = enter_settling(Undirected(Recorded(c, Live, faster)))
             /\ UNCHANGED <<vars, told>>
        ELSE issue_flip("forward", choice.target,
                [Undirected(Recorded(c, Live, faster)) EXCEPT
                    !.to = choice.target, !.from = Live, !.seek = "AtTarget",
                    !.planned = window, !.k = 0, !.samples = 0],
                told)

Measure ==
    /\ ctl.phase = "Measuring"
    /\ \E d \in scene.draws, band \in Bands, kappa \in IF ctl.calibrated THEN Kappas ELSE {100} :
        \E bar \in {Bar(band, ctl.margin, kappa)},
           c \in {[ctl EXCEPT !.samples = @ + 1]} :
        \E choice \in {Choice(c, d, bar)},
           unsaturated \in IF DebugForced(c) THEN {FALSE} ELSE BOOLEAN,
           window \in 0..2, error \in IF c.refining THEN BOOLEAN ELSE {FALSE}, faster \in BOOLEAN :
            decide_placement(c, choice, unsaturated, window, error, faster)

-----------------------------------------------------------------------------
(* Waiting for a FLIP, and verifying its target. *)

FlipDone == completed > ctl.pend.completed /\ Live = ctl.pend.target

\* Wrong: only a completed FLIP ends the wait.
WaitForCompletion ==
    /\ ctl.phase = "WaitingFlip" /\ stage = "Idle"
    /\ \/ ctl.retrigger /\ start_maneuver(ctl, "Forced")
       \/ /\ ~ctl.retrigger /\ FlipDone
          /\ ctl' = [ctl EXCEPT !.phase = ctl.after] /\ UNCHANGED <<vars, told>>

Wait ==
    /\ ctl.phase = "WaitingFlip" /\ stage = "Idle"
    /\ IF ctl.retrigger THEN start_maneuver(ctl, "Forced")
       ELSE IF FlipDone
       THEN ctl' = [ctl EXCEPT !.phase = ctl.after] /\ UNCHANGED <<vars, told>>
       ELSE /\ refused > ctl.pend.refused
            /\ ctl' = [ctl EXCEPT !.mid = "settle"]
            /\ told' = Excuse(told, IF ctl.seek = "Returning" THEN "back" ELSE "forward")
            /\ UNCHANGED vars

\* begin_refinement
Refined(c) ==
    [c EXCEPT !.phase = "Measuring", !.refining = TRUE, !.samples = 0, !.planned = 0, !.k = 0,
              !.missed = FALSE]

\* Wrong: a miss stops where it is.
MissStays(c, verdict) ==
    CASE verdict = "Pending" -> ctl' = c /\ UNCHANGED <<vars, told>>
      [] verdict = "Hit" ->
            /\ ctl' = Refined([c EXCEPT !.seek = "None", !.calibrated = TRUE])
            /\ told' = [told EXCEPT !.delivered = @ \cup {Live}] /\ UNCHANGED vars
      [] verdict = "Miss" -> ctl' = enter_settling([c EXCEPT !.missed = TRUE]) /\ UNCHANGED <<vars, told>>

seek_after_reading(c, verdict) ==
    CASE verdict = "Pending" -> ctl' = c /\ UNCHANGED <<vars, told>>
      [] verdict = "Hit" ->
            /\ ctl' = Refined([c EXCEPT !.seek = "None", !.calibrated = TRUE])
            /\ told' = [told EXCEPT !.delivered = @ \cup {Live}] /\ UNCHANGED vars
      [] verdict = "Miss" ->
            issue_flip("back", c.from,
                [c EXCEPT !.missed = TRUE, !.seek = "Returning", !.planned = 0, !.k = 0], told)

\* A reading at a split the seek did not ask for ends it on the best evidence.
Seek ==
    /\ ctl.phase = "Seeking"
    /\ \E delivered \in {"above", "within", "below"}, faster \in BOOLEAN :
        \E c \in {Recorded(ctl, Live, faster)} :
            IF ctl.seek = "AtTarget" /\ Live = ctl.to
            THEN seek_after_reading([c EXCEPT !.k = @ + 1], flip_judge(delivered, c.k + 1, c.planned))
            ELSE ctl' = [c EXCEPT !.seek = "None", !.mid = "settle"] /\ UNCHANGED <<vars, told>>

-----------------------------------------------------------------------------
(* Settling and the anchor. *)

\* The first pass turns the maneuver's sampling off; readings taken before that
\* would be the controller's own shadow.
Disarm ==
    /\ ctl.phase = "Settling" /\ ~ctl.disarmed
    /\ ctl' = [ctl EXCEPT !.disarmed = TRUE] /\ UNCHANGED <<vars, told>>

Halved(x, floor) == IF x \div 2 > floor THEN x \div 2 ELSE floor
Doubled(x, cap) == IF x * 2 < cap THEN x * 2 ELSE cap

\* A maneuver a detector started doubles the confirmations that detector needs
\* when it ends where it began, and halves them when it moved the split.
Confirmations(c, n, mine) ==
    IF c.reason \notin mine THEN n
    ELSE IF Live = c.origin THEN Doubled(n, ConfirmCap) ELSE Halved(n, MinConfirmations)

RoundTrip(c) == c.missed /\ Live = c.from /\ c.flips > 0

\* The bar rises with a hypothesis that missed and returned, unless the baseline
\* moved meanwhile, and falls with a move that stuck.
Margin(c, band, moved) ==
    IF RoundTrip(c) THEN IF ~moved /\ band * c.margin < 100 THEN c.margin * 2 ELSE c.margin
    ELSE IF Live # c.origin /\ ~c.missed THEN Halved(c.margin, 1)
    ELSE c.margin

\* anchor. What a maneuver leaves in readings_ and the windows is dead from
\* here on: the next one clears it, and it is cleared here.
anchor ==
    /\ ctl.phase = "Settling" /\ ctl.disarmed
    /\ \E band \in Bands, moved \in BOOLEAN :
        ctl' = [ctl EXCEPT !.phase = "Anchored", !.anchor = Live,
                    !.margin = Margin(ctl, band, moved),
                    !.shiftConf = Confirmations(ctl, @, {"Shift"}),
                    !.rateConf = Confirmations(ctl, @, {"Surge", "Collapse"}),
                    !.calibrated = @ \/ (RoundTrip(ctl) /\ ~moved),
                    !.missed = FALSE, !.refining = FALSE,
                    !.shift = 0, !.surge = 0, !.collapse = 0,
                    !.samples = 0, !.visits = {}, !.best = 0, !.seek = "None", !.from = 0,
                    !.to = 0, !.planned = 0, !.k = 0, !.flips = 0]
    /\ told' = [told EXCEPT !.excused = @ \/ begun # told.commands]
    /\ UNCHANGED vars

-----------------------------------------------------------------------------
(* Anchored: the detectors. *)

Votes(c, fingerprint, rate) ==
    [c EXCEPT !.shift = IF fingerprint = "none" THEN @ ELSE IF fingerprint = "out" THEN @ + 1 ELSE 0,
              !.surge = IF rate = "none" THEN @ ELSE IF rate = "above" THEN @ + 1 ELSE 0,
              !.collapse = IF rate = "none" THEN @ ELSE IF rate = "below" THEN @ + 1 ELSE 0]

\* A shift that is sustained waits while the rate has evidence pending.
Trigger(c, rate) ==
    IF rate # "none" /\ (c.surge >= c.rateConf \/ c.collapse >= c.rateConf)
    THEN IF c.surge >= 2 THEN "Surge" ELSE "Collapse"
    ELSE IF c.shift >= c.shiftConf /\ (rate = "none" \/ (c.surge = 0 /\ c.collapse = 0))
    THEN "Shift" ELSE "None"

\* A streak that waits stops counting at the cap.
Watch ==
    /\ ctl.phase = "Anchored" /\ ctl.triggers < scene.maneuvers
    /\ \E fingerprint \in {"none", "in", "out"}, rate \in {"none", "in", "above", "below"} :
        \E c \in {Votes(ctl, fingerprint, rate)} :
            IF Trigger(c, rate) # "None" THEN start_maneuver(c, Trigger(c, rate))
            ELSE /\ ctl' = [c EXCEPT !.shift = IF @ > ConfirmCap THEN ConfirmCap ELSE @]
                 /\ UNCHANGED <<vars, told>>

Boot ==
    /\ ctl.phase = "BootPending"
    /\ start_maneuver(ctl, "Boot")

\* A tick that finds a forced trigger: a FLIP under way is finished first.
ForcedTick ==
    /\ ctl.forced
    /\ IF ctl.phase = "WaitingFlip" /\ stage # "Idle"
       THEN ctl' = [ctl EXCEPT !.forced = FALSE, !.retrigger = TRUE] /\ UNCHANGED <<vars, told>>
       ELSE start_maneuver([ctl EXCEPT !.forced = FALSE], "Forced")

-----------------------------------------------------------------------------
(* Operators: DEBUG FLIPCTL. *)

force_trigger ==
    /\ "force" \in scene.may /\ ctl.triggers < scene.maneuvers
    /\ ~ctl.forced /\ ctl.phase # "Disabled"
    /\ ctl' = [ctl EXCEPT !.forced = TRUE] /\ UNCHANGED <<vars, told>>

debug_seek(n, force) ==
    /\ "seek" \in scene.may /\ ctl.triggers < scene.maneuvers
    /\ ctl.phase \in {"Anchored", "BootPending"} /\ ctl.mid = "no"
    /\ ctl' = [ctl EXCEPT !.debug = n, !.debugForce = force, !.forced = TRUE]
    /\ UNCHANGED <<vars, told>>

tick ==
    \/ /\ ctl.mid = "no"
       /\ \/ ForcedTick
          \/ /\ ~ctl.forced
             /\ Boot \/ Wait \/ Measure \/ Seek \/ Disarm \/ anchor \/ Watch
    \/ SeeStage \/ settle

Operators == force_trigger \/ \E n \in 1..NThreads, force \in BOOLEAN : debug_seek(n, force)

Quiet == Rest /\ UNCHANGED ctlvars

\* A FLIP that begins inside a tick is seen before any thread has done a pass
\* for it, save in the scenarios where the main thread is late.
Seen == ctl.mid \notin {"forward", "back", "best"} \/ "late" \in scene.may

Protocol == ~aborted /\ Seen /\ (Work \/ Look \/ Advance \/ Requests) /\ UNCHANGED ctlvars

CtlNext == Protocol \/ (~aborted /\ (tick \/ Operators)) \/ Quiet

CtlSpec == CtlInit /\ [][CtlNext]_system

\* The threads and the kernel as in RoleFlip; the main thread ticks, and the
\* load gives a stabilised reading now and then.
CtlFairSpec ==
    /\ CtlSpec
    /\ WF_system(~aborted /\ Seen /\ Work /\ UNCHANGED ctlvars)
    /\ WF_system(~aborted /\ Seen /\ (Look \/ Advance) /\ UNCHANGED ctlvars)
    /\ WF_system(~aborted /\ tick)

-----------------------------------------------------------------------------
(* Properties. *)

\* The controller waits for a FLIP that completed and was followed by one of an
\* operator's to another split, before it looked: FlipDone cannot become true.
Overtaken ==
    /\ ctl.phase = "WaitingFlip" /\ stage = "Idle"
    /\ completed > ctl.pend.completed /\ refused = ctl.pend.refused /\ Live # ctl.pend.target

\* Every maneuver ends in an anchor: whatever FLIPs are refused, rolled back or
\* issued by operators in between, the controller neither waits for ever nor
\* goes on moving (tick of flipctl.cc). The exceptions are a FLIP that does not
\* end (FlipEnds) and the one in Overtaken.
ManeuversEnd ==
    Maneuvering ~> (ctl.phase = "Anchored" \/ Overtaken \/ left # {} \/ aborted)

\* A maneuver leaves the server at the split it started from or at one it has
\* verified to deliver; never at one it judged a miss or did not judge. Excused
\* are a return that was refused, a FLIP that ended before issue_flip looked,
\* and operators' FLIPs (seek_after_reading, settle, anchor).
LandingIsEarned ==
    ctl.phase = "Anchored" =>
        ctl.anchor \in {ctl.origin} \cup told.delivered \/ told.excused
=============================================================================
