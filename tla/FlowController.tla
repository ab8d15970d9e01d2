---------------------------- MODULE FlowController ----------------------------
(***************************************************************************)
(* AdaptiveFlowController: the choice of a flow scale, one state of the    *)
(* preset at a time.  A lowering is on trial until it has shown a benefit, *)
(* a raise in Adaptive mode until it has shown that the source keeps its   *)
(* cadence; either is undone when the trial fails.                         *)
(*                                                                         *)
(* The controller keeps deadlines on a clock of its own (observedSeconds_).*)
(* Here every deadline is the time that remains until it, an evaluation's  *)
(* start is its age, and times are integers.  A measurement is abstracted  *)
(* to the outcome of the comparisons it enters.                            *)
(***************************************************************************)
EXTENDS Integers

CONSTANTS
    States,             \* number of scales of the preset; 0 is the best one
    MaxElapsed,         \* the most one observation counts for: 0.25 s
    Settle,             \* kFlowTransitionSettleSeconds
    SchedulerHold,      \* kSchedulerTransitionHoldSeconds
    Cooldown,           \* kTransitionCooldownSeconds
    OutputCooldown,     \* kOutputTransitionCooldownSeconds
    NoBenefitHold,      \* kDownstepNoBenefitHoldSeconds
    RevertHold,         \* kRecoveryPacingRevertHoldSeconds
    DownConfirm,        \* kDownConfirmSeconds
    ThermalConfirm,     \* kThermalAcceleratedConfirmSeconds
    OutputConfirm,      \* kOutputDownConfirmSeconds
    UpConfirm,          \* kUpConfirmSeconds
    DownEvaluation,     \* kDownstepEvaluationSeconds
    OutputEvaluation,   \* kOutputDownstepEvaluationSeconds
    PacingEvaluation,   \* kRecoveryPacingEvaluationSeconds
    RegressionConfirm   \* kRecoveryPacingRegressionConfirmSeconds

Durations ==
    {Settle, SchedulerHold, Cooldown, OutputCooldown, NoBenefitHold, RevertHold,
     DownConfirm, ThermalConfirm, OutputConfirm, UpConfirm, DownEvaluation,
     OutputEvaluation, PacingEvaluation, RegressionConfirm}

ASSUME FlowControllerAssumption ==
    /\ States \in Nat \ {0}
    /\ MaxElapsed \in Nat
    /\ \A d \in Durations : d \in Nat \ {0}
    /\ ThermalConfirm <= DownConfirm /\ OutputConfirm <= DownConfirm
    /\ OutputEvaluation <= DownEvaluation
    /\ OutputCooldown <= Cooldown /\ Cooldown <= NoBenefitHold

Indices == 0 .. States - 1
Elapsed == 0 .. MaxElapsed
Modes   == {"adaptive", "fixed"}
Drivers == {"output", "outputWsi", "source", "explore", "other"}

VARIABLES
    mode,   \* conf.adaptiveFramegen, or a fixed multiplier
    ctl     \* the controller's members

NoDown   == [on |-> FALSE, prev |-> 0, age |-> 0, benefit |-> FALSE,
             driver |-> "other"]
NoPacing == [on |-> FALSE, prev |-> 0, age |-> 0, regress |-> 0]

\* reset(), followed by seedCurrentScale() if i is not the preset's target.
ResetTo(i) ==
    [index |-> i,
     settle |-> 0, holding |-> FALSE,       \* the transition barrier
     schedHold |-> 0, cooldown |-> 0, blocked |-> 0,
     pressure |-> 0, headroom |-> 0,        \* evidence
     down |-> NoDown, pacing |-> NoPacing,  \* the two evaluations
     ref |-> FALSE, probe |-> FALSE]        \* fixed exploration

-----------------------------------------------------------------------------
(* The parts of an observation. *)

Less(remaining, dt) == IF remaining > dt THEN remaining - dt ELSE 0
Upto(x, bound)      == IF x < bound THEN x ELSE bound

Aged(dt) ==
    [ctl EXCEPT !.settle = Less(@, dt), !.schedHold = Less(@, dt),
                !.cooldown = Less(@, dt), !.blocked = Less(@, dt)]

NoEvidence(c) == [c EXCEPT !.pressure = 0, !.headroom = 0]

\* During a flow transition, and until it has settled, evaluations start over.
Restarted(c) ==
    [NoEvidence(c) EXCEPT !.down.age = 0, !.down.benefit = FALSE,
                          !.pacing.age = 0, !.pacing.regress = 0]

\* The barrier falls with the first observation after the transition, and that
\* one is not judged either.
Held(c, moving) ==
    [Restarted(c) EXCEPT !.holding = moving,
                         !.settle = IF moving THEN Settle ELSE @]

\* What is judged of a valid observation.  source: no sample; below the target,
\* or below the best cadence seen; neither.  Global pressure needs a confirmed
\* output deficit, and that is output pressure too.
Readings(fresh) ==
    {r \in [compute : BOOLEAN, severe : BOOLEAN, output : BOOLEAN,
            global : BOOLEAN, target : BOOLEAN,
            source : {"unknown", "short", "met"}] :
        /\ r.severe => r.compute
        /\ r.compute => fresh \/ r.severe
        /\ r.global => r.output
        /\ IF mode = "adaptive" THEN ~r.target /\ r.source # "short"
                                ELSE ~r.output}

\* Without a clean source target, Fixed mode looks for a better source cadence
\* one lowering at a time.
Explored(c, r, fresh) ==
    CASE mode = "adaptive" \/ r.target ->
           [c EXCEPT !.ref = FALSE, !.probe = FALSE]
      [] mode = "fixed" /\ ~r.target /\ fresh /\ r.source # "unknown" ->
           [c EXCEPT !.ref = TRUE, !.probe = @ \/ ~c.ref \/ r.source = "short"]
      [] OTHER -> c

Explores(c, r, fresh) ==
    /\ mode = "fixed" /\ ~r.target
    /\ c.ref /\ c.probe
    /\ fresh /\ r.source # "unknown"

SourceShort(r) == mode = "fixed" /\ r.target /\ r.source = "short"

\* A raise on trial: undone if source cadence falls while the density rises.
Paced(c, dt, regress) ==
    LET regressed == IF regress THEN c.pacing.regress + dt ELSE 0
        age       == c.pacing.age + dt
    IN
    CASE regressed >= RegressionConfirm ->
           [NoEvidence(c) EXCEPT !.index = c.pacing.prev, !.pacing = NoPacing,
                                 !.blocked = RevertHold, !.cooldown = Cooldown]
      [] regressed < RegressionConfirm /\ age < PacingEvaluation ->
           [NoEvidence(c) EXCEPT !.pacing.age = age,
                                 !.pacing.regress = regressed]
      [] OTHER -> [NoEvidence(c) EXCEPT !.pacing = NoPacing]

\* The scheduler is changing its plan: only global pressure is counted.
Suppressed(c, dt, r) ==
    [c EXCEPT !.headroom = 0,
              !.pressure = IF r.global THEN Upto(@ + dt, DownConfirm) ELSE 0]

TargetRemains(c, r) ==
    \/ c.down.driver = "output" /\ r.output
    \/ c.down.driver = "source" /\ SourceShort(r)

EvaluationTime(c) ==
    IF c.down.driver = "other" THEN DownEvaluation ELSE OutputEvaluation

\* A lowering on trial.
Evaluated_TrialGoesOn(c, dt, r, benefit) ==
    IF c.down.age + dt < EvaluationTime(c)
    THEN [NoEvidence(c) EXCEPT !.down.age = @ + dt]
    ELSE [NoEvidence(c) EXCEPT !.index = c.down.prev, !.cooldown = NoBenefitHold]

Evaluated(c, dt, r, benefit) ==
    LET age     == c.down.age + dt
        seen    == c.down.benefit \/ benefit \/ TargetRemains(c, r)
        explore == c.down.driver = "explore"
    IN
    CASE age < EvaluationTime(c) ->
           [NoEvidence(c) EXCEPT !.down.age = age, !.down.benefit = seen]
      [] age >= EvaluationTime(c) /\ seen ->
           [NoEvidence(c) EXCEPT
              !.down = NoDown,
              !.ref = @ \/ explore,
              !.probe = IF explore THEN c.index + 1 < States ELSE @]
      [] OTHER ->
           [NoEvidence(c) EXCEPT
              !.down = NoDown, !.index = c.down.prev, !.cooldown = NoBenefitHold,
              !.probe = @ /\ ~explore]

\* Pressure counts towards the next lower scale.
Pressed(c, dt, confirm, driver, fast) ==
    IF c.pressure + dt < confirm
    THEN [c EXCEPT !.pressure = @ + dt, !.headroom = 0]
    ELSE [NoEvidence(c) EXCEPT
            !.index = @ + 1,
            !.down = [on |-> TRUE, prev |-> c.index, age |-> 0,
                      benefit |-> FALSE, driver |-> driver],
            !.probe = @ /\ driver # "explore",
            !.cooldown = IF fast THEN OutputCooldown ELSE Cooldown]

\* Headroom counts towards the next higher scale.
Relieved(c, dt, r) ==
    IF c.headroom + dt < UpConfirm
    THEN [c EXCEPT !.pressure = 0, !.headroom = @ + dt]
    ELSE [NoEvidence(c) EXCEPT
            !.index = @ - 1,
            !.pacing = IF mode = "adaptive" /\ r.source # "unknown"
                       THEN [on |-> TRUE, prev |-> c.index, age |-> 0,
                             regress |-> 0]
                       ELSE @,
            !.probe = @ /\ ~(mode = "fixed" /\ ~r.target),
            !.cooldown = Cooldown]

CanRecover(c, r) ==
    /\ c.index > 0
    /\ mode = "adaptive" => c.blocked = 0
    /\ ~r.severe /\ ~r.output
    /\ mode = "fixed" => r.source = "met" /\ (r.target \/ (c.ref /\ ~c.probe))

-----------------------------------------------------------------------------
(* observe(). *)

\* No evaluation is under way and nothing is cooling down.
Steady(c, dt, fresh, r) ==
    LET explore  == Explores(c, r, fresh)
        target   == r.output \/ SourceShort(r)
        fast     == target \/ explore
        pressure == r.compute \/ fast
        driver   == CASE r.output               -> {"output", "outputWsi"}
                      [] SourceShort(r)         -> {"source"}
                      [] explore /\ ~target     -> {"explore"}
                      [] OTHER                  -> {"other"}
        \* A thermal warning shortens the time that other pressure takes.
        confirm  == IF fast THEN {OutputConfirm} ELSE {DownConfirm, ThermalConfirm}
    IN
    \/ /\ pressure /\ c.index + 1 < States
       /\ \/ \E d \in driver, t \in confirm : ctl' = Pressed(c, dt, t, d, fast)
          \* The flow is too small a part of the work to be worth a step.
          \/ ~target /\ ~(explore /\ r.compute) /\ ctl' = NoEvidence(c)
    \/ /\ ~(pressure /\ c.index + 1 < States)
       /\ \/ CanRecover(c, r) /\ ctl' = Relieved(c, dt, r)
          \/ ctl' = NoEvidence(c)

Judge(c, dt, fresh, r) ==
    \E transition \in IF mode = "adaptive" THEN BOOLEAN ELSE {FALSE} :
      LET d == IF transition
               THEN [c EXCEPT !.schedHold = SchedulerHold, !.headroom = 0]
               ELSE c
          suppressed == d.schedHold > 0 /\ ~r.severe
      IN
      \/ suppressed /\ ctl' = Suppressed(d, dt, r)
      \/ /\ ~suppressed /\ d.down.on
         /\ \E benefit \in BOOLEAN :
              \* The time of a severe transition is not counted.
              ctl' = Evaluated(d, IF transition THEN 0 ELSE dt, r, benefit)
      \/ ~suppressed /\ ~d.down.on /\ d.cooldown > 0 /\ ctl' = NoEvidence(d)
      \/ ~suppressed /\ ~d.down.on /\ d.cooldown = 0 /\ Steady(d, dt, fresh, r)

\* moving: a flow transition is under way; fresh: this call brought the timing
\* of a generated batch; usable: that, or one retained from before.
Observe(dt, moving, fresh, usable) ==
    LET c       == Aged(dt)
        barrier == moving \/ c.holding
    IN
    \/ barrier /\ ctl' = Held(c, moving)
    \/ ~barrier /\ c.settle > 0 /\ ctl' = Restarted(c)
    \/ ~barrier /\ c.settle = 0 /\ ctl' = NoEvidence(c)  \* an invalid sample
    \/ /\ ~barrier /\ c.settle = 0 /\ usable /\ c.pacing.on
       /\ \E regress \in BOOLEAN : ctl' = Paced(c, dt, regress)
    \/ /\ ~barrier /\ c.settle = 0 /\ usable /\ ~c.pacing.on
       /\ \E r \in Readings(fresh) : Judge(Explored(c, r, fresh), dt, fresh, r)

-----------------------------------------------------------------------------
DownEvaluations ==
    [on : BOOLEAN, prev : Indices, age : 0 .. DownEvaluation - 1,
     benefit : BOOLEAN, driver : Drivers]
PacingEvaluations ==
    [on : BOOLEAN, prev : Indices, age : 0 .. PacingEvaluation - 1,
     regress : 0 .. RegressionConfirm - 1]

Controllers ==
    [index : Indices, settle : 0 .. Settle, holding : BOOLEAN,
     schedHold : 0 .. SchedulerHold, cooldown : 0 .. NoBenefitHold,
     blocked : 0 .. RevertHold, pressure : 0 .. DownConfirm,
     headroom : 0 .. UpConfirm - 1, down : DownEvaluations,
     pacing : PacingEvaluations, ref : BOOLEAN, probe : BOOLEAN]
=============================================================================
