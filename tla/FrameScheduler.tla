--------------------------- MODULE FrameScheduler ---------------------------
(***************************************************************************)
(* The planning stage of LsContext::present: how many frames one source    *)
(* frame is to be followed by.  AdaptiveFrameScheduler plans them from a   *)
(* target, FixedSourceCadenceTracker only measures; the configuration, a   *)
(* reset of the source epoch and the source's timeline act on both.        *)
(*                                                                         *)
(* A source period is counted as the outputs the target asks for in it, in *)
(* tenths (target * interval * 10): its demand is that number less the ten *)
(* of the source frame.  The window of nine intervals is abstracted to     *)
(* what the smoothing lets through, and to how many samples it holds.      *)
(***************************************************************************)
EXTENDS GeneratedFrames

CONSTANTS
    Targets,        \* values of fps_limit; 0: none
    MaxPeriod,      \* bound of the model: the longest smoothed source period
    MaxStep,        \* bound of the model: ticks of time in one source interval
    CadenceWindow,  \* kCapacityCadenceWindow: 4
    RaiseSamples,   \* kCapacityRaiseSamplesRequired: 4
    Sustained,      \* kSustainedDemandSeconds, in ticks
    AcquireSamples, \* kIntegerDensityAcquireSamples: 4
    ReleaseSamples, \* kIntegerDensityReleaseSamples: 8
    Warmup          \* kSourceHistoryWarmupFrames: 4

ASSUME FrameSchedulerAssumption ==
    /\ Targets \subseteq Nat
    /\ MaxGenerated \in Nat \ {0}
    /\ MaxPeriod \in Nat /\ MaxPeriod > 10 + 10 * MaxGenerated
    /\ MaxStep \in Nat \ {0}
    /\ CadenceWindow \in Nat \ {0}
    /\ RaiseSamples \in Nat \ {0}
    /\ Sustained \in Nat \ {0}
    /\ AcquireSamples \in Nat /\ AcquireSamples >= 2
    /\ ReleaseSamples \in Nat \ {0}
    /\ Warmup \in Nat \ {0}

VARIABLES
    generationFirst, \* conservativeCrossDeviceSync_
    conf,            \* the configuration of the last present
    sched,           \* AdaptiveFrameScheduler's members
    baseline,        \* FixedSourceCadenceTracker's: "none", "candidate", "held"
    timeline,        \* currentSourceTimeline_.valid
    paced,           \* metrics.hasLastSourcePresent
    warmup,          \* sourceHistoryWarmupRemaining_
    work,            \* what the last present did besides its source frame
    planned,         \* what plan() returned
    asked,           \* history: how long more than the limit was wanted
    strayed,         \* history: how long the demand was outside a locked regime
    retargeted,      \* history: another target or multiplier since the last plan
    undisturbed      \* environment: nothing disturbs a source that wants everything

plannerVars ==
    <<generationFirst, conf, sched, baseline, timeline, paced,
      warmup, work, planned, asked, strayed, retargeted, undisturbed>>

Distance(a, b) == IF a <= b THEN b - a ELSE a - b
CeilTenths(n) == (n + 9) \div 10

\* multiplier - 1 is max; at zero the hooks go around the context.
Configurations ==
    {c \in [adaptive : BOOLEAN, target : Targets, max : 0..MaxGenerated] :
        /\ ~c.adaptive => c.target = 0
        /\ c.max = 0 => ~c.adaptive}

\* What present passes to configure().
TargetOf(c) == IF c.adaptive THEN c.target ELSE 0

-----------------------------------------------------------------------------
(* AdaptiveFrameScheduler.  unmet is the time since the demand first was    *)
(* above the cost limit, -1 when it is not; trusted stands for              *)
(* lastTrustedSourceIntervalSeconds_ > 0.                                   *)

BaseCost(s) == IF s.max = 0 THEN 0 ELSE IF generationFirst THEN s.max ELSE 1

NoUnmet(s) == [s EXCEPT !.unmet = -1, !.raise = 0]
Unlocked(s) ==
    [s EXCEPT !.locked = 0, !.candidate = 0, !.evidence = 0, !.release = 0,
              !.phase = 0]

\* The old target's regime and phase leak into the new schedule.
RuntimeReset_KeepsRegime(s) ==
    [NoUnmet(s) EXCEPT
        !.smoothed = 0, !.warmStart = FALSE, !.samples = 0, !.stable = FALSE,
        !.cost = BaseCost(s)]
RuntimeReset(s) ==
    [NoUnmet(Unlocked(s)) EXCEPT
        !.smoothed = 0, !.warmStart = FALSE, !.samples = 0, !.stable = FALSE,
        !.cost = BaseCost(s)]

\* A reset that clears the smoothed period and leaves the trusted one.
SchedulerReset_KeepsTrust(s) == RuntimeReset([s EXCEPT !.established = FALSE])
SchedulerReset(s) ==
    RuntimeReset([s EXCEPT !.established = FALSE, !.trusted = FALSE])

Active(s) == s.target # 0 /\ s.max # 0

Configured(s, target, max) ==
    LET new == RuntimeReset([s EXCEPT !.target = target, !.max = max]) IN
    IF s.target = target /\ s.max = max THEN s
    ELSE [new EXCEPT !.warmStart = s.established /\ Active(s) /\ Active(new)]

\* setGenerationFirst
GenerationFirst(s) ==
    IF generationFirst THEN NoUnmet([s EXCEPT !.cost = s.max]) ELSE s

\* An interval of more than eight trusted ones, which is used up.
Discontinued(s) ==
    [RuntimeReset(s) EXCEPT !.trusted = FALSE, !.warmStart = s.warmStart]

\* updateSourceRate: the window's mean is clamped to 0.75 and 1.30 of the
\* smoothed period, which then goes 0.45 of the way up or 0.30 down.
SmoothedTo(s) ==
    {p \in 1..MaxPeriod :
        s.smoothed > 0 => /\ p >= (s.smoothed * 925) \div 1000
                          /\ p <= (s.smoothed * 1135 + 999) \div 1000}

SourceRate(s, period, steady) ==
    LET n == AtMost(s.samples + 1, CadenceWindow) IN
    [s EXCEPT !.smoothed = period, !.samples = n,
              !.stable = steady /\ n = CadenceWindow]

Wanted(s) == AtMost(AtLeast(s.smoothed - 10, 0), 10 * s.max)

WarmStarted(s) ==
    IF s.warmStart
    THEN NoUnmet([s EXCEPT !.cost = AtLeast(@, AtLeast(CeilTenths(Wanted(s)), 1)),
                           !.warmStart = FALSE])
    ELSE s

\* safe: the predictor's hint is valid and covers one frame above the limit.
\* Hints need not be consecutive.
RaiseEvidence_Sticky(s, safe) ==
    IF safe THEN AtMost(s.raise + 1, RaiseSamples) ELSE s.raise
RaiseEvidence(s, safe) ==
    IF safe THEN AtMost(s.raise + 1, RaiseSamples) ELSE 0

\* Demand alone never raises the limit.
RaiseDue_OnlyByHint(s, safe) == RaiseEvidence(s, safe) = RaiseSamples /\ s.stable
RaiseDue(s, safe) ==
    \/ RaiseEvidence(s, safe) = RaiseSamples /\ s.stable
    \/ s.unmet >= Sustained

\* updateCostLimit
CostLimited(s, safe) ==
    CASE generationFirst -> NoUnmet([s EXCEPT !.cost = s.max])
      [] ~generationFirst /\ (s.cost >= s.max \/ Wanted(s) <= 10 * s.cost) ->
            NoUnmet(s)
      [] OTHER -> IF RaiseDue(s, safe) THEN NoUnmet([s EXCEPT !.cost = @ + 1])
                  ELSE [s EXCEPT !.raise = RaiseEvidence(s, safe),
                                 !.unmet = AtLeast(@, 0)]

\* The kIntegerDensity windows: 0.10 to enter a regime, 0.20 to stay in it.
Nearest(n) == (n + 5) \div 10
Acquirable(s) ==
    /\ Nearest(Wanted(s)) \in 1..s.max
    /\ Distance(Wanted(s), 10 * Nearest(Wanted(s))) <= 1

Acquiring(s) ==
    LET n        == Nearest(Wanted(s))
        evidence == IF s.candidate = n THEN s.evidence + 1 ELSE 1
    IN
    CASE ~Acquirable(s) -> [s EXCEPT !.candidate = 0, !.evidence = 0]
      [] Acquirable(s) /\ evidence >= AcquireSamples ->
            [Unlocked(s) EXCEPT !.locked = n]
      [] OTHER -> [s EXCEPT !.candidate = n, !.evidence = evidence]

\* A sample inside the window does not forget those outside.
Stayed_KeepsRelease(s) == [s EXCEPT !.candidate = 0, !.evidence = 0]
Stayed(s) == [s EXCEPT !.release = 0, !.candidate = 0, !.evidence = 0]

\* stabilizeGenerationDensity
Stabilized(s) ==
    CASE s.locked = 0 -> Acquiring(s)
      [] s.locked # 0 /\ Distance(Wanted(s), 10 * s.locked) <= 2 -> Stayed(s)
      [] OTHER -> IF s.release + 1 < ReleaseSamples
                  THEN [s EXCEPT !.release = @ + 1]
                  ELSE Acquiring(Unlocked(s))

\* The end of plan(): whole frames are taken off the phase whether or not the
\* cost limit lets them through.
Spread(s) ==
    IF s.locked # 0 THEN [s EXCEPT !.phase = 0]
    ELSE [s EXCEPT !.phase = (@ + Wanted(s)) % 10]
WholeFrames(s) ==
    IF s.locked # 0 THEN s.locked ELSE (s.phase + Wanted(s)) \div 10

\* The first steps of plan(), for an interval it accepts.
Rated(s, held, period, steady, step) ==
    LET r == IF held THEN s ELSE SourceRate(s, period, steady) IN
    [r EXCEPT !.established = TRUE, !.trusted = r.smoothed > 0,
              !.unmet = IF s.unmet < 0 THEN -1 ELSE AtMost(@ + step, Sustained)]

\* What the source and the predictor asked for, counted apart from the
\* scheduler's own counters: consecutive hints and time in favour of a limit
\* above this one, consecutive samples outside the regime.
NotAsked == [limit |-> 0, hints |-> 0, time |-> -1]
AskedSince(s) == IF asked.limit = s.cost THEN asked ELSE NotAsked
Asked(s, safe, step) ==
    LET a == AskedSince(s) IN
    IF Wanted(s) <= 10 * s.cost THEN NotAsked
    ELSE [limit |-> s.cost,
          hints |-> IF safe THEN AtMost(a.hints + 1, RaiseSamples) ELSE 0,
          time  |-> IF a.time < 0 THEN 0 ELSE AtMost(a.time + step, Sustained)]
Retargeted(c) ==
    retargeted \/ TargetOf(c) # TargetOf(conf) \/ c.max # conf.max
Strayed(s) ==
    IF s.locked # 0 /\ Distance(Wanted(s), 10 * s.locked) > 2
    THEN AtMost(strayed + 1, ReleaseSamples) ELSE 0

-----------------------------------------------------------------------------
(* FixedSourceCadenceTracker                                                *)

\* observe() for a positive interval.
Observed(b, clean) ==
    IF clean THEN (IF b = "none" THEN "candidate" ELSE "held")
    ELSE (IF b = "candidate" THEN "none" ELSE b)

-----------------------------------------------------------------------------
(* The epoch and the configuration.                                         *)

FullWarmup == IF generationFirst THEN 1 ELSE Warmup

\* resetAdaptiveSourceEpoch, and enterSourceOnlyBypass, which clears the same.
ResetEpoch(s) ==
    /\ sched' = s
    /\ baseline' = "none"
    /\ timeline' = FALSE
    /\ work' = "source"
    /\ planned' = 0 /\ asked' = NotAsked /\ strayed' = 0

\* A reload without generation makes the hook call enterSourceOnlyBypass.
SwitchOff(c) ==
    /\ ~undisturbed
    /\ c.max = 0 /\ conf' = c
    /\ ResetEpoch(SchedulerReset(sched))
    /\ paced' = FALSE /\ warmup' = FullWarmup
    /\ retargeted' = Retargeted(c)
    /\ UNCHANGED <<generationFirst, undisturbed>>

\* A present that found its pass in flight, or the end of one that was suspended.
Interrupt ==
    /\ ~undisturbed /\ conf.max > 0
    /\ ResetEpoch(SchedulerReset(sched))
    /\ paced' = FALSE /\ warmup' = FullWarmup
    /\ UNCHANGED <<generationFirst, conf, retargeted, undisturbed>>

\* On Adreno a busy pass keeps the planner's state.
BusyPass ==
    /\ generationFirst /\ conf.max > 0
    /\ work' = "source"
    /\ warmup' = AtLeast(warmup, 1)
    /\ UNCHANGED <<generationFirst, conf, sched, baseline, timeline,
                   paced, planned, asked, strayed, retargeted, undisturbed>>

-----------------------------------------------------------------------------
(* One present, as far as it plans.                                         *)

\* What every present configures before it plans.
Prepared(s, c) == GenerationFirst(Configured(s, TargetOf(c), c.max))

\* The rest of the present: a warm-up maintains history, and so does a batch
\* that was dropped on its way.
Works(remaining, allowed) ==
    /\ warmup' \in {remaining, AtLeast(remaining - 1, 0)}
    /\ work' \in {"source", "history"} \cup
                IF remaining = 0 /\ allowed THEN {"generated"} ELSE {}

\* A present without an interval: plan() and the trackers return at once.
UnpacedCycle(s, c, remaining) ==
    /\ c.max > 0
    /\ sched' = Prepared(s, c)
    /\ baseline' = "none"
    /\ timeline' = FALSE
    /\ paced' = TRUE
    /\ planned' = IF c.adaptive THEN 0 ELSE c.max
    /\ asked' = NotAsked /\ strayed' = 0
    /\ Works(remaining, ~c.adaptive)
    /\ UNCHANGED <<generationFirst, undisturbed>>

\* The first present of an epoch.
FirstCycle ==
    /\ ~paced
    /\ UnpacedCycle(sched, conf, warmup)
    /\ UNCHANGED <<conf, retargeted>>

\* The first present under another configuration: its signature differs, so the
\* epoch is reset, the scheduler included, before anything is configured.  The
\* mode changes too, when another swapchain was the first to see the reload.
ReloadedCycle(c) ==
    /\ ~undisturbed
    /\ conf' = c /\ retargeted' = Retargeted(c)
    /\ UnpacedCycle(SchedulerReset(sched), c, FullWarmup)

HasInterval == conf.max > 0 /\ paced

\* A jump that the scheduler takes for a discontinuity: everything but the
\* scheduler is reset after it.
DiscontinuousCycle ==
    /\ HasInterval /\ ~undisturbed
    /\ conf.adaptive /\ Active(Prepared(sched, conf)) /\ sched.trusted
    /\ ResetEpoch(Discontinued(Prepared(sched, conf)))
    /\ paced' = FALSE
    /\ warmup' \in {FullWarmup, FullWarmup - 1}
    /\ UNCHANGED <<generationFirst, conf, retargeted, undisturbed>>

\* A jump that only the timeline takes for one: the plan is thrown away, and
\* the scheduler is reset too.
RejectedCycle ==
    /\ HasInterval /\ ~undisturbed
    /\ timeline
    /\ ResetEpoch(SchedulerReset(Prepared(sched, conf)))
    /\ paced' = FALSE
    /\ warmup' \in {FullWarmup, FullWarmup - 1}
    /\ UNCHANGED <<generationFirst, conf, retargeted, undisturbed>>

\* plan() for an interval it accepts; in a flow transition the cadence is held.
\* What the present does then is read in Fixed mode only, which starts afresh.
AdaptiveCycle ==
    /\ HasInterval /\ conf.adaptive
    /\ \E p \in {Prepared(sched, conf)} :
       /\ Active(p)
       /\ \E held \in {FALSE, p.trusted}, step \in 1..MaxStep, safe \in BOOLEAN,
             period \in SmoothedTo(p), steady \in BOOLEAN :
          /\ held => ~steady /\ period = p.smoothed
          /\ undisturbed => period >= 10 + 10 * conf.max
          /\ \E rated \in {Rated(p, held, period, steady, step)} :
             \E warmed \in {WarmStarted(rated)} :
             \E limited \in {CostLimited(warmed, safe)} :
             \E s \in {Stabilized(limited)} :
                /\ sched' = Spread(s)
                /\ planned' = AtMost(WholeFrames(s), s.cost)
                /\ asked' = Asked(rated, safe, step)
                /\ strayed' = Strayed(rated)
    /\ baseline' = "none"
    /\ timeline' = TRUE /\ retargeted' = FALSE
    /\ UNCHANGED <<generationFirst, conf, paced, warmup, work, undisturbed>>

\* Without a target plan() returns before it looks at the interval.
IdleCycle ==
    /\ HasInterval /\ conf.adaptive /\ ~Active(Prepared(sched, conf))
    /\ sched' = Prepared(sched, conf)
    /\ planned' = 0 /\ asked' = NotAsked /\ strayed' = 0
    /\ baseline' = "none"
    /\ timeline' = TRUE
    /\ UNCHANGED <<generationFirst, conf, paced, warmup, work, retargeted, undisturbed>>

\* Fixed mode asks for its multiplier and only measures the source.  Away from
\* Adreno the tracker is told Generated or SourceOnly, whatever was recorded.
FixedCycle ==
    /\ HasInterval /\ ~conf.adaptive
    /\ sched' = Prepared(sched, conf)
    /\ baseline' = Observed(baseline,
                            /\ warmup = 0
                            /\ work # "generated"
                            /\ generationFirst => work = "source")
    /\ planned' = conf.max /\ asked' = NotAsked /\ strayed' = 0
    /\ timeline' = TRUE
    /\ Works(warmup, TRUE)
    /\ UNCHANGED <<generationFirst, conf, paced, retargeted, undisturbed>>

\* From here on nothing disturbs the source, and it asks for every frame.
GoUndisturbed ==
    /\ ~undisturbed /\ HasInterval
    /\ conf.adaptive /\ Active(sched)
    /\ sched.smoothed >= 10 + 10 * conf.max
    /\ undisturbed' = TRUE
    /\ UNCHANGED <<generationFirst, conf, sched, baseline, timeline,
                   paced, warmup, work, planned, asked, strayed, retargeted>>

-----------------------------------------------------------------------------
NewScheduler ==
    [target |-> 0, max |-> 0, phase |-> 0, smoothed |-> 0, trusted |-> FALSE,
     established |-> FALSE, warmStart |-> FALSE, samples |-> 0,
     stable |-> FALSE, locked |-> 0, candidate |-> 0, evidence |-> 0,
     release |-> 0, raise |-> 0, unmet |-> -1, cost |-> 0]

PlannerInit ==
    /\ generationFirst \in BOOLEAN
    /\ conf \in {c \in Configurations : c.max > 0}
    /\ sched = NewScheduler
    /\ baseline = "none" /\ timeline = FALSE /\ paced = FALSE
    /\ warmup = FullWarmup /\ work = "source"
    /\ planned = 0 /\ asked = NotAsked /\ strayed = 0
    /\ retargeted = FALSE /\ undisturbed = FALSE

PlannerNext ==
    \/ \E c \in Configurations : SwitchOff(c) \/ ReloadedCycle(c)
    \/ Interrupt \/ BusyPass
    \/ FirstCycle \/ DiscontinuousCycle \/ RejectedCycle
    \/ AdaptiveCycle \/ IdleCycle \/ FixedCycle
    \/ GoUndisturbed

\* An undisturbed game goes on presenting.
PlannerSpec ==
    /\ PlannerInit /\ [][PlannerNext]_plannerVars
    /\ WF_plannerVars(undisturbed /\ AdaptiveCycle)

-----------------------------------------------------------------------------
(* Properties.                                                              *)

\* Two detectors of a jump, the scheduler's and the timeline's, compare the
\* interval with different references and reset each other.  They never end up
\* apart: the timeline is valid exactly when the scheduler has a period it
\* trusts, and the period it would hold over a flow transition is never empty.
CadenceInTandem ==
    /\ sched.trusted => sched.smoothed > 0
    /\ conf.adaptive /\ Active(sched) => (timeline <=> sched.trusted)

\* The first interval of an epoch is planned without a phase or a regime of
\* before, which would add a frame to what this period alone asks for.  After a
\* jump, a suspend or a busy pass it also inherits no cost limit: away from
\* Adreno no more than one frame is planned.  For a target or multiplier that
\* has changed meanwhile configure() wants otherwise, see IntentSurvives.
FreshStart ==
    [][sched.smoothed = 0 /\ sched'.smoothed > 0 =>
          /\ planned' <= Wanted(sched') \div 10
          /\ generationFirst \/ retargeted \/ planned' <= 1]_plannerVars

\* adaptive_scheduler.cpp:1049-1052 of a target or multiplier that is changed
\* while there is a cadence: "Preserve that intent across the menu's
\* suspend/resume discontinuity so the first valid cadence sample can seed the
\* requested generation ceiling immediately."  The present that finds the change
\* resets the scheduler, and with it the memory of the cadence, before it calls
\* configure() (context.cpp:2207-2228).
IntentSurvives ==
    [][/\ sched.established /\ Active(sched) /\ Active(sched')
       /\ <<sched'.target, sched'.max>> # <<sched.target, sched.max>>
       => sched'.warmStart]_plannerVars

\* Within an epoch the cost limit only rises after the demand was above it
\* without a break, either with that many consecutive hints that the next
\* level is safe or for the whole of the sustained time.
RaiseIsEarned ==
    [][sched'.cost > sched.cost /\ sched.smoothed > 0 /\ sched'.smoothed > 0
          => \/ asked'.hints = RaiseSamples
             \/ asked'.time = Sustained]_plannerVars

\* An integer regime is left only after ReleaseSamples samples in a row outside
\* its window, so jitter of the source never breaks the pattern.
SteadyRatio ==
    [][sched.locked # 0 /\ sched'.locked # sched.locked /\ sched'.smoothed > 0
          => strayed = ReleaseSamples - 1 /\ sched'.locked = 0]_plannerVars

\* A source that keeps asking for every frame gets the full cost limit, with
\* or without a predictor that helps.
CeilingReached == undisturbed ~> sched.cost = sched.max
=============================================================================
