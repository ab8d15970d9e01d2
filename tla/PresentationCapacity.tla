------------------------ MODULE PresentationCapacity ------------------------
(***************************************************************************)
(* GeneratedPresentationCapacityTracker: how many generated frames per     *)
(* source frame the presentation engine can absorb, learnt from what it    *)
(* rejected.  LsContext::present asks limit() before it dispatches and     *)
(* calls observe() after delivery; a present that ends in between (a late  *)
(* batch, no free output, an exception) never calls observe().             *)
(*                                                                         *)
(* Only the path of Xclipse and generic devices uses the tracker: Adreno's *)
(* own block skips both calls.  Duty and phase are counted in quarters of  *)
(* a frame, recovery evidence in quarters of a clean observation.  The     *)
(* moving averages are abstracted to the outcomes of the comparisons made  *)
(* with them.                                                              *)
(***************************************************************************)
EXTENDS GeneratedFrames

CONSTANTS
    EvidenceThreshold,  \* kWsiEvidenceThreshold: 5
    ProbeThreshold,     \* kWsiRecoveryProbeThreshold: 8.0, in quarters
    RecoveryBound,      \* bound of the model: recovery evidence saturates here
    DeficitThreshold,   \* kWsiDeficitProbeThreshold: 2.5, in quarters
    EvaluationSamples   \* kWsiProvisionalEvaluationSamples: 6

ASSUME PresentationCapacityAssumption ==
    /\ MaxGenerated \in Nat \ {0}
    /\ EvidenceThreshold \in Nat /\ EvidenceThreshold >= 2
    /\ ProbeThreshold \in Nat \ {0}
    /\ RecoveryBound \in Nat /\ RecoveryBound >= ProbeThreshold
    /\ DeficitThreshold \in Nat
    /\ EvaluationSamples \in Nat \ {0}

VARIABLES
    tracker,   \* the tracker's members, as a record
    granted,   \* what limit() returned to the present under way; 0: none is
    context,   \* the GeneratedPresentationCapacityContext of that present
    calm       \* environment: WSI has stopped rejecting, and the planner asks
               \* for every frame

vars == <<tracker, granted, context, calm>>

FullDuty == 4
Changes == {"none", "probe", "restored", "kept", "lowered", "duty_lower",
            "duty_recover", "raised"}

\* configure() with a new maximum, and reset().
Fresh(m) ==
    [max |-> m, cap |-> m, duty |-> FullDuty, phase |-> 0,
     rejection |-> 0, recovery |-> 0,
     provisional |-> FALSE, previousCap |-> 0, samples |-> 0,
     pending |-> FALSE, inFlight |-> FALSE, useful |-> 0, change |-> "none"]

\* proven is higherCapacityIsProven: it needs a valid deadline hint, a source
\* inside its budget, and a capacity that was useful before.
Contexts(t) ==
    {c \in [deficit : BOOLEAN, valid : BOOLEAN, proven : BOOLEAN] :
        c.proven => c.valid /\ t.useful > t.cap}
NoContext == [deficit |-> FALSE, valid |-> FALSE, proven |-> FALSE]

-----------------------------------------------------------------------------
(* limit(): efficient says whether efficiencyEwma_ is at least 0.8.        *)

\* A probe left in flight by a present that was not observed survives.
Withdrawn_Keep(t) == t
Withdrawn(t) == [t EXCEPT !.inFlight = FALSE]

ProbeDue(t, c, efficient) ==
    /\ ~t.provisional
    /\ t.cap < t.max
    /\ \/ t.pending
       \/ t.recovery >= ProbeThreshold /\ efficient
       \/ c.deficit /\ c.proven /\ t.recovery >= DeficitThreshold

\* A cap of one with a duty below one: the phase decides.
Fractional(t, requested) == AtMost(requested, t.cap) = 1 /\ t.duty < FullDuty

\* The planner wants more than the cap, and a probe is due.
LimitProbe(requested) ==
    LET t == Withdrawn(tracker) IN
    /\ requested > t.cap
    /\ \E efficient \in BOOLEAN : ProbeDue(t, context', efficient)
    /\ tracker' = [t EXCEPT !.pending = FALSE, !.inFlight = TRUE]
    /\ granted' = t.cap + 1

\* No probe is due, or the planner does not want more than the cap anyway.
LimitCapped(requested) ==
    LET t == Withdrawn(tracker) IN
    \E efficient \in BOOLEAN :
      LET due == ProbeDue(t, context', efficient)
          u   == [t EXCEPT !.pending = @ /\ ~due]
      IN
      /\ ~(due /\ requested > t.cap)
      /\ \/ /\ Fractional(t, requested)
            /\ tracker' = [u EXCEPT !.phase = (t.phase + t.duty) % FullDuty]
            /\ granted' = (t.phase + t.duty) \div FullDuty
         \/ /\ ~Fractional(t, requested)
            /\ tracker' = u
            /\ granted' = AtMost(requested, t.cap)

Limit(requested) ==
    /\ granted = 0
    /\ requested <= tracker.max
    /\ calm => requested = tracker.max
    /\ context' \in Contexts(tracker)
    /\ LimitProbe(requested) \/ LimitCapped(requested)
    /\ UNCHANGED calm

-----------------------------------------------------------------------------
(* observe(), step by step.  An observation o has what was attempted and    *)
(* rejected, the context of the present, pressure (0: the rejection ratio   *)
(* is below 0.20; 1: at least 0.20; 2: at least 0.50) and profitable (the   *)
(* verdict on a provisional cap).  Every attempted image was delivered or   *)
(* rejected: a batch that is late for its deadline is not observed.         *)

Observations(t, c, n) ==
    {o \in [attempted : {n}, rejected : 0..n, context : {c}, pressure : 0..2,
            profitable : BOOLEAN] :
        (calm => o.rejected = 0) /\ (o.profitable => t.provisional)}

Grown(e, n)   == AtMost(e + n, RecoveryBound)
Decayed(e, n) == AtLeast(e - n, 0)

\* At least four of five attempted images were delivered.
Efficient(o) == 5 * (o.attempted - o.rejected) >= 4 * o.attempted

RecoveryAfter(t, o) ==
    CASE o.rejected > 0 -> Decayed(t.recovery, 1)
      [] o.rejected = 0 -> Grown(t.recovery, 4)

Counted(t, o) ==
    [t EXCEPT
        !.change = "none",
        !.useful = IF o.rejected < o.attempted THEN AtLeast(@, o.attempted) ELSE @,
        !.rejection = IF o.rejected > 0
                      THEN AtMost(@ + 2, 3 * EvidenceThreshold)
                      ELSE AtLeast(@ - 1, 0),
        !.recovery = IF o.context.deficit /\ o.context.proven
                     THEN Grown(RecoveryAfter(t, o), 3)
                     ELSE RecoveryAfter(t, o)]

\* A successful probe keeps the fractional duty of the lower cap.
Resolved_KeepDuty(t, o) ==
    IF t.inFlight
    THEN IF o.attempted - o.rejected > t.cap
         THEN [t EXCEPT !.inFlight = FALSE, !.cap = AtMost(@ + 1, t.max),
                        !.phase = 0, !.rejection = 0, !.recovery = 0,
                        !.change = "probe"]
         ELSE [t EXCEPT !.inFlight = FALSE, !.recovery = Decayed(@, 4)]
    ELSE t

Succeeded(t) ==
    [t EXCEPT !.inFlight = FALSE, !.cap = AtMost(@ + 1, t.max),
              !.duty = FullDuty, !.phase = 0, !.rejection = 0,
              !.recovery = 0, !.change = "probe"]
Failed(t) == [t EXCEPT !.inFlight = FALSE, !.recovery = Decayed(@, 4)]

\* The outcome of an upward probe in flight.
Resolved(t, o) ==
    CASE ~t.inFlight                                       -> t
      [] t.inFlight /\ o.attempted - o.rejected > t.cap    -> Succeeded(t)
      [] t.inFlight /\ ~(o.attempted - o.rejected > t.cap) -> Failed(t)

\* The verdict on a provisional cap, after its last sample.
Evaluated(t, o) ==
    CASE ~t.provisional -> t
      [] t.provisional /\ t.samples + 1 < EvaluationSamples ->
           [t EXCEPT !.samples = @ + 1]
      [] t.provisional /\ t.samples + 1 >= EvaluationSamples /\ o.profitable ->
           [t EXCEPT !.provisional = FALSE, !.samples = 0, !.change = "kept"]
      [] t.provisional /\ t.samples + 1 >= EvaluationSamples /\ ~o.profitable ->
           [t EXCEPT !.provisional = FALSE, !.samples = 0,
                     !.cap = AtMost(t.previousCap, t.max),
                     !.recovery = 0, !.rejection = 0, !.change = "restored"]

\* Pressure at an integer cap above one, and at a cap of one.
LowersCap(t, o) ==
    /\ ~t.provisional /\ t.cap > 1
    /\ t.rejection >= EvidenceThreshold /\ o.pressure >= 1
LowersDuty(t, o) ==
    /\ ~t.provisional /\ t.cap = 1
    /\ t.rejection >= EvidenceThreshold /\ o.pressure = 2
    /\ ~(o.context.deficit /\ o.context.proven)
    /\ t.duty > 1

\* Pressure at a cap of one drops straight to the lowest duty.
Lowered_ToFloor(t, o) ==
    CASE LowersCap(t, o) ->
           [t EXCEPT !.provisional = TRUE, !.previousCap = t.cap, !.samples = 0,
                     !.cap = @ - 1, !.rejection = 1, !.phase = 0,
                     !.change = "lowered"]
      [] LowersDuty(t, o) ->
           [t EXCEPT !.duty = 1, !.rejection = 0, !.recovery = 0,
                     !.phase = 0, !.change = "duty_lower"]
      [] OTHER -> t

Lowered(t, o) ==
    CASE LowersCap(t, o) ->
           [t EXCEPT !.provisional = TRUE, !.previousCap = t.cap, !.samples = 0,
                     !.cap = @ - 1, !.rejection = 1, !.phase = 0,
                     !.change = "lowered"]
      [] LowersDuty(t, o) ->
           [t EXCEPT !.duty = @ - 1, !.rejection = 0, !.recovery = 0,
                     !.phase = 0, !.change = "duty_lower"]
      [] OTHER -> t

RecoversDuty(t) == t.duty < FullDuty /\ t.recovery >= ProbeThreshold
RecoversCap(t) ==
    /\ ~t.provisional /\ t.cap < t.max /\ t.recovery >= ProbeThreshold
WantsProbe(t, c) == c.deficit /\ c.proven /\ t.recovery >= DeficitThreshold

\* The fractional duty is never raised again.
Raised_NoDuty(t, c) ==
    CASE RecoversCap(t) /\ ~c.deficit /\ ~c.valid ->
           [t EXCEPT !.cap = @ + 1, !.recovery = 0, !.change = "raised"]
      [] RecoversCap(t) /\ (c.deficit \/ c.valid) -> [t EXCEPT !.pending = TRUE]
      [] OTHER -> t

\* The maximum is not consulted before the cap is raised.
Raised_Unbounded(t, c) ==
    CASE RecoversDuty(t) ->
           [t EXCEPT !.duty = @ + 1, !.recovery = 0, !.phase = 0,
                     !.change = "duty_recover"]
      [] ~RecoversDuty(t) /\ t.recovery >= ProbeThreshold
           /\ ~t.provisional /\ ~c.deficit /\ ~c.valid ->
           [t EXCEPT !.cap = @ + 1, !.recovery = 0, !.change = "raised"]
      [] OTHER -> t

Raised(t, c) ==
    CASE RecoversDuty(t) ->
           [t EXCEPT !.duty = @ + 1, !.recovery = 0, !.phase = 0,
                     !.change = "duty_recover"]
      [] ~RecoversDuty(t) /\ RecoversCap(t) /\ ~c.deficit /\ ~c.valid ->
           [t EXCEPT !.cap = @ + 1, !.recovery = 0, !.change = "raised"]
      [] ~RecoversDuty(t) /\ RecoversCap(t) /\ (c.deficit \/ c.valid) ->
           [t EXCEPT !.pending = TRUE]
      [] ~RecoversDuty(t) /\ ~RecoversCap(t) /\ WantsProbe(t, c) ->
           [t EXCEPT !.pending = TRUE]
      [] OTHER -> t

\* The stages run in this order; each is bound to its value.
Observe ==
    /\ granted > 0
    /\ \E o \in Observations(tracker, context, granted) :
       \E counted \in {Counted(tracker, o)} :
       \E resolved \in {Resolved(counted, o)} :
       \E evaluated \in {Evaluated(resolved, o)} :
       \E lowered \in {Lowered(evaluated, o)} :
          tracker' = Raised(lowered, o.context)
    /\ granted' = 0
    /\ context' = NoContext
    /\ UNCHANGED calm

-----------------------------------------------------------------------------
\* The present ends without an observation.
Abandon ==
    /\ granted > 0 /\ ~calm
    /\ granted' = 0
    /\ context' = NoContext
    /\ UNCHANGED <<tracker, calm>>

\* configure(), on entry to present: Adaptive switched, or a new multiplier.
Configure(m) ==
    /\ granted = 0 /\ m # tracker.max
    /\ tracker' = Fresh(m)
    /\ UNCHANGED <<granted, context, calm>>

\* reset(), with every other piece of adaptive state: a new source epoch or a
\* source-only bypass, between two presents or at the end of one.
Reset ==
    /\ tracker' = Fresh(tracker.max)
    /\ granted' = 0
    /\ context' = NoContext
    /\ UNCHANGED calm

\* Environment.
CalmDown ==
    /\ ~calm /\ calm' = TRUE
    /\ UNCHANGED <<tracker, granted, context>>

Init ==
    /\ \E m \in 0..MaxGenerated : tracker = Fresh(m)
    /\ granted = 0 /\ context = NoContext /\ calm = FALSE

Cycle == (\E n \in 1..MaxGenerated : Limit(n)) \/ Observe

Next ==
    \/ Cycle
    \/ Abandon
    \/ \E m \in 0..MaxGenerated : Configure(m)
    \/ Reset
    \/ CalmDown

\* The application goes on presenting.
Spec == Init /\ [][Next]_vars /\ WF_vars(Cycle)

-----------------------------------------------------------------------------
Trackers ==
    [max : 0..MaxGenerated, cap : 0..MaxGenerated, duty : 1..FullDuty,
     phase : 0..3, rejection : 0 .. 3 * EvidenceThreshold,
     recovery : 0..RecoveryBound, provisional : BOOLEAN,
     previousCap : 0..MaxGenerated, samples : 0..EvaluationSamples - 1,
     pending : BOOLEAN, inFlight : BOOLEAN, useful : 0..MaxGenerated,
     change : Changes]

TypeOK ==
    /\ tracker \in Trackers
    /\ granted \in 0..MaxGenerated
    /\ context \in [deficit : BOOLEAN, valid : BOOLEAN, proven : BOOLEAN]
    /\ calm \in BOOLEAN

\* The three mechanisms that share the cap never work against each other: the
\* cap stays between one and the maximum, a fractional duty exists only at a cap
\* of one that is not on trial, a cap on trial is exactly one below the level it
\* would be restored to, and an upward probe runs only from a settled cap.
Coherent(t) ==
    /\ t.cap <= t.max
    /\ t.max > 0 => t.cap >= 1
    /\ t.duty < FullDuty => t.cap = 1 /\ ~t.provisional
    /\ t.provisional => t.previousCap = t.cap + 1 /\ t.previousCap <= t.max
    /\ t.inFlight => ~t.provisional /\ t.cap < t.max
CapacityCoherent == Coherent(tracker)

\* What a present is granted never exceeds the cap unless it is this present's
\* own probe, and then by one frame: the outcome of an earlier present's probe
\* can never be credited to a present that did not probe.
ProbeIsOwn ==
    granted > 0 =>
        /\ granted <= tracker.cap + 1
        /\ tracker.inFlight <=> granted = tracker.cap + 1

\* An observation moves the cap, or the duty, by one level at most and never
\* both up and down: at least one of them stays, except that a successful probe
\* also restores the full duty.  Only a new maximum or a reset may jump.
OneLevel(t, u) ==
    /\ u.cap \in {t.cap - 1, t.cap, t.cap + 1}
    /\ \/ u.duty \in {t.duty - 1, t.duty, t.duty + 1}
       \/ u.duty = FullDuty /\ u.cap = t.cap + 1
    /\ u.cap # t.cap /\ u.duty # t.duty => u.duty = FullDuty /\ u.cap = 2
Gradual ==
    [][tracker' = Fresh(tracker'.max) \/ OneLevel(tracker, tracker')]_vars

\* Once the presentation engine accepts everything and the planner asks for
\* everything, the tracker finds its way back to the full capacity and stays
\* there, from whatever cap, duty, trial or evidence it was left with.
RecoversWhenCalm ==
    (<>calm) => <>[](tracker.cap = tracker.max /\ tracker.duty = FullDuty)
=============================================================================
