--------------------------- MODULE DeadlineAdmission ---------------------------
(***************************************************************************)
(* How many generated frames a present of one LsContext dispatches in      *)
(* Adaptive mode on a device that is not a protected Adreno: the predicted *)
(* source timeline, the learned cost of a batch, and the reserve that late *)
(* deliveries leave behind.                                                *)
(*                                                                         *)
(* A time is a number of units of about a millisecond; what the code       *)
(* computes in fractions is rounded away from its old value, so that a     *)
(* moving average reaches a steady input after finitely many samples, as   *)
(* it does in the code up to a precision nobody can tell apart.            *)
(*                                                                         *)
(* The planner's wish, the capacity of the presentation and the governor's *)
(* decisions belong to other modules and are inputs here.  A present that  *)
(* throws or whose bounded wait expires ends the context.                  *)
(***************************************************************************)
EXTENDS Integers, FiniteSetsExt

CONSTANTS
    MaxGenerated,  \* multiplier - 1
    Intervals,     \* times between two source presents
    Steady,        \* the one of a calm source
    Ratio,         \* kSourceTimelineDiscontinuityRatio: 8
    Delays,        \* from the arrival of a source to its admission
    Costs,         \* GPU time of a batch of one
    Queues,        \* how much longer the host waits for it
    Lateness,      \* of a generated frame at its delivery
    ReserveMax,    \* kDeliveryReserveMaxMs: 8
    Warmup         \* kSourceHistoryWarmupFrames: 4

ASSUME DeadlineAssumption ==
    /\ MaxGenerated \in 1..3 /\ Ratio \in Nat \ {0} /\ Warmup \in Nat \ {0}
    /\ Intervals \subseteq Nat \ {0} /\ Steady \in Intervals
    /\ Costs \subseteq Nat \ {0} /\ Costs # {} /\ ReserveMax \in Nat \ {0}
    /\ 0 \in Delays /\ 0 \in Queues
    /\ Delays \subseteq Nat /\ Queues \subseteq Nat /\ Lateness \subseteq Nat

VARIABLES
    hostWait,  \* completion is waited for on the host: no SYNC_FD exchange, or
               \* none any more after one failed
    pc,        \* "observe" a source, or "dispatch" what was admitted
    known,     \* metrics.hasLastSourcePresent
    timeline,  \* sourceTimeline_: [last, predicted], 0 until it is initialized,
               \* which is also when currentSourceTimeline_ becomes valid
    warmup,    \* sourceHistoryWarmupRemaining_
    batch,     \* [n, delay]: frames to dispatch, and how late that was decided
    est,       \* batchEstimates_: count -> [total, gpu, blocking]; total 0: invalid
    reserve,   \* deliveryReserveMs_
    timing,    \* [n, cost]: a GPU timing that was not observed yet
    moving,    \* adaptiveFlowTransitionActive
    calm       \* from now on the load is steady and light

source == <<known, timeline, warmup>>
predictor == <<est, reserve>>
vars == <<hostWait, pc, source, batch, predictor, timing, moving, calm>>

Counts     == 1..MaxGenerated
NoTimeline == [last |-> 0, predicted |-> 0]
NoEstimate == [total |-> 0, gpu |-> 0, blocking |-> FALSE]
NoTiming   == [n |-> 0, cost |-> 0]
NoBatch    == [n |-> 0, delay |-> 0]

CeilDiv(a, b) == (a + b - 1) \div b
Larger(a, b)  == Max({a, b})

-----------------------------------------------------------------------------
(* SourceProtectedTimeline *)

\* The prediction rises slowly and falls quickly, by a bounded part of itself.
Toward(p, i) ==
    LET seen == Larger(CeilDiv(p, 2), Min({i, (3 * p) \div 2}))
    IN IF seen < p THEN p - CeilDiv(p - seen, 2) ELSE p + CeilDiv(seen - p, 5)

\* observe(), for an interval that is not taken for a discontinuity.  During a
\* flow transition the cadence is kept and only its phase moves.
Observed(i) ==
    IF timeline = NoTimeline THEN [last |-> i, predicted |-> i]
    ELSE IF moving THEN [timeline EXCEPT !.last = timeline.predicted]
    ELSE [last |-> i, predicted |-> Toward(timeline.predicted, i)]

Jumps(i) == timeline.last > 0 /\ i > Ratio * timeline.last

\* syntheticDesiredTimeNs(), counted from the arrival of the source.
Slot(s, n) == (timeline.predicted * s) \div (n + 1)

-----------------------------------------------------------------------------
(* DeadlineAdmissionPredictor *)

Measured == {n \in Counts : est[n].total > 0}

\* The measured count next to n, the lower one of two.
Nearest(n) ==
    LET Far(m) == IF m <= n THEN 2 * (n - m) ELSE 2 * (m - n) + 1
    IN CHOOSE m \in Measured : \A k \in Measured : Far(m) <= Far(k)

\* A cost measured for a batch of m, for a batch of n.
Scaled(cost, m, n) ==
    IF n = m THEN cost
    ELSE LET plain == CeilDiv(cost * n * 11, m * 10)
         IN IF n < m THEN Larger(CeilDiv(cost * 7, 10), plain) ELSE plain

Margin(cost) == CeilDiv(cost * 12, 100)

\* predict(n, budget).wouldAdmit
Fits(n, budget) ==
    /\ Measured # {} /\ budget > 0
    /\ LET cost == Scaled(est[Nearest(n)].total, Nearest(n), n)
       IN cost + Margin(cost) <= budget - reserve

\* Higher at once, lower by little: kRecoveryEwmaAlpha is 0.12.
Eased(old, sample) ==
    IF sample >= old THEN sample ELSE old - CeilDiv(3 * (old - sample), 25)

\* observe(): a GPU time.  It is no evidence that the host waits less.
WithTiming(e, t) ==
    IF t = NoTiming THEN e
    ELSE [e EXCEPT ![t.n].gpu = Eased(@, t.cost),
                   ![t.n].total = IF e[t.n].blocking THEN Larger(@, t.cost)
                                  ELSE Eased(@, t.cost)]

\* observeBlockingCompletion()
WithCompletion(e, n, wait) ==
    [e EXCEPT ![n].blocking = TRUE, ![n].total = Eased(@, wait)]

\* observeSourceOnlyRecovery(): a cycle without a batch leaves the queue empty.
Recovered_Kept(e) == e
Recovered(e) ==
    [n \in Counts |->
        IF e[n].blocking /\ 0 < e[n].gpu /\ e[n].gpu < e[n].total
        THEN [e[n] EXCEPT !.total = Larger(e[n].gpu, Eased(@, e[n].gpu))]
        ELSE e[n]]

\* observeDeliveryMiss(), observeDeliverySuccess()
AfterMiss(r, late) ==
    LET sample == Min({Larger(late, 1), ReserveMax})
    IN IF r = 0 THEN sample
       ELSE IF sample >= r THEN r + CeilDiv(sample - r, 4)
       ELSE r - CeilDiv(r - sample, 4)
AfterSuccess(r) == r - CeilDiv(r, 20)

Forgotten == [n \in Counts |-> NoEstimate]

-----------------------------------------------------------------------------
(* A present: what is admitted. *)

\* resetAdaptiveSourceEpoch() and enterSourceOnlyBypass(): timings of before no
\* longer count.
ResetEpoch ==
    /\ timeline' = NoTimeline /\ warmup' = Warmup
    /\ est' = Forgotten /\ reserve' = 0
    /\ timing' = NoTiming /\ moving' = FALSE

\* A pass of the ring is still in flight, or the layer is switched off: the
\* source is passed through.
Invalidate ==
    /\ pc = "observe" /\ ~calm
    /\ ResetEpoch /\ known' = FALSE
    /\ UNCHANGED <<hostWait, pc, batch, calm>>

\* The first present of an epoch has no interval, and nothing is planned.
\* Another configuration resets the epoch before.
FirstSource(config) ==
    /\ pc = "observe"
    /\ IF config THEN ~calm /\ ResetEpoch
       ELSE ~known /\ UNCHANGED <<timeline, warmup, predictor, timing, moving>>
    /\ known' = TRUE
    /\ batch' = NoBatch /\ pc' = "dispatch"
    /\ UNCHANGED <<hostWait, calm>>

\* The planner or the timeline takes the interval for a discontinuity.
Discontinuity(i, planner) ==
    /\ pc = "observe" /\ known
    /\ planner \/ Jumps(i)
    /\ ResetEpoch /\ known' = FALSE
    /\ batch' = NoBatch /\ pc' = "dispatch"
    /\ UNCHANGED <<hostWait, calm>>

\* Every frame of a batch of n, evenly spaced, would be ready for its slot.
FitsEverySlot_Last(n, delay) == Fits(n, Slot(n, n) - delay)
FitsEverySlot(n, delay) == \A s \in 1..n : Fits(s, Slot(s, n) - delay)

\* How many of the planned frames pass: without any measurement, one.
Admitted(planned, delay) ==
    IF warmup > 0 \/ timeline.predicted <= delay THEN 0
    ELSE IF Measured = {} THEN Min({planned, 1})
    ELSE Max({0} \cup {n \in 1..planned : FitsEverySlot(n, delay)})

\* What is admitted is capped by the capacity of the presentation, and nothing
\* is left of it if an earlier batch still uses the outputs; the rest is spaced
\* evenly again.
Observe(i, planned, delay) ==
    /\ pc = "observe" /\ known /\ ~Jumps(i)
    /\ timeline' = Observed(i)
    /\ UNCHANGED <<hostWait, known, warmup, predictor, timing, moving, calm>>
    /\ \E most \in {Admitted(planned, delay)'} :
           \E n \in IF calm THEN {most} ELSE 0..most :
               batch' = IF n = 0 THEN NoBatch ELSE [n |-> n, delay |-> delay]
    /\ pc' = "dispatch"

-----------------------------------------------------------------------------
(* A present: what is dispatched, and what is learned from it. *)

\* All frames of the batch were presented ("shown"), some were dropped for want
\* of an image ("wsi") or because they were late, which in FIFO mode they never
\* are.
Outcomes == IF calm THEN {"shown"} ELSE {"shown", "wsi", "late"}

Delivered(r, outcome, late) ==
    CASE outcome = "shown" -> AfterSuccess(r)
      [] outcome = "late"  -> AfterMiss(r, late)
      [] OTHER             -> r

\* updateAdaptiveFlowGovernor(), with the predictor e and a timing t, and the
\* delivery that follows.  During a transition a timing does not count.  A new
\* scale forgets the costs, and the reserve with them.
GovernorThenDeliver(e, t, outcome, late) ==
    \E step \in IF calm \/ moving THEN {FALSE} ELSE BOOLEAN :
       /\ est' = IF step THEN Forgotten ELSE IF moving THEN e ELSE WithTiming(e, t)
       /\ reserve' = Delivered(IF step THEN 0 ELSE reserve, outcome, late)
       /\ moving' \in IF moving THEN BOOLEAN ELSE {step}

\* The timing that a submission finds of an earlier batch.
Found(found) == IF found THEN timing ELSE NoTiming

\* A cycle without a batch: it only advances the history.
HistoryOnly(found) ==
    /\ pc = "dispatch" /\ batch = NoBatch
    /\ found => timing # NoTiming
    /\ GovernorThenDeliver(Recovered(est), Found(found), "none", 0)
    /\ timing' = IF found THEN NoTiming ELSE timing
    /\ warmup' = Larger(0, warmup - 1)
    /\ pc' = "observe"
    /\ UNCHANGED <<hostWait, known, timeline, batch, calm>>

\* The copy of the source cannot be handed over: nothing is dispatched, and the
\* history starts over.
HandoffFails ==
    /\ pc = "dispatch" /\ ~calm /\ ~hostWait
    /\ warmup' = Warmup
    /\ hostWait' = TRUE
    /\ batch' = NoBatch
    /\ pc' = "observe"
    /\ UNCHANGED <<known, timeline, predictor, timing, moving, calm>>

\* A batch that the host has waited for is recorded at once, unless its query
\* fails; an earlier one is then too old to count.
Waited(e, own, found, outcome, late) ==
    /\ GovernorThenDeliver(e, IF found THEN own ELSE NoTiming, outcome, late)
    /\ timing' = IF found THEN NoTiming ELSE timing

\* The batch runs and is presented.  Only the last timing recorded is kept.
Generate(cost, queue, found, outcome, late) ==
    /\ pc = "dispatch" /\ batch # NoBatch
    /\ \E ran \in {cost + batch.n - 1} :
         LET own == IF moving THEN NoTiming ELSE [n |-> batch.n, cost |-> ran] IN
         \/ \* asynchronous
            /\ ~hostWait /\ UNCHANGED hostWait
            /\ found => timing # NoTiming
            /\ GovernorThenDeliver(est, Found(found), outcome, late)
            /\ timing' \in {own} \cup (IF found THEN {} ELSE {timing})
         \/ \* the backend cannot export the completion, and waits this once
            /\ ~hostWait /\ ~calm /\ UNCHANGED hostWait
            /\ Waited(est, own, found, outcome, late)
         \/ \* present() waits, from now on
            /\ hostWait \/ ~calm
            /\ hostWait' = TRUE
            /\ Waited(WithCompletion(est, batch.n, ran + queue), own, found, outcome,
                      late)
    /\ batch' = NoBatch
    /\ pc' = "observe"
    /\ UNCHANGED <<source, calm>>

\* From now on the load is light and the source steady.
Settle ==
    /\ pc = "observe" /\ ~calm /\ ~moving /\ timing = NoTiming
    /\ calm' = TRUE
    /\ UNCHANGED <<hostWait, pc, source, batch, predictor, timing, moving>>

-----------------------------------------------------------------------------
Init ==
    /\ hostWait \in BOOLEAN
    /\ pc = "observe" /\ known = FALSE
    /\ timeline = NoTimeline /\ warmup = Warmup
    /\ batch = NoBatch /\ est = Forgotten /\ reserve = 0
    /\ timing = NoTiming /\ moving = FALSE /\ calm = FALSE

Arrival ==
    \/ \E config \in BOOLEAN : FirstSource(config)
    \/ \E i \in IF calm THEN {Steady} ELSE Intervals :
         \/ \E planner \in IF calm THEN {FALSE} ELSE BOOLEAN : Discontinuity(i, planner)
         \/ \E planned \in IF calm THEN {MaxGenerated} ELSE 0..MaxGenerated,
               delay \in IF calm THEN {0} ELSE Delays : Observe(i, planned, delay)

Dispatch ==
    \/ HandoffFails
    \/ \E found \in BOOLEAN :
         \/ HistoryOnly(found)
         \/ \E cost \in IF calm THEN {Min(Costs)} ELSE Costs,
               queue \in IF calm THEN {0} ELSE Queues,
               outcome \in Outcomes :
                 \E late \in IF outcome = "late" THEN Lateness ELSE {0} :
                     Generate(cost, queue, found, outcome, late)

Next == Arrival \/ Dispatch \/ Invalidate \/ Settle

\* The game goes on presenting.
Spec == Init /\ [][Next]_vars /\ WF_vars(calm /\ (Arrival \/ Dispatch))

-----------------------------------------------------------------------------
(* Properties *)

\* Whatever was taken from a batch after its admission and however it was spaced
\* again, every frame it dispatches still has its measured cost, the margin and
\* the reserve before its own slot (context.cpp:2498-2531, 2603-2621, 2668-2672).
SlotsStillFit ==
    batch.n > 0 /\ Measured # {} =>
        \A s \in 1..batch.n : Fits(s, Slot(s, batch.n) - batch.delay)

\* The cost of a single frame, by GPU times only and by all that was measured,
\* leaves room in the first half of a steady interval.
HasRoom(cost) ==
    \A m \in {Nearest(1)} : \A c \in {Scaled(cost[m], m, 1)} :
        c + Margin(c) <= Steady \div 2
GpuHasRoom == Measured = {} \/
    (est[Nearest(1)].gpu > 0 /\ est[Nearest(1)].blocking
        /\ HasRoom([m \in Counts |-> est[m].gpu]))
CostHasRoom == Measured = {} \/ HasRoom([m \in Counts |-> est[m].total])

Admits == batch.n > 0

\* A host wait that queueing made long closes the admission only for a while:
\* once the load is light, cycles without a batch bring the estimate back to
\* the GPU's own time, and a batch is admitted
\* (adaptive_scheduler.cpp:307-324, context.cpp:5489-5490).
PenaltyFades == (calm /\ reserve = 0 /\ GpuHasRoom) ~> Admits

\* tests/adaptive_scheduler_test.cpp:852-854: "repeated successful batches decay
\* it instead of turning one transient into a permanent throughput cap", said of
\* the reserve of a late delivery.  But it is only decayed by a batch that is
\* admitted, and then nothing is.
AdmitsAgain == (calm /\ CostHasRoom) ~> Admits
================================================================================
