----------------------------- MODULE AdaptiveFlow -----------------------------
(***************************************************************************)
(* The flow governor of one LsContext: the controller, the wrapper's       *)
(* copies of the backend's state, and the backend's flow graphs.           *)
(*                                                                         *)
(* The controller selects a scale, the wrapper asks the backend for it,    *)
(* and the backend moves to the graph of that scale with its next          *)
(* submission.  The wrapper sees the backend's state only as of the last   *)
(* governor call.  The GPU timing of a batch is recorded in the present    *)
(* that dispatched it, before its governor call, if the host waits for the *)
(* batch, and else once a later submission finds it complete.  All of it   *)
(* runs in the presenting thread, one present after the other; what        *)
(* interleaves is the progress of the GPU, the resets of the source epoch, *)
(* and the hooks' bypass.                                                  *)
(*                                                                         *)
(* A present that throws, whose bounded wait expires, or whose hand-off    *)
(* cannot be exported ends the context: the hooks drop it, or the          *)
(* application recreates the swapchain that is out of date.  A new context *)
(* starts in Init.                                                         *)
(***************************************************************************)
EXTENDS FlowController, Sequences

CONSTANTS
    Ring,      \* entries of the backend's data ring: 8
    Warmup     \* kSourceHistoryWarmupFrames: 4

ASSUME AdaptiveFlowAssumption ==
    /\ Ring \in Nat \ {0}
    /\ Warmup \in Nat \ {0}

None  == -1    \* no graph, no timing
Stale == -2    \* a timing of a transition cycle or of an earlier epoch
Devices == {"adreno", "generic"}

VARIABLES
    device,       \* conservativeCrossDeviceSync_: the class of the GPU
    pc,           \* where present() is: idle, begun, sent, governed
    cycle,        \* what this present has decided
    warmup,       \* sourceHistoryWarmupRemaining_
    sceneOnly,    \* adaptiveSceneTransitionGuard_.sourceOnlyRemaining()
    seedPending,  \* adaptiveFlowStartupSeedPending_
    cache,        \* adaptiveFlowRequestedScale_, ActiveScale_, TransitionPending_
    handoff,      \* adaptiveFlowCadenceHandoffPending_
    retained,     \* the graph that the retained timing measured, if it is valid
    graph,        \* the backend: requestedFlowScale_, active and pending graph
    timing,       \* what the last recorded timing measured, until it is observed
    inflight,     \* what the batches not yet found complete will report
    sure          \* how many of them a later host wait has shown to be complete

history == <<warmup, sceneOnly>>
wrapper == <<seedPending, cache, handoff, retained>>
samples == <<timing, inflight, sure>>
vars == <<mode, ctl, device, pc, cycle, history, wrapper, graph, samples>>

NoCycle == [seed |-> FALSE, broken |-> FALSE, moving |-> FALSE, gen |-> FALSE,
            dispatched |-> FALSE]

-----------------------------------------------------------------------------
(* Context: requestFlowScale, flowScaleState. *)

Requested(g, i) ==
    [g EXCEPT !.requested = i, !.pending = IF i = g.active THEN None ELSE i]

Transition(g) == g.pending # None

\* What getContextFlowScaleState reports.
StateOf(g) ==
    [requested |-> g.requested, active |-> g.active, pending |-> Transition(g)]

-----------------------------------------------------------------------------
(* resetAdaptiveSourceEpoch and enterSourceOnlyBypass: the governor's part. *)

ResetWarmup == IF device = "adreno" THEN 1 ELSE Warmup

\* Timings of before the reset no longer count: advanceAdaptiveFlowTimingEpoch.
Outdated_Counts(s) == s

Outdated(s) == IF s = None THEN None ELSE Stale

NewTimingEpoch ==
    /\ timing' = Outdated(timing)
    /\ inflight' = [i \in DOMAIN inflight |-> Outdated(inflight[i])]
    /\ retained' = None

\* The controller starts over at scale i, and the wrapper takes that for the
\* backend's state.
StartOver(i) ==
    /\ ctl' = ResetTo(i)
    /\ cache' = [requested |-> i, active |-> i, pending |-> FALSE]
    /\ handoff' = FALSE
    /\ NewTimingEpoch

\* On Adreno a break of the timeline keeps the active scale: a request that is
\* still pending is taken back.
KeepsScale(reason) == device = "adreno" /\ reason \in {"timeline", "suspend"}

ResetEpoch(reason) ==
    /\ StartOver(IF KeepsScale(reason) THEN cache.active ELSE 0)
    /\ graph' = IF KeepsScale(reason) /\ cache.pending
                THEN Requested(graph, cache.active) ELSE graph

\* hooks.cpp: an On-to-Off transition of a resident context.
EnterSourceOnlyBypass ==
    /\ pc = "idle"
    /\ StartOver(0)
    /\ warmup' = ResetWarmup /\ sceneOnly' = 0
    /\ UNCHANGED <<mode, device, pc, cycle, seedPending, graph, sure>>

-----------------------------------------------------------------------------
(* LsContext::present. *)

\* The pass of Ring presents ago is still in flight: the source is passed
\* through.
RingBusy ==
    /\ pc = "idle" /\ device = "generic"
    /\ ResetEpoch("timeline")
    /\ warmup' = ResetWarmup /\ sceneOnly' = 0
    /\ UNCHANGED <<mode, device, pc, cycle, seedPending, sure>>

\* startupSeedHistoryOnly.  A reset for a new configuration has already happened
\* when it is asked, a reset for a break of the timeline has not.
SeedCycle(config) ==
    mode' = "adaptive" /\ seedPending /\ cache.pending /\ ~config

\* Another configuration may come with the present, and a break of the timeline.
\* On Adreno the break is followed by two history cycles instead of the warm-up.
Begin ==
    /\ pc = "idle"
    /\ \E config, broken \in BOOLEAN :
         /\ mode' \in IF config THEN Modes ELSE {mode}
         /\ IF config \/ broken
            THEN /\ ResetEpoch(IF config THEN "config" ELSE "timeline")
                 /\ warmup' = IF device = "adreno" /\ broken THEN 0 ELSE ResetWarmup
                 /\ sceneOnly' = IF device = "adreno" /\ broken THEN 2 ELSE 0
            ELSE UNCHANGED <<ctl, cache, handoff, retained, graph, timing, inflight,
                             history>>
         /\ cycle' = [NoCycle EXCEPT !.seed = SeedCycle(config),
                                     !.broken = broken]
    /\ pc' = "begun"
    /\ UNCHANGED <<device, seedPending, sure>>

\* Adreno: the warm-up shows the source and dispatches nothing.
AdrenoWarmup ==
    /\ pc = "begun" /\ device = "adreno" /\ warmup > 0
    /\ warmup' = 0
    /\ pc' = "sent"
    /\ cycle' = [cycle EXCEPT !.moving = cache.pending]
    /\ UNCHANGED <<mode, ctl, device, sceneOnly, wrapper, graph, samples>>

\* Context::present looks for completed batches, oldest first, and keeps the
\* timing of the newest.  It waits for the one whose ring entry it is to reuse.
Seen ==
    {k \in 0 .. Len(inflight) : k >= sure /\ Len(inflight) - k < Ring}

Newest(k) ==
    {i \in 1 .. k : inflight[i] # None /\ \A j \in i + 1 .. k : inflight[j] = None}

\* A query that fails leaves no timing.
Timings(k) ==
    IF Newest(k) = {} THEN {timing} ELSE {None} \cup {inflight[i] : i \in Newest(k)}

\* What the timing of the batch will say.  A batch without generated frames has
\* none.
Report(gen) ==
    CASE ~gen -> None
      [] gen /\ Transition(graph) -> Stale
      [] OTHER -> graph.active

MayGenerate_SeedToo ==
    warmup = 0 /\ (mode = "adaptive" => sceneOnly = 0) /\ ~cycle.broken

MayGenerate ==
    /\ warmup = 0
    /\ mode = "adaptive" => sceneOnly = 0
    /\ ~cycle.seed /\ ~cycle.broken

\* Context::present.  A pending graph is used, and becomes the active one.
Committed(g) ==
    IF Transition(g) THEN [g EXCEPT !.active = g.pending, !.pending = None] ELSE g

Dispatch(gen) ==
    /\ pc = "begun"
    /\ device = "adreno" => warmup = 0
    /\ gen => MayGenerate
    /\ \E k \in Seen :
         LET left == SubSeq(inflight, k + 1, Len(inflight)) IN
         \/ \* asynchronous
            /\ device = "generic"
            /\ timing' \in Timings(k)
            /\ inflight' = Append(left, Report(gen))
            /\ sure' = 0
         \/ \* a host wait: the batch is recorded in this very present, and the
            \* next one finds the older batches, too old to be fresh
            /\ gen
            /\ timing' = Report(gen)
            /\ inflight' = <<>>
            /\ sure' = 0
         \/ \* a host wait that records no timing: there is none, or its query fails
            /\ timing' \in IF gen THEN {None} ELSE Timings(k)
            /\ inflight' = left
            /\ sure' = Len(left)
    /\ graph' = Committed(graph)
    /\ cycle' = [cycle EXCEPT !.moving = cache.pending, !.gen = gen,
                              !.dispatched = TRUE]
    /\ pc' = "sent"
    /\ UNCHANGED <<mode, ctl, device, history, wrapper>>

-----------------------------------------------------------------------------
(* updateAdaptiveFlowGovernor. *)

Moving == cache.pending \/ handoff \/ cache.requested # cache.active

\* The timing of a generated batch came with this present and may be used.
WorkSample == timing \in Indices /\ ~Moving
Evidence   == IF WorkSample THEN timing ELSE retained

\* Without a timing the controller takes the observation for invalid.
Usable_WithoutTiming == ~Moving
Usable == ~Moving /\ Evidence # None

\* A new scale invalidates the retained timing, which measured the old one.
Kept_Always(changed) == Evidence
Kept(changed) == IF changed THEN None ELSE Evidence

\* The wrapper's copy of the backend's state is refreshed in every call.
Refreshed_OnRequest(g, changed) == IF changed THEN StateOf(g) ELSE cache
Refreshed(g, changed) == StateOf(g)

Govern ==
    /\ pc = "sent"
    /\ \E dt \in Elapsed :
         Observe(dt, Moving, WorkSample, Usable)
    /\ LET changed == ctl'.index # ctl.index IN
       /\ graph' = IF changed THEN Requested(graph, ctl'.index) ELSE graph
       /\ retained' = Kept(changed)
       /\ handoff' = (handoff \/ changed)
       /\ cache' = Refreshed(graph', changed)
    /\ seedPending' = (seedPending /\ Transition(graph'))
    /\ timing' = None
    /\ pc' = "governed"
    /\ UNCHANGED <<mode, device, cycle, history, inflight, sure>>

-----------------------------------------------------------------------------
(* The history cycle is counted, and finishSourcePresent. *)

\* A call that took longer than the discontinuity threshold ends the epoch.  If
\* not, the cadence handoff ends once the backend has no transition.
HandoffDone == ~cycle.moving /\ ~cache.pending

HistoryCycle == cycle.dispatched /\ ~cycle.gen

Deliver ==
    /\ pc = "governed"
    /\ pc' = "idle" /\ cycle' = NoCycle
    /\ \/ /\ handoff' = (handoff /\ ~HandoffDone)
          /\ warmup' = IF HistoryCycle /\ warmup > 0 THEN warmup - 1 ELSE warmup
          /\ sceneOnly' = IF HistoryCycle /\ mode = "adaptive" /\ sceneOnly > 0
                          THEN sceneOnly - 1 ELSE sceneOnly
          /\ UNCHANGED <<ctl, cache, retained, graph, timing, inflight>>
       \/ /\ ResetEpoch("suspend")
          /\ warmup' = ResetWarmup /\ sceneOnly' = 0
    /\ seedPending' =
         (seedPending /\ ~(device = "generic" /\ HistoryCycle /\ cycle.seed))
    /\ UNCHANGED <<mode, device, sure>>

-----------------------------------------------------------------------------
(* The constructor: the backend starts at the preset's target, and a seed is *)
(* requested from it like any later scale.                                   *)
Init ==
    /\ mode \in Modes
    /\ device \in Devices
    /\ pc = "idle" /\ cycle = NoCycle
    /\ warmup = IF device = "adreno" THEN 0 ELSE Warmup
    /\ sceneOnly = 0
    /\ \E seed \in Indices :
         /\ ctl = ResetTo(seed)
         /\ graph = Requested([requested |-> 0, active |-> 0, pending |-> None],
                              seed)
         /\ cache = [StateOf(graph) EXCEPT !.requested = seed]
         /\ seedPending = (seed # 0)
         /\ handoff = (seed # 0)
    /\ retained = None /\ timing = None /\ inflight = <<>> /\ sure = 0

Present == \/ Begin
           \/ AdrenoWarmup
           \/ \E gen \in BOOLEAN : Dispatch(gen)
           \/ Govern
           \/ Deliver

Next == Present \/ RingBusy \/ EnterSourceOnlyBypass

\* The application goes on presenting.
Spec == Init /\ [][Next]_vars /\ WF_vars(Present)

-----------------------------------------------------------------------------
Cycles == [seed : BOOLEAN, broken : BOOLEAN, moving : BOOLEAN, gen : BOOLEAN,
           dispatched : BOOLEAN]
Caches == [requested : Indices, active : Indices, pending : BOOLEAN]
Graphs == [requested : Indices, active : Indices, pending : Indices \cup {None}]
Samples == Indices \cup {None, Stale}

\* Every member keeps its range: no counter runs below zero or past its bound,
\* and every scale is one of the preset's.
TypeOK ==
    /\ mode \in Modes /\ device \in Devices
    /\ ctl \in Controllers
    /\ pc \in {"idle", "begun", "sent", "governed"}
    /\ cycle \in Cycles
    /\ warmup \in 0 .. Warmup /\ sceneOnly \in 0 .. 2
    /\ seedPending \in BOOLEAN /\ handoff \in BOOLEAN
    /\ cache \in Caches
    /\ graph \in Graphs
    /\ retained \in Indices \cup {None}
    /\ timing \in Samples
    /\ inflight \in Seq(Samples)
    /\ Len(inflight) <= Ring
    /\ sure \in 0 .. Len(inflight)

\* An evaluation under way judges the very step that led to the current scale:
\* a lowering on trial goes back to the scale above, a raise to the one below,
\* and there are never two trials at once.  So undoing a trial restores what was
\* there before it.
EvaluatesItsStep ==
    /\ ctl.down.on   => ctl.down.prev = ctl.index - 1
    /\ ctl.pacing.on => ctl.pacing.prev = ctl.index + 1
    /\ ~(ctl.down.on /\ ctl.pacing.on)

\* No timing of an earlier epoch is left to judge by.
Blind == retained = None /\ timing \notin Indices

\* After a reset, and until the history is complete again, there is no evidence:
\* neither retained, nor recorded, nor on its way from the GPU.
WarmIsBlind ==
    warmup > 0 => Blind /\ \A i \in DOMAIN inflight : inflight[i] \notin Indices

\* The governor selects another scale.
Steps == pc = "sent" /\ ctl'.index # ctl.index

\* The governor never selects a scale while the backend has still to move to an
\* earlier one, although it knows the backend's state only from the previous
\* call, and resets overwrite that knowledge.
NoStepInTransit == [][Steps => graph.pending = None]_vars

\* On protected Adreno, where the host waits for every batch, a step rests on a
\* timing of the graph that is active, although the timing may have been retained
\* over cycles without a batch, transitions of the graph, the seed's or those a
\* reset takes back, and a bypass: "that timing no longer describes the active
\* Flow state and must not authorize another step" (context.cpp:3082-3086).
FreshEvidence == [][Steps /\ device = "adreno" => Evidence = graph.active]_vars

\* In Adaptive mode the startup seed becomes active in a cycle that generates
\* nothing, whatever resets come between the request and the first dispatch.
SeedIsSilent ==
    [][mode = "adaptive" /\ seedPending /\ graph.active # graph'.active
         => ~cycle'.gen]_vars

\* A flow transition ends: the pressure of the frames behind it is not ignored
\* for good.
TransitionEnds ==
    (handoff \/ cache.pending) ~> ~(handoff \/ cache.pending)
=============================================================================
