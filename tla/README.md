# lsfg-vk on Android: verification models

TLA+ models of the frame generation layer in this repository: what its
components promise, the protocols between them, and which of those promises hold
in every interleaving. `PROJECT.json` lists the components, the runs, the map
from definitions to source lines, the hazards, the findings and the theorems.

Run a model with `tlc -workers 2 -config X.cfg M.tla`, check the proofs with
`tlapm M.tla`.

## 1. The system

The layer sits between a game and the Vulkan driver. It replaces the game's
swapchain by one with more images, copies every presented frame into a pair of
images it shares with a second Vulkan device (the *backend*), lets the backend
interpolate between the last two, and presents the results in between.

| Component | State | Operations | Talks to |
|---|---|---|---|
| Swapchain hooks (`src/hooks.cpp`) | map from swapchain to `SwapchainState`; per object the configuration, the `LsContext`, `presentMutex`; the process-wide configuration snapshot | create, present, destroy swapchain; destroy device; reload | application threads, driver, LsContext, configuration file |
| `LsContext` (`src/context.cpp`) | shared image pair, ring of 8 render passes, frame index, warm-up, scene guard, semaphores and their validity flags | constructor, `present`, `enterSourceOnlyBypass`, `resetAdaptiveSourceEpoch` | the game device's queue, the backend, the scheduler classes |
| Framegen runtime (`framegen/v3.1_src/lsfg.cpp`, `v3.1p_src` alike) | one Vulkan device per process and model, its signature, its contexts, deletions that are pending | initialize, createContext, deleteContext, finalize, presentContext | LsContext |
| Backend context (`framegen/v3.1_src/context.cpp`) | its own frame index, ring of completion fences, temporal features of three sources | present, waitForLastPresent, flow scale change | the backend device's queue |
| Scheduler (`src/adaptive_scheduler.cpp`) | six classes: scene guard, source timeline, deadline predictor, presentation capacity, output cadence, frame scheduler | called once or several times by each present | LsContext |
| Flow governor (`src/adaptive_flow_controller.cpp`, `adaptive_flow_handoff.hpp`) | index into the flow scales, evaluations under way, cooldowns | configure, observe, transition handling | LsContext, hooks |
| Display confirmation (`src/context.cpp`) | list of generated presents not yet seen on the display | enqueue, poll past timings, expire | driver |
| Shader pass graph (`framegen/v3.1_src`, `v3.1p_src`: `context.cpp` and `shaders/`) | images of every level, temporal slots, ownership of the shared images, the active flow graph | the dispatches of a batch with their barriers | the backend device's queue |
| Layer entry points (`src/layer_android.cpp`, `src/android_wsi_loader_bridge.cpp`) | a table of functions per dispatch key, the private instances, the functions of the next entity | creation and destruction of instances and devices, lookup of commands | loader, hooks |
| Configuration parser, Vulkan wrappers, shader extraction, UI | parsed data | | |

How they interact: a present runs in the thread of the game, under the object's
`presentMutex`; presents of different swapchains run in parallel and share the
configuration snapshot and the framegen runtimes. A present enqueues work on two
GPU queues and mostly does not wait for it: semaphores and SYNC_FDs order the
queues, and only bounded host waits and fences remain for the CPU. The scheduler
classes see measurements of earlier presents.

### What is hard

* **Two GPUs and no shared counter.** Which of the two images is the newer one is
  known to the wrapper and to the backend by the parity of a counter each keeps
  for itself. Bypasses, resets, export failures and timeouts advance one of them.
* **Reuse under lag.** Passes, outputs and images are reused while the GPU may
  still be behind by several presents.
* **Locks that are let go.** Hooks find an object under one mutex and use it under
  another; the application recreates and destroys swapchains meanwhile.
* **Shared, process-wide state.** One configuration snapshot and one device per
  model serve all swapchains.
* **Partial failure.** A constructor throws after the driver has already replaced
  the old swapchain; a bounded wait expires and leaves a context behind.
* **Feedback.** Several mechanisms move one number (the cap on generated frames,
  the flow scale) on evidence gathered earlier.

### What makes each component correct

* Hooks: no context is used once dropped; none survives the replacement of its
  swapchain or the device; the map names only live swapchains; a configuration
  change that needs a new context leads to one.
* Runtime: contexts and device agree on the outputs; no context is lost; a pending
  deletion is a context still held.
* LsContext and backend: no image is read and written at once; every interpolation
  reads its own pair of sources, newest and previous, from its own epoch.
* Capacity: cap, duty, trial and probe never contradict each other; one level at a
  time; the full capacity comes back.
* Flow governor: a step that is undone restores what was there before; nothing moves
  while a transition is under way; a step rests on timings of the scale and the
  epoch it is taken in; a transition ends.
* Frame scheduler: its cadence and the timeline's agree; the cost limit rises only on
  evidence, an integer ratio is not broken by jitter, the full limit is reached.
* Timeline and deadline admission: what is dispatched still fits before its slot, and
  a transient cost does not close the admission for good.
* Pass ring: a pass is taken again only when nothing of its last use is left; a
  semaphore has one consumer and outlives every use; a fence is reset with its flag.
* Pass graph: every read finds its write, nothing is overwritten while it is read,
  the shared images are owned while used, and an output lies between its own frames.
* Entry points: a call ends in functions of its own device; a device that cannot
  present is never hooked; the layer's own instance bypasses the layer.

## 2. The modules

| Module | Models | State and actions |
|---|---|---|
| `SourceHistory` | one `LsContext` and its backend context, seen from the image pair | a present is `Present` (prologue, scene guard, recycling, copy), then `ExportFailed`, `DispatchHistory` or `DispatchGenerate`, then `CompletionTimeout`, `DeliverHistory`, `DeliverGenerated` or `Throw`; the steps of a protected Adreno, which waits on the host and exports nothing, have names of their own (`AdrenoWarmup`, `AdrenoDispatchHistory`, ...); `GameStep` and `FgStep` are the two GPUs; `EnterSourceOnlyBypass` and `Recreate` are the hooks' calls |
| `GeneratedFrames` | the bound on generated frames and `std::min`, `std::max`, for the next module and `FrameScheduler` | |
| `PresentationCapacity` | `GeneratedPresentationCapacityTracker` | `Limit` before the dispatch, `Observe` after delivery (its stages `Counted`, `Resolved`, `Evaluated`, `Lowered`, `Raised` are the code's, in the code's order), `Abandon` when a present never gets to observe, `Configure`, `Reset` |
| `FramegenRuntime` | `lsfg.cpp`, both backends | one action per entry point, since each holds the runtime's mutex throughout |
| `SwapchainHooks` | `hooks.cpp` on several threads, and the parts of LsContext's constructor and destructor that reach the runtime; extends `FramegenRuntime` | a hook is a chain of actions, cut where it takes or releases a mutex, calls the driver or enters a runtime |
| `FlowController` | `AdaptiveFlowController` | `Observe`, one disjunct per early return of `observe()`, its stages (`Held`, `Paced`, `Suppressed`, `Evaluated`, `Pressed`, `Relieved`) in the code's order; `ResetTo` |
| `AdaptiveFlow` | the flow governor of one `LsContext` and the backend's flow graphs; extends `FlowController` | a present is `Begin`, then `AdrenoWarmup` or `Dispatch`, then `Govern` (`updateAdaptiveFlowGovernor`) and `Deliver` (`finishSourcePresent`); `RingBusy` is a present that passes through, `EnterSourceOnlyBypass` the hooks' call |
| `FrameScheduler` | `AdaptiveFrameScheduler` and `FixedSourceCadenceTracker`, and the parts of a present that reset and feed them | one action per way through the planning stage: `FirstCycle`, `DiscontinuousCycle`, `RejectedCycle`, `AdaptiveCycle`, `IdleCycle`, `FixedCycle`, `BusyPass`, with `SwitchOff`, `ReloadedCycle` and `Interrupt` of the hooks; `GoUndisturbed` is the environment |
| `DeadlineAdmission` | `SourceProtectedTimeline`, `DeadlineAdmissionPredictor` and the admission of a present off Adreno | `FirstSource`, `Discontinuity`, `Observe` up to the admission, then `HandoffFails`, `HistoryOnly` or `Generate` with what is learned from it; `Invalidate` is a reset, `Settle` the environment |
| `PassRing` | the ring of passes off Adreno: semaphores, fences and their owners, on the game's queue, in the presentation engine and on the backend's queue | a present is its copy, its dispatch, its generated copies and presents, and its end; each queue makes steps of its own |
| `RetirementRing` | what the ring promises: an entry is taken only when nothing of its last use is left | `Take`, `Work`, `Retire`, `Advance`, `Renew`; `PassRing` implements it |
| `PassGraph` | the dispatches of a batch in both backends, with images, barriers and ownership | `Begin`, one action per shader (`Mipmaps`, `Alpha`, `Beta`, `Gamma`, `Delta`, `Generate`), each after the `Barrier` of its `Dispatch`, and the acquisitions and releases of shared images between them |
| `LayerDispatch` | the entry points of the Android layer | `CreateInstance`, `CreateDevice` in its steps (`Resolve`, `Store`, `Post`; `PassThrough` when disabled), `Ask` for a command, `DestroyDevice`, `Reload` |
| `..._proofs` | the proofs about nine of these modules, in eight | |
| `MC...` | instances for TLC | |

`SourceHistory` abstracts image contents to the number of the source they came
from, `PresentationCapacity` the moving averages to the outcomes of their
comparisons (every outcome possible) with duty and evidence in quarters, and
`SwapchainHooks` a configuration to the fields its decisions look at. In
`FlowController` a scale is its index in the preset, a deadline is the time that
remains until it, and a measurement is the outcome of the comparisons it enters;
outcomes that exclude each other in the code are excluded (`Readings`). Two
branches of `observe()` cannot be reached from its only caller and are left out:
`syntheticDropPressure` is always false, and global pressure without output
pressure (`kGlobalDownConfirmSeconds`) needs a deficit that is itself output
pressure. In `AdaptiveFlow` a GPU timing is the graph it measured, `None`, or
`Stale` for one of a transition cycle or of an earlier epoch; the adaptive flow
scale is on throughout. Presents that throw or return `VK_ERROR_OUT_OF_DATE_KHR`
end the context, there and in `SourceHistory` and `PassRing`: the hooks drop it, or
the application recreates the swapchain before it presents again.

In `FrameScheduler` a source period is counted in tenths of the outputs the target
asks for in it, and the window of nine intervals is what the smoothing lets through.
In `DeadlineAdmission` a time is a whole number of milliseconds, rounded so that an
average reaches a steady input; the governor and the planner are inputs, and
contexts in FIFO mode are never late. `PassRing` leaves out the acquire semaphores,
which live and die with their copy, and lets an image be acquired once before its last
present has waited; `releasePresentWaitRetirements` (`context.cpp:1736`) frees at once.
`PassGraph` takes the array of images that is bound as one, except the temporaries
of gamma and delta; what an image holds is the sources it was derived from. Semaphores
inside a batch are left out, which is stricter; that a temporal slot nobody reads
again is overwritten after an execution dependency only (`R2W`) is not checked, and the
order between the devices is `SourceHistory`'s. `InterpolatesOwnPair` starts at the
third frame or the first seeding, because Adreno generates before it has a
history. In `LayerDispatch` the loader serialises creation and destruction, as
Khronos's does, and may ask for commands while a device is created (`early`); the hooks
of other devices are called meanwhile, and may reload the configuration at any step. A
wrapper of `android_wsi_loader_bridge.cpp` counts as the hook it forwards to. The
configuration can be enabled and disabled by a reload because `getConfig` falls
back to the global section when the game's own is removed.

The two backends, v3.1 and v3.1p, are line by line twins: `SourceHistory` and
`FramegenRuntime` are mapped to the first, the context of `PassGraph` to the second and
its shaders to both.

## 3. The runs

| Run | Shows | Bounds, and why they suffice |
|---|---|---|
| `source_history` | no image is read and written at once by the two GPUs (`NoSourceRace`, `NoOutputRace`); a batch interpolates the two newest sources (`InterpolatesItsPair`), from features of its own epoch (`GeneratesWithinEpoch`); off Adreno the two parities agree (`GenericLockstep`) | `Ring = 3` (8 in the code) is the smallest ring in which a pass is reused with the GPU two presents behind; `Warmup = 4` as in the code; 10 sources are a warm-up, a reset, a second warm-up and generation after it |
| `presentation_capacity` | `CapacityCoherent`, `ProbeIsOwn`, `Gradual`, and `RecoversWhenCalm` under fairness | multiplier 4 (three generated frames); the thresholds are scaled to 3, 12, 6, 3, in the order of the code's 5, 32, 10, 6; the proofs hold for all |
| `swapchain_hooks` | `NoUseAfterRetire`, `ReplacedIsRetired`, `RegistryTracksDownstream`, `NoContextOutlivesDevice`, `OutputsMatchRuntime`, `OrphansArePending` | two threads and two objects (an old one and its successor, two side by side, or an orphan and the next one); `MCScope` bounds what comes together: while the file does not change, three swapchains (a failed replacement has an old one, the failed one and the fallback) and the destruction of the device; while it changes (one edit to any of four configurations or none, from the largest multiplier), two swapchains at once on a device that stays |
| `adaptive_flow` | a trial judges its own step (`EvaluatesItsStep`), no step during a transition (`NoStepInTransit`) or on evidence of an earlier epoch (`WarmIsBlind`) or, on Adreno, of an earlier scale (`FreshEvidence`), the startup seed becomes active without generated frames (`SeedIsSilent`), every transition ends (`TransitionEnds`) | three scales are the fewest with a lowering and a raise from one state; times of 1 and 2 keep the order of the code's constants and let each deadline be met or missed; `Ring = 3` has a batch of a generic device reported two presents late, and a batch that the host waits for is reported in its own present; one present of warm-up |
| `frame_scheduler` | scheduler and timeline find the same discontinuities (`CadenceInTandem`); an epoch inherits no phase or regime, and no limit that the user's change did not ask for (`FreshStart`); the limit rises on evidence (`RaiseIsEarned`) and reaches the maximum (`CeilingReached`); an integer ratio outlives jitter (`SteadyRatio`) | two generated frames have a cost probe, a raise below it and two integer ratios; periods reach past what two frames serve; raise and warm-up are the code's, the other windows are scaled in their order |
| `pass_ring` | `OneConsumer`, `FencesInTandem`, `DrainedRingIsFree`; owners let go of a semaphore only when nobody uses it (`PassesLetGoSafely`); the ring implements `RetirementRing` (`RingRefined`) | two passes and three presents reuse a pass while its neighbour is in flight; none or two frames in a batch, of which fewer may be presented; one failing call of the driver per context; images are symmetric |
| `layer_dispatch` | `OwnDispatch`, `HelperNeverHooked`, `PathsApart` | three devices on two dispatch keys, so that a key comes back beside a live neighbour; two instance handles; two reloads, of which the second undoes the first |
| `deadline_admission` | an admitted batch still fits (`SlotsStillFit`); an estimate that queueing inflated fades (`PenaltyFades`) | two generated frames; intervals, costs, queueing and lateness in which each is admitted and refused, alone and with the others |
| `pass_graph` | `Barriered`, `SharedIsOwned`, `InterpolatesOwnPair` | three levels, two refined, so that each optional input is absent once and present once; two flow graphs; five frames reuse each temporal slot with both parities; three builds cover both shader variants and each transport |
| `swapchain_hooks_within_context`, `deadline_admission_admits_again`, `frame_scheduler_intent_survives` | the findings, section 6 | |

The states where the interesting thing happens are reached: every property has a
mutant, a plausible bug in one mapped definition, which makes TLC find it
violated under the very same bounds.

**Fairness.** Four modules have any, and it says only that the application goes
on presenting. In `PresentationCapacity` it is weak fairness of `Cycle`, a present
that gets to `limit()` and `observe()`; nothing the tracker does can prevent that,
since the calls are unconditional in the hot path. In `AdaptiveFlow` it is weak
fairness of `Present`, the disjunction of the steps of a present: which of them
happens, and how often resets and bypasses come in between, is left open. In
`FrameScheduler` it is `WF_plannerVars(undisturbed /\ AdaptiveCycle)` and in `DeadlineAdmission`
`WF_vars(calm /\ (Arrival \/ Dispatch))`: a game that is no longer disturbed goes
on presenting; `undisturbed` and `calm` are a choice of the environment, made once and at any time.
The other modules state safety only.

Deadlock is checked except in `layer_dispatch` and `pass_graph`, whose bounds stop
them: each device is created once, and the frames of a context are used up. In the
hooks it would be a cycle of threads that
wait for each other's `presentMutex`; in `AdaptiveFlow` a present no step of which
can follow; in `SourceHistory` and `PassRing` a present that none of the
completion, timeout and failure paths ends, or a queue that waits for a
semaphore nobody signals (a context whose sources are used up is recreated).

## 4. What is proved

`AdaptiveScheduler_proofs` is about two classes of `adaptive_scheduler.cpp`, whose
modules share `GeneratedFrames` and no names besides. The capacity tracker, for every
multiplier and every threshold that meets `PresentationCapacityAssumption`: `TypeOK`,
`CapacityCoherent`, `ProbeIsOwn` and `Gradual`. The inductive invariant `Inv` is the
conjunction of the first three with types and coherence in one predicate `Good` on
trackers, so that it can be passed through the stages of an observation; each stage has
a lemma saying that it keeps `Good` and what it may have moved, and `ObservedKeeps` puts
them together: at most one stage moves the cap, because a stage that moved it leaves a
state (no evidence, a trial under way, a probe pending) in which the later ones do not
fire.

The frame scheduler, for every set of targets, multiplier and threshold that meets
`FrameSchedulerAssumption`: `CadenceInTandem`, `FreshStart`, `RaiseIsEarned` and
`SteadyRatio`. All four stand on `PlannerInv`. Its heart is `Epoch`: every reset leaves
the scheduler `Cold`, and one that has planned in this epoch is configured like the
present (`Matches`), because whatever changes the configuration also resets the epoch.
So within an epoch `configure()` changes nothing (`PreparedIsSame`), and the warm start
of the cost limit that it provides for never happens (`ReloadsStartCold`, for every
constant what the finding `IntentSurvives` of section 6 is on one trace). `Earned` and `Regime` tie the scheduler's counters to ones kept apart from it
(`asked`, `strayed`), which is what the two action properties are stated in. A plan is
proved stage by stage (`PlanStages`): the rate, the cost limit and the regime each have
a lemma saying what they may change. `FreshStart` needs that one hint is not enough to
raise the limit (`RaiseSamples >= 2`); the code asks for four. It says nothing about
the limit after a changed target or multiplier, where the code's own intentions disagree.

`SwapchainHooks_proofs`, for every number of threads, swapchains and objects, every
set of configurations and any number of edits: `NoUseAfterRetire`. The property
alone is not inductive, because a context is dropped in three ways: by a hook that
holds `presentMutex` (`PresentThrows`, `DestroyReset`), by one that finds it
free (`RetireReset`, `DeviceReset`), and by a creation without taking it at all
(`CtorThrows`, `Fallback`). The first needs `Owner` (whoever works on a locked
object is its holder), the third `Private` (an object that a creation has not
published is in no map entry and in no other thread's hands), and `Private` needs
`Found` (a hook that replaces a swapchain has no object yet, and the handle it
replaces is one the map knows). `Inv` is these, the property's own `InUse`, and
`Shape`, the fields and domains the updates rely on. Each action has a lemma of its
own; the ways a present gives the mutex back share `PresentReturnKeeps`. What
the runtime does in a step is never looked at: the argument is the hooks' alone.

Two more invariants stand on `Inv`. `Reg` is about the map, and gives
`RegistryTracksDownstream`, `ReplacedIsRetired` and `NoContextOutlivesDevice`: a
driver may hand out a destroyed handle again at once, so whoever makes or destroys a
swapchain must have it to himself (`InHand`), with its object off the map
(`OffTheMap`); a swapchain that a creation is going to return has not been replaced
(`Fresh`); every object with a context is in the map or in the hands of one hook
(`Accounted`), so that the destruction of the device, during which the other threads
at most present (`Alone`), finds them all. `Run` is about the runtimes, and gives
`OutputsMatchRuntime` and `OrphansArePending`: a context that is to stay belongs to
the object it was built for, in the runtime that the object names (`Owned`), and every
context held fits its device (`Sound`), although reloads change the device under
contexts that are still there.

`AdaptiveFlow_proofs`, for every preset, every set of time constants that meets
`FlowControllerAssumption`, every ring and warm-up: `TypeOK`, `EvaluatesItsStep`,
`WarmIsBlind` and `NoStepInTransit`. Each stage of an observation has a lemma
that it keeps the controller `Sound` (typed, and its trial one state away), and
`ObserveBlind` that without a usable timing it changes no scale. `NoStepInTransit` needs
more than that: `Govern` runs after the dispatch, which makes a pending graph the
active one, so the backend is in transit there only after Adreno's warm-up, which
dispatches nothing. There the scale cannot move because there is no evidence,
neither retained nor recorded, after a reset: `SentIsBlind` carries that from the
warm-up's step to the governor's, and `WarmIsBlind` from the reset to the warm-up,
over the timings that arrive meanwhile. `IInv` is the three invariants and
`SentIsBlind`.

The two other properties have invariants of their own. `SeedIsSilent` (`SeedInv`): the
governor's copy of the transition is exact when it has just run (`Synced`), and while
the seed is pending either the copy still shows it, which makes the next present a seed
cycle, or a reset has overwritten the copy, and then warm-up, scene guard or the break
of that very present keeps it from generating (`SeedGuarded`). `FreshEvidence`
(`FreshInv`): on protected Adreno the present waits for its batch, whose timing is
recorded at once and judged by the governor of the same present, so nothing is in
flight when the next one begins (`Complete`), and what is measured or retained is a
timing of the active graph (`MeasuresActive`, `RetainsActive`), unless a transition is
pending that forbids its use. What the governor has to get right is therefore the
retained timing, which it must drop with the step it authorized (`Kept`). The property is
about Adreno only: elsewhere a batch may complete after the transition that followed it,
and the code tells batches apart by their own transition cycle (see section 6).

`SourceHistory_proofs`, for every ring and warm-up, any number of generated frames
and of sources, on generic devices and on protected Adreno: `NoSourceRace`,
`NoOutputRace`, `InterpolatesItsPair` and `GenericLockstep`. The shared images say
which source is the newest (`Newest`); copies execute in order, so
`Images` and `Queue` follow. A batch is tied to it from both sides: it waits for
its own copy unless that is done (`Fed`), and no later copy is done (`Behind`), because
a copy queued behind a batch waits for the batch of the source before its own
(`Held`). That the next present finds the release to wait for is `Chained`: a context
goes on only when the present before exported its batch or saw it complete. So a
batch that may execute works on the newest source (`ReadyIsNewest`), from which the
four properties follow. Each action has a lemma; the four dispatches share
`DispatchKeeps` and the eight ends of a present `FinishKeeps`.

`GeneratesWithinEpoch` has a second invariant, `EpochInv`, and two reasons. Off Adreno
batches execute in turn and every one leaves its source's features in its slot
(`Turns`), and a batch generates only when the warm-up has counted its sources since the
epoch began (`Warmed`): two at least, so that the source before its own is
one of them, and the features it looks at are younger still. On Adreno the
guard after a discontinuity counts two sources (`Guarded`), of which the first seeds: what
the wrapper decided is what the batch was `Asked`, what the batch `Sees` is no older than
its epoch, and once the seeding batch is executed nothing in the backend is (`Seeded`).
The theorem assumes a warm-up of two sources or more; with one it is false, and the code
has four.

`PassRing_proofs`, for every number of passes, images, generated frames and faults.
`PassRing` implements `RetirementRing` (`RingRefined`). The code looks at one fence per
pass. That is enough because the fence is queued behind everything else the pass was
used for (`Last`), is marked while it is queued and reset while the pass is in use
(`Once`), and because work without a fence behind it belongs to a pass in use, or to one
whose fence was lost and which is never taken again (`Covered`); `Shape` and `GpuShape`
type what the updates rely on. Every step of `PassRing` is then a step of the ring or a
stutter. Three more invariants stand on this one. `FenceInv` gives `FencesInTandem` and
`DrainedRingIsFree`: a mark says exactly that the fence is on the queue, once, or has
signalled (`Marks`), and the outputs that a batch has still to present carry no mark
(`Window`). `ConsumerInv` gives `OneConsumer`: whatever is waited for, or due to be, has
a signal that is executed or queued (`Supply`), what is due has not been waited for yet,
and the presents of one image keep their order (`GameOrder`). `OwnerInv` gives
`PassesLetGoSafely`: what a submission uses belongs to its pass until the fence, and a
present may wait for a semaphore that a pass took over from an image only while the copy
into that image has not started (`Acq`).

`LayerDispatch_proofs`, for any number of devices, dispatch keys, instances and
reloads, with early and late loaders: `OwnDispatch`, `HelperNeverHooked` and
`PathsApart`. `OwnDispatch` leaves out the swapchain commands of a device that a reload
may have overtaken (`MayBeOvertaken`): the code does not keep their promise, see
section 6. A key belongs to one existing device at a time (`KeysApart`), and from the
end of its creation to its destruction the entry there is that device's
(`OwnEntry`); `Building` and `Unknown` say what a device under creation looks like, and
`Early` what a step of the creation is about to store. A device that is about to be
passed through has no hook out unless it may have been overtaken, because either nothing
was asked yet or it cannot present. `HelperNeverHooked` is a part of
the invariant, and `PathsApart` of its part `Paths`.

`DeadlineAdmission_proofs`, for all intervals, costs, queues, delays, latenesses and
sets of counts that meet `DeadlineAssumption`: `SlotsStillFit`, and that the
predictor's estimates, reserve and slots stay in their ranges. Nothing is learned between an
admission and its batch (the second conjunct of `Inv`), and what is taken from a batch
after its admission only moves the other slots later (`SlotsAreLater`), so a batch
that fitted still fits (`FitsMore`).

`PassGraph_proofs`, for every number of pyramid levels, of levels with deltas, of
generated frames, of flow graphs and of batches, and for every build variant:
`Barriered`, `SharedIsOwned` and `InterpolatesOwnPair`. `Inv` is about the recording:
where it can be (`Place`), what the batch was asked (`Numbers`), that the barriers of a
dispatch list what its descriptor set is built with, and which shared images are
acquired at each part (`Use`). `InterpolatesOwnPair` needs what the images hold, `Data`:
which source each input is (`Sources`); which source every temporal slot holds the
features of, while alpha overwrites one slot level by level and a seeding batch all
three (`Features`); and that the differences, the temporaries, and the results of
the coarser levels carry the same pair and time from stage to stage (`Flow`). A graph
that is not the active one holds old features, and is used only by a batch that
seeds it.

Only model-checked: `RecoversWhenCalm`, `TransitionEnds`, `CeilingReached` and
`PenaltyFades`. They are liveness properties, and liveness under fairness is beyond the
prover. Every invariant and every action property that a passing run checks is a
theorem, and so is the refinement of `RetirementRing`.

## 5. What is not modelled, and the plan

In this order:

1. `FlowHandoff`: the scale handed from a destroyed swapchain to the next one
   through the single detached slot with its three seconds of life, composed with
   `AdaptiveFlow`'s startup seed.
2. `DisplayConfirmation`: the pending list of generated presents and the polling of
   past presentation timings, which the presentation capacity takes as an input.
3. An abstract swapchain registry that `SwapchainHooks` is proved to implement.

Left out for good: the configuration parser (its result is an input here; that
`updateConfig` parses at `config.cpp:86` and reads the time of the last write at
line 102, after it, is not looked at), the RAII wrappers, shader
extraction and translation (pure data), the desktop layer (`layer.cpp`, not part of
the Android build), the Rust UI and the scripts.

Inside the modelled components, left out: runtime statistics and log lines, the
extents, formats and capability checks of a swapchain (any of them may lead to a
pass-through, so pass-through is always possible), the legacy desktop path of
`LsContext::present`, allocation failures other than that of a native swapchain's
object, and the draw of context identifiers (`rand()`), which are taken unused.

## 6. Findings

Each is a run that TLC refutes; `PROJECT.json` quotes the lines.

* `PresentsWithinContext`: a configuration change is seen by one hook only, the one that
  reads the file first; other swapchains take the new configuration up in a
  context made for the old one.
* `AdmitsAgain`: the reserve a late delivery leaves is lowered only by a batch that is
  admitted, and with a large enough reserve none is; the same holds for an
  estimate of GPU time that one transient has raised.
* `IntentSurvives`: the present that finds a changed target or multiplier resets the
  scheduler first (`context.cpp:2213`), which forgets that there was a cadence, so the
  warm start that `configure()` and its tests provide for such a change
  (`adaptive_scheduler.cpp:1049`, `adaptive_scheduler_test.cpp:407`) never happens; a
  comment at the reset asks for exactly that, so two intentions disagree.

Observed on the way, by reading or in runs that are not kept:

* On protected Adreno a warm-up shows sources without dispatching them, and the copy
  names its image by the wrapper's own counter; after a reset the two parities can
  differ, which is why `GeneratesWithinEpoch` asks for `level` there.
* With an early loader a device may present through another device's functions. While
  the layer is disabled, a device that can present is passed through
  (`layer_android.cpp:372`); before it is registered, a hook of another device reloads the
  configuration and enables the layer, and the loader is given hooks (505-508). The entry
  stored then has no functions, so `ovkQueuePresentKHR` takes the `next_vk...` globals
  (559-563), although "sharing one global table across every logical device is not valid"
  (94-99). TLC finds it when `MayBeOvertaken` is taken out of `OwnDispatch`.
* Off Adreno a timing of the graph before a step can authorize the next step, when its
  batch completes after the step was taken and its cycle was no transition cycle (comment
  at `context.cpp:3082`); TLC finds it when `FreshEvidence` is stated of every device.
* A discontinuity in Fixed mode on Adreno arms a guard that only Adaptive
  mode reads (`context.cpp:2736`, comment at 2386).
* A replacement context with another runtime signature is refused while the context it
  replaces still lives (`hooks.cpp:1427`); the new swapchain passes through.
* A reset returns the flow controller to its preset's target and the wrapper's
  copies with it, but the backend keeps its graph (`context.cpp:6394`).
* The fixed tracker counts history maintenance as a source-only cycle
  (`context.cpp:2267`), unlike the comment at `adaptive_scheduler.cpp:976` says.
* A blocking completion of a transition cycle may reach the predictor after the flow
  scale was reset (comment at `context.cpp:3087`).
* When the handoff fails, presents go on although the swapchain is declared out of
  date (`context.cpp:5196`), until the application recreates it.
* A device that cannot present is answered a downstream `vkDestroyDevice`
  (`layer_android.cpp:514`), so its table entry is never forgotten; when its key
  comes back, a device that can present is given the bypassing functions if the loader
  asks early. A required function that is missing leaves the device behind.
