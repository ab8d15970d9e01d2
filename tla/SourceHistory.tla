---------------------------- MODULE SourceHistory ----------------------------
(***************************************************************************)
(* The source pair that LsContext::present shares with the frame           *)
(* generation backend, on Android.  The game device copies every source    *)
(* frame into one of two shared images; the backend, on a device of its    *)
(* own, derives features from the newest one, keeps the features of the    *)
(* last three sources, and interpolates between the two images.  Nothing   *)
(* but the parity of two independent counters (LsContext::frameIdx and     *)
(* Context::frameIdx) says which image is the newer one, and nothing but   *)
(* semaphores and bounded host waits orders the two GPUs.                  *)
(*                                                                         *)
(* One present call is split where the GPUs can interleave with it: the    *)
(* source copy, the dispatch, the completion wait and delivery.  Calls on  *)
(* one swapchain never overlap (SwapchainState::presentMutex).             *)
(***************************************************************************)
EXTENDS Integers, Sequences, FiniteSets

CONSTANTS
    Ring,          \* entries of passInfos and of the backend's data ring: 8
    Warmup,        \* kSourceHistoryWarmupFrames: 4
    MaxGenerated,  \* generated frames of one batch, at most
    MaxSource      \* bound of the model: source frames of one context

ASSUME SourceHistoryAssumption ==
    /\ Ring \in Nat /\ Ring >= 2
    /\ Warmup \in Nat \ {0}
    /\ MaxGenerated \in Nat \ {0}
    /\ MaxSource \in Nat \ {0}

None == -1
Devices == {"adreno", "generic"}
Frames  == 0 .. MaxSource
Passes  == 0 .. Ring - 1
Ids     == {"copy", "post", "fence", "batch"} \X Frames

VARIABLES
    device,        \* conservativeCrossDeviceSync_: the class of the GPU
    life,          \* live; stale: OUT_OF_DATE was returned; off: an exception dropped it
    pc,            \* where present() is: idle, copied, sent
    cycle,         \* what this present decided
    frameIdx,      \* LsContext::frameIdx
    warmup,        \* sourceHistoryWarmupRemaining_
    sceneOnly,     \* adaptiveSceneTransitionGuard_.sourceOnlyRemaining()
    adaptive,      \* conf.adaptiveFramegen
    prevCopy,      \* previousSourceCopySignalValid_
    asyncHandoff,  \* asyncAhbHandoffEnabled_
    asyncDone,     \* asyncFramegenCompletionEnabled_
    release,       \* pass -> the batch behind a valid framegenBatchCompleteSemaphore
    fenceOut,      \* passes whose completionFenceSubmitted is set
    fgIdx,         \* Context::frameIdx
    fgWait,        \* backend ring entry -> batch it still has to wait for (shouldWait)
    feat,          \* temporal feature slot -> the source its features come from
    slot,          \* shared image -> the source it holds
    gameQ,         \* operations on the game device's queue, oldest first
    fgQ,           \* batches on the backend's queue, oldest first
    epochStart,    \* first source of the current cadence epoch
    cause          \* what started that epoch

wrapper == <<warmup, sceneOnly, prevCopy, epochStart, cause>>
sync    == <<asyncHandoff, asyncDone, release, fenceOut>>
backend == <<fgIdx, fgWait, fgQ>>
memory  == <<feat, slot>>
vars == <<device, life, pc, cycle, frameIdx, adaptive, gameQ,
          wrapper, sync, backend, memory>>

Idle == [mode |-> "none", gen |-> 0, async |-> FALSE,
         await |-> None, onTimeout |-> "throw", exported |-> FALSE]

-----------------------------------------------------------------------------
(* Operations on the two GPUs. *)

OpsOf(q)  == {q[i] : i \in DOMAIN q}
IdOf(o)   == <<o.kind, o.n>>
Pending   == {IdOf(o) : o \in OpsOf(gameQ) \cup OpsOf(fgQ)}
Ready(o)  == o.waits \cap Pending = {}

Copy(src, waits)  == [kind |-> "copy", n |-> src, waits |-> waits]
Post(src, waits)  == [kind |-> "post", n |-> src, waits |-> waits]
Fence(p)          == [kind |-> "fence", n |-> p, waits |-> {}]

\* The three feature slots after batch b has preprocessed the image that the
\* backend's own parity names as the current one; a seed fills all three.
Preprocessed(b) ==
    [i \in 0..2 |-> IF b.seed \/ i = b.n % 3 THEN slot[b.n % 2] ELSE feat[i]]

\* The game device's first source goes to both images, except on Adreno.
Written(src) == IF src = 0 /\ device = "generic" THEN {0, 1} ELSE {src % 2}

GameStep ==
    /\ gameQ # <<>>
    /\ Ready(Head(gameQ))
    /\ gameQ' = Tail(gameQ)
    /\ slot' = IF Head(gameQ).kind = "copy"
               THEN [s \in 0..1 |-> IF s \in Written(Head(gameQ).n)
                                    THEN Head(gameQ).n ELSE slot[s]]
               ELSE slot
    /\ UNCHANGED <<device, life, pc, cycle, frameIdx, adaptive, wrapper, sync,
                   backend, feat>>

FgStep ==
    /\ fgQ # <<>>
    /\ Ready(Head(fgQ))
    /\ fgQ' = Tail(fgQ)
    /\ feat' = Preprocessed(Head(fgQ))
    /\ UNCHANGED <<device, life, pc, cycle, frameIdx, adaptive, gameQ, wrapper,
                   sync, fgIdx, fgWait, slot>>

-----------------------------------------------------------------------------
(* resetAdaptiveSourceEpoch and enterSourceOnlyBypass: the part that touches *)
(* the history.  Source f is the first one of the new epoch.                 *)

\* A warm-up of one source on every device.
ResetWarmup_Short == 1
ResetWarmup == IF device = "adreno" THEN 1 ELSE Warmup

ResetEpoch(f) ==
    /\ warmup' = ResetWarmup
    /\ sceneOnly' = 0
    /\ prevCopy' = FALSE
    /\ epochStart' = f
    /\ cause' = "reset"

\* A discontinuity on Adreno replaces the warm-up by the scene guard.
ResetScene(f) ==
    /\ warmup' = IF device = "adreno" THEN 0 ELSE Warmup
    /\ sceneOnly' = IF device = "adreno" THEN 2 ELSE 0
    /\ epochStart' = f
    /\ cause' = "scene"

\* hooks.cpp: an On-to-Off transition of a resident context.
EnterSourceOnlyBypass ==
    /\ life = "live" /\ pc = "idle"
    /\ ResetEpoch(frameIdx)
    /\ UNCHANGED <<device, life, pc, cycle, frameIdx, adaptive, gameQ, sync,
                   backend, memory>>

-----------------------------------------------------------------------------
(* LsContext::present, one call. *)

\* tryRecyclePass on an unused pass, or on one whose fence has signalled.
Recyclable(p) == p \in fenceOut => <<"fence", p>> \notin Pending

Pass == frameIdx % Ring

\* The pass ring is full: the source bypasses the pair, which ends the epoch.
BusyPassthrough ==
    /\ life = "live" /\ pc = "idle"
    /\ device = "generic"
    /\ ~Recyclable(Pass)
    /\ ResetEpoch(frameIdx)
    /\ UNCHANGED <<device, life, pc, cycle, frameIdx, adaptive, gameQ, sync,
                   backend, memory>>

\* How many frames this call may generate once the scene guard has spoken.
\* Fixed mode requests its multiplier and never asks the guard.
Admitted(g) ==
    IF adaptive' THEN sceneOnly' > 0 => g = 0
    ELSE g = 0 <=> epochStart' = frameIdx /\ cause' = "scene"

Mode(g) ==
    CASE warmup' > 0 /\ device = "adreno"  -> "warmup"
      [] warmup' > 0 /\ device = "generic" -> "history"
      [] warmup' = 0 /\ g = 0              -> "history"
      [] OTHER                             -> "generate"

\* The copy does not wait for the previous batch.
CopyWaits_NoRelease ==
    IF prevCopy' /\ frameIdx > 0 THEN {<<"copy", frameIdx - 1>>} ELSE {}

\* The copy waits for the previous copy, if its signal was not abandoned, and
\* for the previous pass's batch, if its release was imported.
CopyWaits ==
    LET prev == (frameIdx - 1) % Ring IN
    (IF prevCopy' /\ frameIdx > 0 THEN {<<"copy", frameIdx - 1>>} ELSE {})
      \cup
    (IF device = "generic" /\ frameIdx > 0 /\ release[prev] # None
       THEN {<<"batch", release[prev]>>} ELSE {})

\* The copy is queued, with a semaphore for the backend if one is wanted and
\* can be made.  One that cannot is not tried again.
Submit(g, wants) ==
    \E semaphore \in BOOLEAN :
      /\ asyncHandoff' = IF wants THEN semaphore ELSE asyncHandoff
      /\ ~wants => semaphore
      /\ cycle' = [Idle EXCEPT !.mode = Mode(g), !.gen = g,
                               !.async = wants /\ semaphore]
      /\ gameQ' = Append(gameQ, Copy(frameIdx, CopyWaits))

SubmitCopy(g) == device = "generic" /\ Submit(g, asyncHandoff)

\* On Adreno warm-up and history cycles wait for the copy on the host.
SubmitAdrenoCopy(g) ==
    /\ device = "adreno"
    /\ Submit(g, asyncHandoff /\ Mode(g) = "generate")

Present ==
    /\ life = "live" /\ pc = "idle"
    /\ frameIdx < MaxSource
    /\ device = "generic" => Recyclable(Pass)
    /\ \/ UNCHANGED <<adaptive, wrapper>>
       \/ adaptive' \in BOOLEAN /\ ResetEpoch(frameIdx)
       \/ frameIdx > 0 /\ UNCHANGED adaptive /\ prevCopy' = FALSE
            /\ ResetScene(frameIdx)
    /\ \E g \in 0..MaxGenerated : Admitted(g) /\ (SubmitCopy(g) \/ SubmitAdrenoCopy(g))
    /\ release' = IF device = "generic"
                  THEN [p \in Passes |->
                          IF p = Pass \/ (p = (frameIdx - 1) % Ring)
                          THEN None ELSE release[p]]
                  ELSE release
    /\ fenceOut' = fenceOut \ {Pass}
    /\ pc' = "copied"
    /\ UNCHANGED <<device, life, frameIdx, asyncDone, backend, memory>>

\* finishSourcePresent: the source is queued, and a call that took longer than
\* the discontinuity threshold ends the epoch.
Finish(result, posts, arm) ==
    /\ gameQ' = gameQ \o posts \o (IF arm THEN <<Fence(Pass)>> ELSE <<>>)
    /\ fenceOut' = IF arm THEN fenceOut \cup {Pass} ELSE fenceOut
    /\ life' = result
    /\ frameIdx' = frameIdx + 1
    /\ pc' = "idle"
    /\ cycle' = Idle

Suspended == ResetEpoch(frameIdx + 1)

KeepHistory(w, s) ==
    /\ warmup' = w
    /\ sceneOnly' = s
    /\ prevCopy' = TRUE
    /\ UNCHANGED <<epochStart, cause>>

\* The failed export is reported as an ordinary success.
FailOpenResult_Keep == "live"
FailOpenResult == "stale"

\* The SYNC_FD of a submitted copy cannot be exported: the source is shown,
\* nothing is dispatched, and the swapchain is declared out of date.
ExportFailed ==
    /\ pc = "copied" /\ device = "generic" /\ cycle.async
    /\ asyncHandoff' = FALSE
    /\ KeepHistory(Warmup, sceneOnly) \/ Suspended
    /\ Finish(FailOpenResult, <<>>, TRUE)
    /\ UNCHANGED <<device, adaptive, asyncDone, release, backend, memory>>

HandoffDone == cycle.async \/ <<"copy", frameIdx>> \notin Pending

\* Adreno: the warm-up shows the source and dispatches nothing.
AdrenoWarmup ==
    /\ pc = "copied" /\ cycle.mode = "warmup" /\ HandoffDone
    /\ KeepHistory(0, sceneOnly) \/ Suspended
    /\ Finish("live", <<>>, FALSE)
    /\ UNCHANGED <<device, adaptive, asyncHandoff, asyncDone, release, backend,
                   memory>>

-----------------------------------------------------------------------------
(* Context::present of the backend, and what the caller does to complete it. *)

\* The ring entry of this backend frame may still carry an unfinished batch.
RingFree == fgWait[fgIdx % Ring] = None
              \/ <<"batch", fgWait[fgIdx % Ring]>> \notin Pending

Seeds == device = "adreno" /\ adaptive /\ sceneOnly = 2

Batch(g) ==
    [kind |-> "batch", n |-> fgIdx, src |-> frameIdx, gen |-> g,
     waits |-> IF cycle.async THEN {<<"copy", frameIdx>>} ELSE {},
     seed |-> Seeds, start |-> epochStart, cause |-> cause,
     adaptive |-> adaptive, level |-> frameIdx % 2 = fgIdx % 2]

\* Exported and imported: the GPUs are ordered by semaphores alone.
Exported ==
    /\ asyncDone /\ UNCHANGED asyncDone
    /\ release' = [release EXCEPT ![Pass] = fgIdx]
    /\ cycle' = [cycle EXCEPT !.exported = TRUE]

\* Exported but not importable here: fall back to waitContext for good.
ImportFailed ==
    /\ asyncDone /\ asyncDone' = FALSE
    /\ cycle' = [cycle EXCEPT !.await = fgIdx, !.onTimeout = "stale"]
    /\ UNCHANGED release

\* The backend itself completed the batch before it returned.
BackendWaits ==
    /\ UNCHANGED <<asyncDone, release>>
    /\ cycle' = [cycle EXCEPT !.await = fgIdx]

\* No export: the caller waits with waitContext.
CallerWaits ==
    /\ ~asyncDone
    /\ UNCHANGED <<asyncDone, release>>
    /\ cycle' = [cycle EXCEPT !.await = fgIdx, !.onTimeout = "stale"]

Dispatch(g) ==
    /\ fgQ' = Append(fgQ, Batch(g))
    /\ fgWait' = [fgWait EXCEPT ![fgIdx % Ring] = fgIdx]
    /\ fgIdx' = fgIdx + 1
    /\ pc' = "sent"
    /\ UNCHANGED <<device, life, frameIdx, adaptive, gameQ, wrapper,
                   asyncHandoff, fenceOut, memory>>

DispatchHistory ==
    /\ pc = "copied" /\ cycle.mode = "history" /\ HandoffDone /\ RingFree
    /\ device = "generic"
    /\ (cycle.async /\ (Exported \/ ImportFailed)) \/ BackendWaits
    /\ Dispatch(0)

DispatchGenerate ==
    /\ pc = "copied" /\ cycle.mode = "generate" /\ HandoffDone /\ RingFree
    /\ device = "generic"
    /\ Exported \/ ImportFailed \/ BackendWaits \/ CallerWaits
    /\ Dispatch(cycle.gen)

\* Adreno exports nothing: the backend waits for its preprocessing ...
AdrenoDispatchHistory ==
    /\ pc = "copied" /\ cycle.mode = "history" /\ HandoffDone /\ RingFree
    /\ device = "adreno"
    /\ BackendWaits
    /\ Dispatch(0)

\* ... and the caller for generated frames.
AdrenoDispatchGenerate ==
    /\ pc = "copied" /\ cycle.mode = "generate" /\ HandoffDone /\ RingFree
    /\ device = "adreno"
    /\ CallerWaits
    /\ Dispatch(cycle.gen)

AwaitDone == cycle.await = None \/ <<"batch", cycle.await>> \notin Pending

Delivered(result, posts, arm) ==
    /\ Finish(result, posts, arm)
    /\ UNCHANGED <<device, adaptive, asyncHandoff, asyncDone, release, backend,
                   memory>>

\* The bounded wait expired: the source is shown and the swapchain declared
\* out of date.
Expired(d) == pc = "sent" /\ device = d /\ cycle.onTimeout = "stale" /\ ~AwaitDone

CompletionTimeout ==
    /\ Expired("generic")
    /\ \/ KeepHistory(IF cycle.mode = "history" THEN Warmup ELSE warmup, sceneOnly)
       \/ Suspended
    /\ Delivered("stale", <<>>, TRUE)

AdrenoTimeout ==
    /\ Expired("adreno")
    /\ KeepHistory(warmup, sceneOnly) \/ Suspended
    /\ Delivered("stale", <<>>, FALSE)

Completed(mode, d) == pc = "sent" /\ cycle.mode = mode /\ device = d /\ AwaitDone

Decrement(n) == IF n > 0 THEN n - 1 ELSE 0

DeliverHistory ==
    /\ Completed("history", "generic")
    /\ KeepHistory(Decrement(warmup), Decrement(sceneOnly)) \/ Suspended
    /\ Delivered("live", <<>>, TRUE)

\* Adreno ends its warm-up at once, and Fixed mode never asks the scene guard.
AdrenoDeliverHistory ==
    /\ Completed("history", "adreno")
    /\ \/ KeepHistory(0, IF adaptive THEN Decrement(sceneOnly) ELSE sceneOnly)
       \/ Suspended
    /\ Delivered("live", <<>>, FALSE)

\* The generated copies do not wait for the output-ready semaphores.
OutputWaits_None == {}
OutputWaits == IF cycle.exported THEN {<<"batch", fgIdx - 1>>} ELSE {}

GeneratedCopies(k) == [i \in 1..k |-> Post(frameIdx, OutputWaits)]

\* The generated copies read the batch's outputs on the game queue; the suffix
\* no swapchain image is free for is dropped.
DeliverGenerated ==
    /\ Completed("generate", "generic")
    /\ KeepHistory(warmup, sceneOnly) \/ Suspended
    /\ \E k \in 0..cycle.gen : Delivered("live", GeneratedCopies(k), TRUE)

\* Adreno waits for an image for every frame, or throws.
AdrenoDeliverGenerated ==
    /\ Completed("generate", "adreno")
    /\ KeepHistory(warmup, sceneOnly) \/ Suspended
    /\ Delivered("live", GeneratedCopies(cycle.gen), FALSE)

\* Any exception (a fence wait in the handoff or in the backend, an acquire, a
\* present) reaches hooks.cpp, which drops the context.
Throw ==
    /\ pc # "idle"
    /\ life' = "off" /\ pc' = "idle" /\ cycle' = Idle
    /\ gameQ' = <<>> /\ fgQ' = <<>>
    /\ UNCHANGED <<device, frameIdx, adaptive, wrapper, sync, fgIdx, fgWait, memory>>

-----------------------------------------------------------------------------
FreshWarmup == IF device = "adreno" THEN 0 ELSE Warmup
NoPasses    == [p \in Passes |-> None]
NoFeatures  == [i \in 0..2 |-> None]
NoImages    == [s \in 0..1 |-> None]

\* What a new context may find supported: asynchronous completion needs the
\* SYNC_FD handoff and is never selected on Adreno.
Support(handoff, done) == done => handoff /\ device = "generic"

Init ==
    /\ device \in Devices /\ adaptive \in BOOLEAN
    /\ life = "live" /\ pc = "idle" /\ cycle = Idle
    /\ frameIdx = 0 /\ fgIdx = 0
    /\ warmup = FreshWarmup /\ sceneOnly = 0 /\ prevCopy = FALSE
    /\ epochStart = 0 /\ cause = "none"
    /\ asyncHandoff \in BOOLEAN /\ asyncDone \in BOOLEAN
    /\ Support(asyncHandoff, asyncDone)
    /\ release = NoPasses /\ fenceOut = {} /\ fgWait = NoPasses
    /\ feat = NoFeatures /\ slot = NoImages
    /\ gameQ = <<>> /\ fgQ = <<>>

\* The application recreates the swapchain; the old context drains its queue
\* in its destructor and the new one starts from nothing.
Recreate ==
    /\ pc = "idle"
    /\ adaptive' \in BOOLEAN
    /\ life' = "live"
    /\ frameIdx' = 0 /\ fgIdx' = 0
    /\ warmup' = FreshWarmup /\ sceneOnly' = 0 /\ prevCopy' = FALSE
    /\ epochStart' = 0 /\ cause' = "none"
    /\ asyncHandoff' \in BOOLEAN /\ asyncDone' \in BOOLEAN
    /\ Support(asyncHandoff', asyncDone')
    /\ release' = NoPasses /\ fenceOut' = {} /\ fgWait' = NoPasses
    /\ feat' = NoFeatures /\ slot' = NoImages
    /\ gameQ' = <<>> /\ fgQ' = <<>>
    /\ UNCHANGED <<device, pc, cycle>>

Next ==
    \/ Present \/ BusyPassthrough \/ EnterSourceOnlyBypass
    \/ ExportFailed \/ AdrenoWarmup
    \/ DispatchHistory \/ DispatchGenerate
    \/ AdrenoDispatchHistory \/ AdrenoDispatchGenerate
    \/ CompletionTimeout \/ DeliverHistory \/ DeliverGenerated
    \/ AdrenoTimeout \/ AdrenoDeliverHistory \/ AdrenoDeliverGenerated
    \/ Throw \/ Recreate
    \/ GameStep \/ FgStep

Spec == Init /\ [][Next]_vars

-----------------------------------------------------------------------------
Copies  == {o \in OpsOf(gameQ) : o.kind = "copy"}
Posts   == {o \in OpsOf(gameQ) : o.kind = "post"}
Batches == OpsOf(fgQ)

\* The two GPUs never use a shared source image at once: a source copy that may
\* execute (its semaphores are signalled) finds no batch of an earlier source
\* still to run, and a batch that may execute finds no copy of its own or an
\* earlier source still to run.  The release semaphores of the previous pass,
\* the input semaphore and the host waits of LsContext::present are what keeps
\* this true, on every fallback path.
NoSourceRace ==
    /\ \A c \in Copies : Ready(c) => \A b \in Batches : b.src >= c.n
    /\ \A b \in Batches : Ready(b) => \A c \in Copies : c.n > b.src

\* Generated images are read by the game device only after the batch that wrote
\* them, and no later batch may overwrite them while such a read is outstanding.
NoOutputRace ==
    \A p \in Posts :
       /\ Ready(p) => \A b \in Batches : b.src # p.n
       /\ \A b \in Batches : b.src > p.n /\ b.gen > 0 => ~Ready(b)

\* What the batch at the head of the backend's queue would read now.
AtWork(b) == fgQ # <<>> /\ b = Head(fgQ) /\ Ready(b)

\* A batch that generates interpolates from the source before its own to its
\* own, in that order, in the images its own parity selects.
InterpolatesItsPair ==
    \A b \in Batches :
       AtWork(b) /\ b.gen > 0 /\ device = "generic"
          => /\ slot[b.n % 2] = b.src
             /\ slot[(b.n + 1) % 2] = b.src - 1

\* A batch that generates sees no feature and no image of a source from before
\* the last discontinuity, resume, bypass or configuration change: the warm-up
\* of the generic path and the scene guard of the Adreno path are long enough.
\* (On Adreno only while the two frame counters agree.)
GeneratesWithinEpoch ==
    \A b \in Batches :
       /\ AtWork(b) /\ b.gen > 0
       /\ \/ device = "generic"
          \/ b.cause = "scene" /\ b.adaptive /\ b.level
       => /\ \A i \in 0..2 : Preprocessed(b)[i] >= b.start
          /\ \A s \in 0..1 : slot[s] >= b.start

\* On the generic path the two frame counters agree whenever no present is in
\* progress on a context that may go on: every path that advances one of them
\* without the other gives the context up.
GenericLockstep ==
    device = "generic" /\ life = "live" /\ pc = "idle" => frameIdx = fgIdx
=============================================================================
