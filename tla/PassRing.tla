------------------------------ MODULE PassRing ------------------------------
(***************************************************************************)
(* The ring of render passes of one LsContext on devices other than        *)
(* protected Adreno: who owns a semaphore and until when.  A present       *)
(* creates semaphores for the submissions and presents it queues; they are *)
(* members of its pass, kept besides by the pass that waits for them or by *)
(* the swapchain image whose present waits for them, and destroyed with    *)
(* the last of these owners.                                               *)
(*                                                                         *)
(* Three queues make progress on their own: the game device's, the         *)
(* presentation engine's, where presents wait for their semaphores, and    *)
(* the backend's.  An image may be acquired again before its last present  *)
(* has waited; the copy into it then starts after that.                    *)
(***************************************************************************)
EXTENDS Integers, Sequences, FiniteSets

CONSTANTS
    Ring,          \* entries of passInfos: 8
    Images,        \* images of the swapchain
    MaxGenerated,  \* the multiplier less one
    Batches,       \* sizes of a batch that are asked for
    Lead,          \* bound of the model: presents that wait at an acquire
    MaxFaults,     \* bound of the model: failing calls in one context
    MaxSource      \* bound of the model: recorded presents of one context

ASSUME PassRingAssumption ==
    /\ Ring \in Nat /\ Ring >= 2
    /\ MaxGenerated \in Nat \ {0}
    /\ Batches \subseteq 0 .. MaxGenerated
    /\ MaxSource \in Nat \ {0}

VARIABLES
    fifo,         \* presentMode_ is FIFO: Xclipse's output fences exist
    frame,        \* frameIdx
    pc,           \* where present() is: idle, copied, sent; stale: OUT_OF_DATE
    cycle,        \* what this present decided
    pass,         \* passInfos
    chained,      \* previousSourceCopySignalValid_
    handoff,      \* asyncAhbHandoffEnabled_
    completion,   \* asyncFramegenCompletionEnabled_
    retirements,  \* presentWaitRetirements_
    outSubmitted, \* outputs whose xclipseOutputCompletionFenceSubmitted_ is set
    gpu,          \* submissions on the game device's queue, oldest first
    wsi,          \* presents that still wait, oldest first
    backend,      \* batches of the framegen device, oldest first
    signalled,    \* semaphores
    fences,       \* signalled fences
    faults        \* calls of the driver that failed in this context

owners == <<pass, retirements>>
flags  == <<chained, handoff, completion>>
queues == <<gpu, wsi, backend, signalled, fences>>
vars   == <<fifo, frame, pc, cycle, flags, outSubmitted, owners, queues, faults>>

Slots   == 0 .. Ring - 1
Outputs == 1 .. MaxGenerated
Slot    == frame % Ring
Before  == (frame - 1) % Ring

\* A semaphore by the member it is created for, its present and its output.
Sem(kind)    == <<kind, frame, 0>>
Out(kind, i) == <<kind, frame, i>>

\* The application's, for its rendering into image j.
Game(j)        == <<"game", 0, j>>
GameSemaphores == {Game(j) : j \in Images}

PassFence(k)   == <<"pass", k>>
OutputFence(i) == <<"out", i>>

None == -1

Unused == [own |-> {}, fence |-> "idle", armed |-> FALSE, batch |-> FALSE,
           crossFrame |-> {}, acquired |-> {}]
NoCycle == [n |-> 0, image |-> None, async |-> FALSE, wait |-> "none", queued |-> 0]

\* A member is assigned a new semaphore and lets go of the one it had.
Assigned(own, new) ==
    {s \in own : \A t \in new : <<s[1], s[3]>> # <<t[1], t[3]>>} \cup new

Owned == UNION {pass[k].own \cup pass[k].crossFrame \cup pass[k].acquired : k \in Slots}
           \cup UNION {retirements[j] : j \in Images}

Members(queue) == {queue[i] : i \in DOMAIN queue}
InSubmissions  == UNION {o.waits \cup o.signals : o \in Members(gpu)}
InPresents     == UNION {p.waits : p \in Members(wsi)}

\* An exported SYNC_FD outlives its semaphore.
InBatches      == UNION {b.waits : b \in Members(backend)}

PresentsOf(j) == {i \in DOMAIN wsi : wsi[i].image = j}

\* How many presents have to be through before image j is available.
Ahead(j) == CHOOSE i \in 0 .. Len(wsi) :
              /\ i \in PresentsOf(j) \cup {0}
              /\ \A h \in PresentsOf(j) : h <= i

\* Bound of the model: how many presents may wait when an image is acquired,
\* and an image is acquired at most once ahead of its present.
Acquirable(j) == Len(wsi) <= Lead /\ Cardinality(PresentsOf(j)) <= 1

Submission(k, waits, signals, signalledFences, ahead) ==
    [slot |-> k, waits |-> waits, signals |-> signals,
     fences |-> signalledFences, ahead |-> ahead]

-----------------------------------------------------------------------------
(* The three queues. *)

GpuStep ==
    /\ gpu # <<>>
    /\ Head(gpu).ahead = 0
    /\ Head(gpu).waits \subseteq signalled
    /\ signalled' = (signalled \ Head(gpu).waits) \cup Head(gpu).signals
    /\ fences' = fences \cup Head(gpu).fences
    /\ gpu' = Tail(gpu)
    /\ UNCHANGED <<fifo, frame, pc, cycle, flags, outSubmitted, owners, wsi, backend,
                   faults>>

WsiStep ==
    /\ wsi # <<>>
    /\ Head(wsi).waits \subseteq signalled
    /\ signalled' = signalled \ Head(wsi).waits
    /\ wsi' = Tail(wsi)
    /\ gpu' = [i \in DOMAIN gpu |->
                 [gpu[i] EXCEPT !.ahead = IF @ = 0 THEN 0 ELSE @ - 1]]
    /\ UNCHANGED <<fifo, frame, pc, cycle, flags, outSubmitted, owners, backend,
                   fences, faults>>

BackendStep ==
    /\ backend # <<>>
    /\ Head(backend).waits \subseteq signalled
    /\ signalled' = (signalled \ Head(backend).waits) \cup Head(backend).signals
    /\ backend' = Tail(backend)
    /\ UNCHANGED <<fifo, frame, pc, cycle, flags, outSubmitted, owners, gpu, wsi,
                   fences, faults>>

-----------------------------------------------------------------------------
Fault(failed) ==
    /\ failed => faults < MaxFaults
    /\ faults' = IF failed THEN faults + 1 ELSE faults

(* tryRecyclePass. *)

\* The fence is not looked at.
Quiet_Unchecked(k) == pass[k].fence # "failed"
Quiet(k) ==
    \/ pass[k].fence = "idle"
    \/ pass[k].fence = "submitted" /\ PassFence(k) \in fences

\* Owners moved here at an acquire stay until the pass is armed.
Withheld(k) == pass[k].acquired # {} /\ ~pass[k].armed

Recycled(k) ==
    [pass[k] EXCEPT !.fence = "idle", !.armed = FALSE, !.batch = FALSE,
                    !.acquired = {}, !.crossFrame = {}]

\* The pass as a call that fails leaves it, besides unchanged.
LeftBusy(k) ==
    IF ~Quiet(k) THEN {pass[k]}
    ELSE {p \in {[pass[k] EXCEPT !.fence = "failed"], [pass[k] EXCEPT !.fence = "idle"]} :
            \/ p.fence = "failed" /\ pass[k].fence = "submitted"
            \/ p.fence = "idle" /\ Withheld(k)}

-----------------------------------------------------------------------------
(* LsContext::present. *)

\* The application presents image j: what waited for its last present goes.
Released(j) == [retirements EXCEPT ![j] = {}]

\* The source goes to the screen without a copy, and ends the epoch.
BusyPassthrough(j) ==
    /\ pc = "idle" /\ frame < MaxSource /\ Acquirable(j)
    /\ \E p \in LeftBusy(Slot) :
         /\ pass' = [pass EXCEPT ![Slot] = p]
         /\ Fault(p.fence = "failed" /\ pass[Slot].fence # "failed")
         /\ fences' = IF p.fence = "idle" THEN fences \ {PassFence(Slot)} ELSE fences
    /\ retirements' = Released(j)
    /\ gpu' = Append(gpu, Submission(None, {}, {Game(j)}, {}, Ahead(j)))
    /\ wsi' = Append(wsi, [image |-> j, waits |-> {Game(j)}])
    /\ chained' = FALSE
    /\ UNCHANGED <<fifo, frame, pc, cycle, handoff, completion, outSubmitted, backend, signalled>>

\* The output fences are reset without being queried.
Retired_Unqueried(n) == {i \in outSubmitted : i <= n}

\* retireXclipseOutputCopies: of the first n outputs, those that are through.
Retired(n) == {i \in outSubmitted : i <= n /\ OutputFence(i) \in fences}
Admitted(n) ==
    IF fifo /\ \E i \in outSubmitted \ Retired(n) : i <= n THEN 0 ELSE n

\* What the copy waits for: the previous copy, and the previous batch.
CopyWaits ==
    (IF chained /\ frame > 0 THEN {<<"next", frame - 1, 0>>} ELSE {})
      \cup
    {s \in pass[Before].own : s[1] = "batch" /\ frame > 0 /\ pass[Before].batch}

\* The waits of the copy are not retained.
CrossFrame_Dropped(waits) == {}
CrossFrame(waits) == waits

\* Up to the source copy's submission.  The semaphore for the backend may be
\* refused.  A reset of the epoch in the prologue is EnterSourceOnlyBypass
\* just before, as far as the ring is concerned.
Copy(j, n, refused) ==
    /\ pc = "idle" /\ frame < MaxSource /\ Acquirable(j)
    /\ Quiet(Slot) /\ ~Withheld(Slot)
    /\ refused => handoff
    /\ Fault(refused)
    /\ LET async == handoff /\ ~refused
           waits == CopyWaits
           new   == {Sem("ready"), Sem("next")}
                      \cup (IF async THEN {Sem("input")} ELSE {})
       IN
       /\ handoff' = async
       /\ cycle' = [NoCycle EXCEPT !.n = Admitted(n), !.image = j, !.async = async]
       /\ pass' = [pass EXCEPT
            ![Slot] = [Recycled(Slot) EXCEPT
                         !.own = Assigned(@, new), !.crossFrame = CrossFrame(waits)],
            ![Before].batch = FALSE]
       /\ gpu' = Append(gpu, Submission(Slot, waits, new, {}, Ahead(j)))
    /\ fences' = fences \ ({PassFence(Slot)} \cup {OutputFence(i) : i \in Retired(n)})
    /\ outSubmitted' = outSubmitted \ Retired(n)
    /\ retirements' = Released(j)
    /\ chained' = TRUE
    /\ pc' = "copied"
    /\ signalled' = signalled \cap (Owned' \cup InSubmissions \cup InPresents \cup InBatches)
    /\ UNCHANGED <<fifo, frame, completion, wsi, backend>>

\* The fence is queued, but the acquired owners are not marked.
Fenced_Unarmed ==
    /\ gpu' = Append(gpu, Submission(Slot, {}, {}, {PassFence(Slot)}, 0))
    /\ pass' = [pass EXCEPT ![Slot].fence = "submitted"]

\* armPassGpuRetirement and the source's present: the fence is queued, or the
\* queue is idle after its submission failed, or the pass is lost.
Fenced ==   /\ gpu' = Append(gpu, Submission(Slot, {}, {}, {PassFence(Slot)}, 0))
            /\ pass' = [pass EXCEPT ![Slot].fence = "submitted", ![Slot].armed = TRUE]
Drained  == /\ gpu = <<>>
            /\ pass' = [pass EXCEPT ![Slot].armed = TRUE]
            /\ UNCHANGED gpu
Unfenced == /\ pass' = [pass EXCEPT ![Slot].fence = "failed"]
            /\ UNCHANGED gpu

\* The source waits for the copy itself, as the generated present does.
SourceWaits_Post ==
    IF cycle.queued = 0 THEN {Sem("ready")} ELSE {Out("post", cycle.queued)}
SourceWaits ==
    IF cycle.queued = 0 THEN {Sem("ready")} ELSE {Out("prev", cycle.queued)}

Conclude(then, failed) ==
    /\ \/ Fenced /\ Fault(failed)
       \/ (Drained \/ Unfenced) /\ Fault(TRUE)
    /\ retirements' = [retirements EXCEPT ![cycle.image] = @ \cup SourceWaits]
    /\ wsi' = Append(wsi, [image |-> cycle.image, waits |-> SourceWaits])
    /\ frame' = frame + 1
    /\ pc' = then
    /\ cycle' = NoCycle

\* The SYNC_FD of a copy that is already queued cannot be exported.
ExportFailed ==
    /\ pc = "copied" /\ cycle.async
    /\ handoff' = FALSE
    /\ Conclude("stale", TRUE)
    /\ UNCHANGED <<fifo, chained, completion, outSubmitted, backend, signalled, fences>>

\* What becomes of the backend's completion: nothing to wait for on the host,
\* a synchronous pass, or a bounded wait after a failure.
Outcomes == IF completion /\ (cycle.n = 0 => cycle.async)
            THEN {"imported", "synchronous", "refused"}
            ELSE {"polled"}

\* Dispatch of the batch, or of the history pass if n = 0.  Without a handoff
\* the host has waited for the copy.
Dispatch(outcome) ==
    /\ pc = "copied"
    /\ cycle.async \/ gpu = <<>>
    /\ outcome \in Outcomes
    /\ Fault(outcome \in {"synchronous", "refused"})
    /\ LET gives == IF outcome = "imported"
                    THEN {Out("render", i) : i \in 1 .. cycle.n} \cup {Sem("batch")}
                    ELSE {}
       IN
       /\ backend' = Append(backend,
            [waits |-> IF cycle.async THEN {Sem("input")} ELSE {}, signals |-> gives])
       /\ pass' = [pass EXCEPT ![Slot].own = Assigned(@, gives),
                               ![Slot].batch = outcome = "imported"]
    /\ completion' = (completion /\ outcome # "refused")
    /\ cycle' = [cycle EXCEPT !.wait = outcome]
    /\ pc' = "sent"
    /\ UNCHANGED <<fifo, frame, chained, handoff, outSubmitted, retirements,
                   gpu, wsi, signalled, fences>>

Completed == cycle.wait = "imported" \/ backend = <<>>

CompletionTimeout ==
    /\ pc = "sent" /\ cycle.queued = 0
    /\ cycle.wait \in {"refused", "polled"} /\ backend # <<>>
    /\ Conclude("stale", FALSE)
    /\ UNCHANGED <<fifo, flags, outSubmitted, backend, signalled, fences>>

\* The owners of the image's last present go to the pass that acquired it.
Moved(j) == retirements[j]

\* One generated frame: acquire, copy, present.
PresentGenerated(j) ==
    /\ pc = "sent" /\ Completed
    /\ cycle.queued < cycle.n
    /\ j # cycle.image /\ Acquirable(j)
    /\ LET i     == cycle.queued + 1
           new   == {Out("post", i), Out("prev", i)}
           waits == {Out("post", i)} \cup (IF i > 1 THEN {Out("prev", i - 1)} ELSE {})
       IN
       /\ gpu' = Append(gpu, Submission(Slot,
                   IF cycle.wait = "imported" THEN {Out("render", i)} ELSE {},
                   new, IF fifo THEN {OutputFence(i)} ELSE {}, Ahead(j)))
       /\ wsi' = Append(wsi, [image |-> j, waits |-> waits])
       /\ pass' = [pass EXCEPT ![Slot].own = Assigned(@, new),
                               ![Slot].acquired = @ \cup Moved(j)]
       /\ retirements' = [retirements EXCEPT ![j] = waits]
       /\ outSubmitted' = IF fifo THEN outSubmitted \cup {i} ELSE outSubmitted
       /\ cycle' = [cycle EXCEPT !.queued = i]
    /\ UNCHANGED <<fifo, frame, pc, flags, backend, signalled, fences, faults>>

\* The rest of the batch, if any, is late or finds no image.
PresentSource ==
    /\ pc = "sent" /\ Completed
    /\ Conclude("idle", FALSE)
    /\ UNCHANGED <<fifo, flags, outSubmitted, backend, signalled, fences>>

-----------------------------------------------------------------------------
\* hooks.cpp: generation is switched off for a while.
EnterSourceOnlyBypass ==
    /\ pc = "idle" /\ frame < MaxSource /\ chained
    /\ chained' = FALSE
    /\ UNCHANGED <<fifo, frame, pc, cycle, handoff, completion, outSubmitted, owners,
                   queues, faults>>

\* The destructor waits for the queues; bound of the model: a context has
\* MaxSource presents.
Recreate ==
    /\ pc = "stale" \/ (pc = "idle" /\ frame = MaxSource)
    /\ gpu = <<>> /\ wsi = <<>> /\ backend = <<>>
    /\ fifo' \in BOOLEAN
    /\ frame' = 0 /\ pc' = "idle" /\ cycle' = NoCycle
    /\ pass' = [k \in Slots |-> Unused]
    /\ retirements' = [j \in Images |-> {}]
    /\ chained' = FALSE /\ handoff' = TRUE /\ completion' = TRUE
    /\ outSubmitted' = {} /\ signalled' = {} /\ fences' = {} /\ faults' = 0
    /\ UNCHANGED <<gpu, wsi, backend>>

Init ==
    /\ fifo \in BOOLEAN
    /\ frame = 0 /\ pc = "idle" /\ cycle = NoCycle
    /\ pass = [k \in Slots |-> Unused]
    /\ retirements = [j \in Images |-> {}]
    /\ chained = FALSE /\ handoff = TRUE /\ completion = TRUE
    /\ outSubmitted = {} /\ signalled = {} /\ fences = {} /\ faults = 0
    /\ gpu = <<>> /\ wsi = <<>> /\ backend = <<>>

Present ==
    \/ \E j \in Images : BusyPassthrough(j)
    \/ \E j \in Images, n \in Batches, refused \in BOOLEAN : Copy(j, n, refused)
    \/ \E outcome \in Outcomes : Dispatch(outcome)
    \/ ExportFailed
    \/ CompletionTimeout
    \/ \E j \in Images : PresentGenerated(j)
    \/ PresentSource

Devices == GpuStep \/ WsiStep \/ BackendStep

Next == Present \/ Devices \/ EnterSourceOnlyBypass \/ Recreate

Spec == Init /\ [][Next]_vars

-----------------------------------------------------------------------------
(* Properties. *)

\* When a pass drops a semaphore, no submission on the game's queue uses it
\* any more; of those it took over from an image it acquired, no present
\* either.  (submitPassCompletionFence: what the fence proves.)
PassesLetGoSafely ==
    [][LET gone == Owned \ Owned' IN
       gone # {} =>
         \A k \in Slots :
           /\ gone \cap (pass[k].own \cup pass[k].crossFrame) \cap InSubmissions = {}
           /\ gone \cap pass[k].acquired \cap (InSubmissions \cup InPresents) = {}]_owners

\* Whatever waits for a binary semaphore is its only consumer, and somebody
\* has signalled it or is going to (context.hpp, framegenInputSemaphore).
\* The application's own semaphores are its own affair.
Signals == signalled \cup UNION {o.signals : o \in Members(gpu) \cup Members(backend)}
Apart(queue) ==
    \A i, h \in DOMAIN queue :
        i < h => queue[i].waits \cap queue[h].waits \subseteq GameSemaphores
OneConsumer ==
    LET copies == UNION {o.waits : o \in Members(gpu)} IN
    /\ Apart(gpu) /\ Apart(wsi) /\ Apart(backend)
    /\ copies \cap InPresents = {}
    /\ copies \cup InPresents \cup InBatches \subseteq Signals

\* A fence is marked as submitted exactly while it is on the queue or has
\* signalled: it is never queued twice, and never queried without need.
FencesInTandem ==
    /\ \A k \in Slots : pass[k].fence # "failed" =>
         LET queued == Cardinality({i \in DOMAIN gpu : PassFence(k) \in gpu[i].fences})
             done   == IF PassFence(k) \in fences THEN 1 ELSE 0
         IN queued + done = (IF pass[k].fence = "submitted" THEN 1 ELSE 0)
    /\ \A i \in Outputs :
         LET queued == Cardinality({h \in DOMAIN gpu : OutputFence(i) \in gpu[h].fences})
             done   == IF OutputFence(i) \in fences THEN 1 ELSE 0
         IN queued + done = (IF i \in outSubmitted THEN 1 ELSE 0)

\* The ring is the abstract one: a pass is taken again only when neither the
\* GPU nor a present has anything left to do with it.
Abstract == INSTANCE RetirementRing WITH
    next <- frame,
    taken <- pc \in {"copied", "sent"},
    busy <- {o.slot : o \in Members(gpu)} \ {None}
RingRefined == Abstract!Spec

\* The ring cannot fill up for good: when the GPU has nothing left to do, the
\* next pass can be recycled, unless its fence has failed.
DrainedRingIsFree ==
    pc = "idle" /\ gpu = <<>> /\ pass[Slot].fence # "failed"
        => Quiet(Slot) /\ ~Withheld(Slot)
=============================================================================
