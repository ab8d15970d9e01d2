------------------------------ MODULE PassGraph ------------------------------
(***************************************************************************)
(* The shader graph one batch of the frame generation backend records:     *)
(* mipmaps of the newest source, features of every level (alpha) in one of *)
(* three temporal slots, the difference of the three (beta), and for every *)
(* generated frame a coarse-to-fine flow (gamma, delta) and the output     *)
(* (generate).  Each dispatch takes the images its descriptor set was      *)
(* built with in the constructor, and the barriers its Dispatch call lists *)
(* beside it; nothing but care keeps the two lists, the slot arithmetic    *)
(* and the ownership of the shared images in step.                         *)
(*                                                                         *)
(* An image stands for the array of images that is bound with it, except   *)
(* the temporaries of gamma and delta, whose arrays are used in parts.     *)
(* What an image holds is the sources it was derived from.  Batches of one *)
(* context are recorded and executed in order on one queue; the order      *)
(* between the two devices is SourceHistory's subject.                     *)
(***************************************************************************)
EXTENDS Integers, FiniteSets

CONSTANTS
    Levels,        \* levels of the image pyramid: 7
    Deltas,        \* levels refined by a delta: 3
    MaxGenerated,  \* vk.generationCount
    Graphs,        \* prebuilt flow graphs, the first one 0
    Builds,        \* the variants [performance, inputCopy, outputCopy]
    MaxFrame       \* bound of the model: batches of one context

ASSUME PassGraphAssumption ==
    /\ Levels \in Nat /\ Deltas \in 1 .. Levels - 1
    /\ MaxGenerated \in Nat /\ MaxFrame \in Nat
    /\ 0 \in Graphs
    /\ Builds \subseteq [performance : BOOLEAN, inputCopy : BOOLEAN,
                         outputCopy : BOOLEAN]

VARIABLES
    build,    \* the variant this context was built as
    frame,    \* frameIdx of the batch being recorded
    active,   \* activeFlowGraphIndex_
    batch,    \* what was asked of this batch
    at,       \* the dispatch to be recorded next
    ready,    \* its barriers are recorded
    content,  \* image -> what it holds, for the images that matter
    dirty,    \* images written since a barrier made writes visible to reads
    held,     \* images read since a barrier held writes back
    owned,    \* shared images acquired from the other device
    seeded    \* history: the frame that last seeded all temporal slots

vars == <<build, frame, active, batch, at, ready, content, dirty, held, owned,
          seeded>>

-----------------------------------------------------------------------------
(* Images, and what they hold. *)

Image(name, level, k) == <<batch.graph, name, level, k>>
Array(name, level, K) == {Image(name, level, k) : k \in K}

In(k)  == <<0, "in", 0, k>>
Out(p) == <<0, "out", 0, p>>

\* With a copying transport the shared images are not the ones bound.
SharedIn(k)  == IF build.inputCopy THEN <<0, "sharedIn", 0, k>> ELSE In(k)
SharedOut(p) == IF build.outputCopy THEN <<0, "sharedOut", 0, p>> ELSE Out(p)
SharedInputs == {SharedIn(0), SharedIn(1)}
Shared       == SharedInputs \cup {SharedOut(p) : p \in 0 .. MaxGenerated - 1}

None  == -1
Blank == [from |-> None, to |-> None, before |-> None, prev |-> None,
          cur |-> None, time |-> <<0, 0>>]
Mixed == [Blank EXCEPT !.cur = -2]

Content(i) == IF i \in DOMAIN content THEN content[i] ELSE Blank

\* A stage that only transforms what it reads.
Passed(S) == IF \A i, j \in S : Content(i) = Content(j)
             THEN Content(CHOOSE i \in S : TRUE)
             ELSE Mixed

\* The interpolation time of a pass, from the buffer prebuilt for its count.
Time == <<at.pass + 1, batch.count + 1>>

\* A coarser result guides a finer one if it is of the same pair and time.
Guided(v, guides) ==
    IF \A g \in guides : /\ Content(g).prev = v.prev
                         /\ Content(g).cur = v.cur
                         /\ Content(g).time = v.time
    THEN v ELSE Mixed

-----------------------------------------------------------------------------
(* The images of each dispatch: what it is bound to, and its barriers. *)

Uses(reads, writes) == [reads |-> reads, writes |-> writes]

MipmapsBindings == Uses({In(frame % 2)}, Array("mip", 0, 0 .. Levels - 1))
MipmapsBarriers == Uses({In(frame % 2)}, Array("mip", 0, 0 .. Levels - 1))
MipmapsValue    == Content(In(frame % 2))

\* Seeding leaves out one of the slots.
AlphaStages_Short == IF batch.seed THEN 4 ELSE 3
\* Seeding runs the last stage once for every temporal slot.
AlphaStages == IF batch.seed THEN 5 ELSE 3
AlphaSlot   == IF at.stage > 3 THEN (frame + at.stage - 3) % 3 ELSE frame % 3

AlphaChain(slot) ==
    LET temp(n) == {Image("alpha.temp", at.level, n)} IN
    CASE at.stage = 0 -> Uses({Image("mip", 0, at.level)}, temp(1))
      [] at.stage = 1 -> Uses(temp(1), temp(2))
      [] at.stage = 2 -> Uses(temp(2), temp(3))
      [] OTHER        -> Uses(temp(3), {Image("alpha", at.level, slot)})

AlphaBindings == AlphaChain(AlphaSlot)
AlphaBarriers == AlphaChain(AlphaSlot)

BetaChain(slots, outs) ==
    LET temp(n) == {Image("beta.temp", 0, n)} IN
    CASE at.stage = 0 -> Uses({Image("alpha", 0, k) : k \in slots}, temp(1))
      [] at.stage = 1 -> Uses(temp(1), temp(2))
      [] at.stage = 2 -> Uses(temp(2), temp(1))
      [] at.stage = 3 -> Uses(temp(1), temp(2))
      [] at.stage = 4 -> Uses(temp(2), outs)

BetaOuts     == Array("beta", 0, 0 .. Levels - 2)
BetaBindings == BetaChain(0 .. 2, BetaOuts)
BetaBarriers == BetaChain(0 .. 2, BetaOuts)

\* The oldest slot comes first, this frame's last.
BetaOrder == <<(frame + 1) % 3, (frame + 2) % 3, frame % 3>>
BetaValue ==
    LET slot(n) == Content(Image("alpha", 0, BetaOrder[n])).cur IN
    IF at.stage = 0
    THEN [Blank EXCEPT !.before = slot(1), !.prev = slot(2), !.cur = slot(3)]
    ELSE Passed(BetaBindings.reads)

\* Gamma and delta of step i work on level Levels - 1 - i.
Fine   == Levels - 1 - at.level
First  == Levels - Deltas
Slots  == Array("alpha", Fine, {(frame + 2) % 3, frame % 3})
Temp1(K) == Array(IF at.part = "gamma" THEN "gamma.temp1" ELSE "delta.temp1",
                  at.level, K)
Temp2(K) == Array(IF at.part = "gamma" THEN "gamma.temp2" ELSE "delta.temp2",
                  at.level, K)

\* The performance shaders use fewer temporaries.
Wide   == IF build.performance THEN 1 .. 2 ELSE 1 .. 4
Narrow == IF build.performance THEN {1} ELSE 1 .. 2
Most   == IF build.performance THEN 1 .. 3 ELSE 1 .. 4

\* The coarser gamma, if there is one.
Coarser(first, part, n) ==
    IF at.level = first THEN {} ELSE {Image(part, at.level - 1, n)}
Difference ==
    {Image("beta", 0, IF Fine < Levels - 2 THEN Fine ELSE Levels - 2)}

GammaBindings ==
    LET opt == Coarser(0, "gamma", 1) IN
    CASE at.stage = 0 -> Uses(Slots \cup opt, Temp1(1 .. 3))
      [] at.stage = 1 -> Uses(Temp1(1 .. 3), Temp2(Wide))
      [] at.stage = 2 -> Uses(Temp2(Wide), Temp1(Wide))
      [] at.stage = 3 -> Uses(Temp1(Wide), Temp2(Wide))
      [] at.stage = 4 -> Uses(Temp2(Wide) \cup opt \cup Difference,
                              {Image("gamma", at.level, 1)})

GammaBarriers ==
    LET opt == Coarser(0, "gamma", 1) IN
    CASE at.stage = 0 -> Uses(Slots \cup opt, Temp1(1 .. 3))
      [] at.stage = 1 -> Uses(Temp1(1 .. 3), Temp2(Wide))
      [] at.stage = 2 -> Uses(Temp2(Wide), Temp1(Wide))
      [] at.stage = 3 -> Uses(Temp1(Wide), Temp2(Wide))
      [] at.stage = 4 -> Uses(Temp2(Wide) \cup opt \cup Difference,
                              {Image("gamma", at.level, 1)})

\* The warp of a pair: the slot before this frame's, this frame's, a time.
Warp(level) ==
    [Blank EXCEPT !.prev = Content(Image("alpha", level, (frame + 2) % 3)).cur,
                  !.cur = Content(Image("alpha", level, frame % 3)).cur,
                  !.time = Time]

\* The fifth stage joins the warp with the differences of its level.
Joined(v, opt) ==
    LET b == Content(CHOOSE i \in Difference : TRUE) IN
    IF b.prev = v.prev /\ b.cur = v.cur
    THEN Guided([v EXCEPT !.before = b.before], opt)
    ELSE Mixed

GammaValue ==
    LET opt == Coarser(0, "gamma", 1) IN
    CASE at.stage = 0 -> Guided(Warp(Fine), opt)
      [] at.stage = 4 -> Joined(Passed(Temp2(Wide)), opt)
      [] OTHER        -> Passed(GammaBindings.reads)

\* Delta has two results: the first is guided by the coarser gamma, the second
\* by that and both results of the coarser delta.
DeltaBindings ==
    LET opt(n) == Coarser(First, IF n = 1 THEN "gamma" ELSE "delta",
                          IF n = 3 THEN 2 ELSE 1) IN
    CASE at.stage = 0 -> Uses(Slots \cup opt(1), Temp1(1 .. 3))
      [] at.stage = 1 -> Uses(Temp1(1 .. 3), Temp2(Wide))
      [] at.stage = 2 -> Uses(Temp2(Wide), Temp1(Wide))
      [] at.stage = 3 -> Uses(Temp1(Wide), Temp2(Wide))
      [] at.stage = 4 -> Uses(Temp2(Wide) \cup opt(1) \cup Difference,
                              {Image("delta", at.level, 1)})
      [] at.stage = 5 -> Uses(Slots \cup opt(1) \cup opt(2), Temp2(Narrow))
      [] at.stage = 6 -> Uses(Temp2(Narrow), Temp1(Narrow))
      [] at.stage = 7 -> Uses(Temp1(Narrow), Temp2(Narrow))
      [] at.stage = 8 -> Uses(Temp2(Narrow), Temp1(Narrow))
      [] at.stage = 9 -> Uses(Temp1(Narrow) \cup opt(3),
                              {Image("delta", at.level, 2)})

\* The second chain does not hold its writes back.
DeltaBarriers_NoHold ==
    LET opt(n) == Coarser(First, IF n = 1 THEN "gamma" ELSE "delta",
                          IF n = 3 THEN 2 ELSE 1) IN
    IF at.stage = 5 THEN Uses(Slots \cup opt(1) \cup opt(2), {})
                    ELSE DeltaBindings
DeltaBarriers ==
    LET opt(n) == Coarser(First, IF n = 1 THEN "gamma" ELSE "delta",
                          IF n = 3 THEN 2 ELSE 1) IN
    CASE at.stage = 0 -> Uses(Slots \cup opt(1), Temp1(1 .. 3))
      [] at.stage = 1 -> Uses(Temp1(1 .. 3), Temp2(Wide))
      [] at.stage = 2 -> Uses(Temp2(Wide), Temp1(Most))
      [] at.stage = 3 -> Uses(Temp1(Most), Temp2(Wide))
      [] at.stage = 4 -> Uses(Temp2(Wide) \cup opt(1) \cup Difference,
                              {Image("delta", at.level, 1)})
      [] at.stage = 5 -> Uses(Slots \cup opt(1) \cup opt(2), Temp2(1 .. 2))
      [] at.stage = 6 -> Uses(Temp2(1 .. 2), Temp1(1 .. 2))
      [] at.stage = 7 -> Uses(Temp1(1 .. 2), Temp2(1 .. 2))
      [] at.stage = 8 -> Uses(Temp2(1 .. 2), Temp1(1 .. 2))
      [] at.stage = 9 -> Uses(Temp1(1 .. 2) \cup opt(3),
                              {Image("delta", at.level, 2)})

DeltaValue ==
    LET gamma == Coarser(First, "gamma", 1)
        delta(n) == Coarser(First, "delta", n) IN
    CASE at.stage = 0 -> Guided(Warp(Fine), gamma)
      [] at.stage = 4 -> Joined(Passed(Temp2(Wide)), gamma)
      [] at.stage = 5 -> Guided(Warp(Fine), gamma \cup delta(1))
      [] at.stage = 9 -> Guided(Passed(Temp1(Narrow)), delta(2))
      [] OTHER        -> Passed(DeltaBindings.reads)

Finest == {Image("gamma", Levels - 1, 1), Image("delta", Levels - 1, 1),
           Image("delta", Levels - 1, 2)}
GenerateBindings == Uses({In(0), In(1)} \cup Finest, {Out(at.pass)})
GenerateBarriers == Uses({In(0), In(1)} \cup Finest, {Out(at.pass)})
GenerateValue ==
    LET flow == Content(Image("gamma", Levels - 1, 1))
        j    == frame % 2
    IN  IF flow.time = Time
        THEN Guided([flow EXCEPT !.from = Content(In(1 - j)).cur,
                                 !.to = Content(In(j)).cur], Finest)
        ELSE Mixed

-----------------------------------------------------------------------------
(* One batch: Context::present. *)

At(part, level, stage, pass) ==
    [part |-> part, level |-> level, stage |-> stage, pass |-> pass]

Idle == At("idle", 0, 0, 0)

Init ==
    /\ build \in Builds
    /\ frame = 0 /\ active = 0 /\ seeded = None
    /\ batch = [gens |-> 0, count |-> 0, graph |-> 0, seed |-> FALSE]
    /\ at = Idle /\ ready = FALSE
    /\ content = <<>>
    /\ dirty = {} /\ held = {} /\ owned = {}

\* What is carried from one batch to the next: the temporal slots.
Carried == {i \in DOMAIN content : i[2] = "alpha"}

\* The frame is in its shared image, in both if it is the first.  A graph
\* requested since the last batch, or a history reset, seeds.
Begin ==
    /\ at = Idle /\ frame < MaxFrame
    /\ \E gens \in 0 .. MaxGenerated, graph \in Graphs, reset \in BOOLEAN :
       \E count \in IF gens = 0 THEN {0} ELSE gens .. MaxGenerated :
         batch' = [gens |-> gens, count |-> count, graph |-> graph,
                   seed |-> reset \/ graph # active]
    /\ content' =
         LET new == IF frame = 0 THEN SharedInputs ELSE {SharedIn(frame % 2)}
         IN  [i \in Carried \cup SharedInputs |->
                IF i \in new THEN [Blank EXCEPT !.cur = frame] ELSE content[i]]
    /\ seeded' = IF batch'.seed THEN frame ELSE seeded
    /\ at' = At("inputs", 0, 0, 0)
    /\ UNCHANGED <<build, frame, active, ready, dirty, held, owned>>

\* The shared inputs are acquired for the whole batch, or copied at once.  The
\* copy waits for no earlier read of its targets: the frame could only be
\* written once the batches that read them were over (SourceHistory).
AcquireInputs ==
    /\ at.part = "inputs"
    /\ IF build.inputCopy
       THEN content' = [i \in DOMAIN content \cup {In(0), In(1)} |->
                          IF i = In(0) THEN content[SharedIn(0)]
                          ELSE IF i = In(1) THEN content[SharedIn(1)]
                          ELSE content[i]]
            /\ UNCHANGED owned
       ELSE owned' = owned \cup SharedInputs /\ UNCHANGED content
    /\ held' = held \ {In(0), In(1)}
    /\ at' = At("mipmaps", 0, 0, 0)
    /\ UNCHANGED <<build, frame, active, batch, ready, dirty, seeded>>

Bindings ==
    CASE at.part = "mipmaps"  -> MipmapsBindings
      [] at.part = "alpha"    -> AlphaBindings
      [] at.part = "beta"     -> BetaBindings
      [] at.part = "gamma"    -> GammaBindings
      [] at.part = "delta"    -> DeltaBindings
      [] at.part = "generate" -> GenerateBindings

Barriers ==
    CASE at.part = "mipmaps"  -> MipmapsBarriers
      [] at.part = "alpha"    -> AlphaBarriers
      [] at.part = "beta"     -> BetaBarriers
      [] at.part = "gamma"    -> GammaBarriers
      [] at.part = "delta"    -> DeltaBarriers
      [] at.part = "generate" -> GenerateBarriers

Shaders == {"mipmaps", "alpha", "beta", "gamma", "delta", "generate"}

\* BarrierBuilder::build: W2R for what is read, R2W for what is written.
Barrier ==
    /\ at.part \in Shaders /\ ~ready
    /\ \E b \in {Barriers} : dirty' = dirty \ b.reads /\ held' = held \ b.writes
    /\ ready' = TRUE
    /\ UNCHANGED <<build, frame, active, batch, at, content, owned, seeded>>

Run(part, value) ==
    /\ at.part = part /\ ready
    /\ \E u \in {Bindings}, v \in {value} :
         /\ content' = [i \in DOMAIN content \cup u.writes |->
                          IF i \in u.writes THEN v ELSE content[i]]
         /\ dirty' = dirty \cup u.writes
         /\ held' = held \cup u.reads
    /\ ready' = FALSE
    /\ UNCHANGED <<build, frame, active, batch, owned, seeded>>

\* What follows the features: the differences, or nothing.
AfterAlpha == IF batch.gens > 0 THEN At("beta", 0, 0, 0) ELSE At("unused", 0, 0, 0)

Mipmaps == Run("mipmaps", MipmapsValue) /\ at' = At("alpha", Levels - 1, 0, 0)

Alpha ==
    /\ Run("alpha", Passed(AlphaBindings.reads))
    /\ at' = IF at.stage < AlphaStages THEN [at EXCEPT !.stage = @ + 1]
             ELSE IF at.level > 0 THEN At("alpha", at.level - 1, 0, 0)
             ELSE AfterAlpha

Beta ==
    /\ Run("beta", BetaValue)
    /\ at' = IF at.stage < 4 THEN [at EXCEPT !.stage = @ + 1]
             ELSE At("acquire", 0, 0, 0)

\* A zero-generation batch returns its inputs at once.
ReleaseUnused ==
    /\ at.part = "unused"
    /\ owned' = owned \ SharedInputs
    /\ at' = At("end", 0, 0, 0)
    /\ UNCHANGED <<build, frame, active, batch, ready, content, dirty, held, seeded>>

AcquireOutput ==
    /\ at.part = "acquire"
    /\ owned' = IF build.outputCopy THEN owned ELSE owned \cup {SharedOut(at.pass)}
    /\ at' = At("gamma", 0, 0, at.pass)
    /\ UNCHANGED <<build, frame, active, batch, ready, content, dirty, held, seeded>>

Gamma ==
    /\ Run("gamma", GammaValue)
    /\ at' = IF at.stage < 4 THEN [at EXCEPT !.stage = @ + 1]
             ELSE IF at.level < First THEN At("gamma", at.level + 1, 0, at.pass)
             ELSE At("delta", at.level, 0, at.pass)

Delta ==
    /\ Run("delta", DeltaValue)
    /\ at' = IF at.stage < 9 THEN [at EXCEPT !.stage = @ + 1]
             ELSE IF at.level < Levels - 1 THEN At("gamma", at.level + 1, 0, at.pass)
             ELSE At("generate", 0, 0, at.pass)

Generate == Run("generate", GenerateValue) /\ at' = At("release", 0, 0, at.pass)

\* Every pass returns the inputs.
LastPass_Every == TRUE
\* Only the last pass returns the inputs with its output.
LastPass == at.pass + 1 = batch.gens

\* The output is returned, or copied and the copy returned.
ReleaseOutput ==
    /\ at.part = "release"
    /\ content' = [i \in DOMAIN content \cup {SharedOut(at.pass)} |->
                     IF i = SharedOut(at.pass) THEN content[Out(at.pass)]
                     ELSE content[i]]
    /\ dirty' = dirty \ {Out(at.pass)}
    /\ held' = held \ {Out(at.pass)}
    /\ owned' = owned \ (IF LastPass THEN Shared ELSE {SharedOut(at.pass)})
    /\ at' = IF at.pass + 1 < batch.gens THEN At("acquire", 0, 0, at.pass + 1)
             ELSE At("end", 0, 0, 0)
    /\ UNCHANGED <<build, frame, active, batch, ready, seeded>>

\* commitAdaptiveFlowTransition, and the next frame.
Return ==
    /\ at.part = "end"
    /\ active' = batch.graph
    /\ frame' = frame + 1
    /\ at' = Idle
    /\ UNCHANGED <<build, batch, ready, content, dirty, held, owned, seeded>>

Next ==
    \/ Begin \/ AcquireInputs \/ Barrier \/ Mipmaps \/ Alpha \/ Beta
    \/ ReleaseUnused \/ AcquireOutput \/ Gamma \/ Delta \/ Generate
    \/ ReleaseOutput \/ Return

Spec == Init /\ [][Next]_vars

-----------------------------------------------------------------------------
(* Properties. *)

\* No dispatch reads an image whose last write no barrier made visible, or
\* overwrites one that an earlier dispatch may still be reading: within a
\* batch, across passes, batches and flow graphs, seeded or not, in both shader
\* variants.
Barriered ==
    ready => /\ Bindings.reads \cap dirty = {}
             /\ Bindings.writes \cap held = {}

\* Shared images are used only between their acquisition and their release, and
\* none is kept when the batch returns.
SharedIsOwned ==
    /\ ready => (Bindings.reads \cup Bindings.writes) \cap Shared \subseteq owned
    /\ at.part \in {"end", "idle"} => owned = {}

\* The frame of which a slot holds the features: seeding made every older one
\* equal to its own.
Since(n) == IF n < seeded THEN seeded ELSE n
Earlier  == IF frame = 0 THEN 0 ELSE frame - 1

\* A temporal slot has been written for this frame and the two before it.
Warm == seeded # None \/ frame >= 2

\* Every generated frame lies between the two newest sources, at its own time
\* of the count it was prebuilt for, along a flow of exactly these two frames
\* (and the one before), or of the frames since the history was seeded: across
\* slot reuse, zero-generation batches, resets and changes of the flow graph.
InterpolatesOwnPair ==
    at.part = "end" /\ Warm =>
      \A p \in 0 .. batch.gens - 1 :
        Content(SharedOut(p)) =
          [from |-> Earlier, to |-> frame,
           before |-> Since(frame - 2), prev |-> Since(frame - 1), cur |-> frame,
           time |-> <<p + 1, batch.count + 1>>]
=============================================================================
