-------------------------- MODULE PassGraph_proofs --------------------------
(***************************************************************************)
(* The shader graph, for every number of levels, deltas, generated frames, *)
(* flow graphs and batches, and for all variants of a build.               *)
(*                                                                         *)
(* The control of a batch is one invariant, Inv: where the recording can   *)
(* be (Place), what a batch was asked (Numbers), and which shared images   *)
(* are acquired at each part (Use).  What the images hold is another,      *)
(* Data, and it needs the first: Sources says which frame each input is,   *)
(* Features which frame every temporal slot holds the features of, level   *)
(* by level while alpha overwrites them, and Flow that the differences and *)
(* the coarse-to-fine chains carry the pair and the time of their pass.    *)
(***************************************************************************)
EXTENDS PassGraph, TLAPS

USE PassGraphAssumption

Pyramid == 0 .. Levels - 1

InBatch == at.part # "idle"

\* The parts after the features, those of a pass, and those of its flow.
Pass  == {"acquire", "gamma", "delta", "generate", "release"}
Later == {"beta", "unused", "end"} \cup Pass

Parts == Shaders \cup Pass \cup {"idle", "inputs", "unused", "end"}
Spots == [part : Parts, level : Nat, stage : Nat, pass : Nat]

\* Where the recording can be.
Place ==
    /\ at \in Spots
    /\ ready \in BOOLEAN
    /\ ready => at.part \in Shaders
    /\ at.part = "alpha" => at.level \in Pyramid /\ at.stage \in 0 .. AlphaStages
    /\ at.part = "beta" => at.stage \in 0 .. 4
    /\ at.part = "gamma" => at.level \in Pyramid /\ at.stage \in 0 .. 4
    /\ at.part = "delta" => at.level \in First .. Levels - 1 /\ at.stage \in 0 .. 9
    /\ at.part \in Pass => at.pass < batch.gens
    /\ at.part = "beta" => 0 < batch.gens
    /\ at.part = "unused" => batch.gens = 0

Numbers ==
    /\ build \in Builds
    /\ frame \in Nat /\ seeded \in Nat \cup {None}
    /\ batch \in [gens : 0 .. MaxGenerated, count : 0 .. MaxGenerated,
                  graph : Graphs, seed : BOOLEAN]
    /\ IF InBatch THEN /\ seeded <= frame
                       /\ IF batch.seed THEN seeded = frame ELSE batch.graph = active
                  ELSE seeded < frame

\* The shared images that a part needs.
Acquired(part, pass) ==
    IF part \in {"idle", "inputs", "end"} THEN {}
    ELSE (IF build.inputCopy THEN {} ELSE SharedInputs)
           \cup (IF part \in {"gamma", "delta", "generate", "release"} /\ ~build.outputCopy
                 THEN {SharedOut(pass)} ELSE {})

Use == owned = Acquired(at.part, at.pass)

-----------------------------------------------------------------------------
(* What the images hold *)

\* Features of frame n.
Of(n) == [Blank EXCEPT !.cur = n]

\* The sources of a batch, where they are shared and where they are bound.
Sources ==
    /\ InBatch \/ frame > 0 => SharedInputs \subseteq DOMAIN content
    /\ ~InBatch /\ frame > 0 => Content(SharedIn((frame - 1) % 2)) = Of(frame - 1)
    /\ InBatch => /\ Content(SharedIn(frame % 2)) = Of(frame)
                  /\ Content(SharedIn(1 - (frame % 2))) = Of(Earlier)
    /\ at.part \notin {"idle", "inputs"} =>
         /\ Content(In(frame % 2)) = Of(frame)
         /\ Content(In(1 - (frame % 2))) = Of(Earlier)

\* A slot of a level holds the features of frame n, if there is such a frame.
Holds(graph, level, n) ==
    n >= 0 \/ seeded # None =>
        Content(<<graph, "alpha", level, (n + 3) % 3>>) = Of(Since(n))

Before(graph, level) == \A n \in {frame - 2, frame - 1} : Holds(graph, level, n)
Now(level) == \A n \in {frame - 2, frame - 1, frame} : Holds(batch.graph, level, n)

Slot(level, k) == Content(Image("alpha", level, k))

Features ==
    /\ ~InBatch => \A l \in Pyramid : Before(active, l)
    /\ at.part \in {"inputs", "mipmaps"} /\ ~batch.seed =>
         \A l \in Pyramid : Before(batch.graph, l)
    /\ at.part = "alpha" =>
         /\ \A l \in Pyramid :
              /\ Content(Image("mip", 0, l)) = Of(frame)
              /\ l <= at.level /\ ~batch.seed => Before(batch.graph, l)
              /\ l > at.level => Now(l)
         /\ at.stage \in {1, 2} => Content(Image("alpha.temp", at.level, at.stage)) = Of(frame)
         /\ at.stage >= 3 => Content(Image("alpha.temp", at.level, 3)) = Of(frame)
         /\ at.stage > 3 => Slot(at.level, frame % 3) = Of(frame)
         /\ at.stage > 4 => Slot(at.level, (frame + 1) % 3) = Of(frame)
    /\ at.part \in Later => \A l \in Pyramid : Now(l)

-----------------------------------------------------------------------------
(* What the stages of a warm batch pass on *)

Differs == [Blank EXCEPT !.before = Since(frame - 2), !.prev = Since(frame - 1),
                         !.cur = frame]
Warped(p) == [Blank EXCEPT !.prev = Since(frame - 1), !.cur = frame,
                           !.time = <<p + 1, batch.count + 1>>]
Flowing(p) == [Warped(p) EXCEPT !.before = Since(frame - 2)]
Result(p) == [Flowing(p) EXCEPT !.from = Earlier, !.to = frame]

Full(images, value) == \A i \in images : Content(i) = value

Refined(level, part, n, value) == Content(Image(part, level, n)) = value

\* The differences, from their first stage to the passes.
Differences ==
    /\ at.part = "beta" =>
         /\ at.stage \in {1, 3} => Full({Image("beta.temp", 0, 1)}, Differs)
         /\ at.stage \in {2, 4} => Full({Image("beta.temp", 0, 2)}, Differs)
    /\ at.part \in Pass => Full(BetaOuts, Differs)

\* The temporaries that the next stage of a flow reads.
Temporaries ==
    at.part \in {"gamma", "delta"} =>
      /\ at.stage = 1 => Full(Temp1(1 .. 3), Warped(at.pass))
      /\ at.stage \in {2, 4} => Full(Temp2(Wide), Warped(at.pass))
      /\ at.stage = 3 => Full(Temp1(Wide), Warped(at.pass))
      /\ at.stage \in {6, 8} => Full(Temp2(Narrow), Warped(at.pass))
      /\ at.stage \in {7, 9} => Full(Temp1(Narrow), Warped(at.pass))

\* The results of the levels refined so far in this pass.
Guides ==
    /\ at.part \in {"gamma", "delta"} =>
         /\ at.level > 0 => Refined(at.level - 1, "gamma", 1, Flowing(at.pass))
         /\ at.level > First => /\ Refined(at.level - 1, "delta", 1, Flowing(at.pass))
                                /\ Refined(at.level - 1, "delta", 2, Warped(at.pass))
    /\ at.part = "delta" =>
         /\ Refined(at.level, "gamma", 1, Flowing(at.pass))
         /\ at.stage >= 5 => Refined(at.level, "delta", 1, Flowing(at.pass))
    /\ at.part = "generate" =>
         /\ Refined(Levels - 1, "gamma", 1, Flowing(at.pass))
         /\ Refined(Levels - 1, "delta", 1, Flowing(at.pass))
         /\ Refined(Levels - 1, "delta", 2, Warped(at.pass))

\* The frames generated so far.
Outputs ==
    /\ at.part = "release" => Content(Out(at.pass)) = Result(at.pass)
    /\ at.part \in Pass =>
         \A p \in Nat : p < at.pass => Content(SharedOut(p)) = Result(p)
    /\ at.part = "end" =>
         \A p \in Nat : p < batch.gens => Content(SharedOut(p)) = Result(p)

Flow == Differences /\ Temporaries /\ Guides /\ Outputs

Inv == Place /\ Numbers /\ Barriered /\ Use
Data == Sources /\ Features /\ (InBatch /\ Warm => Flow)

-----------------------------------------------------------------------------
(* Images and places *)

\* Images of one context are told apart by their name.
LEMMA Names ==
    /\ \A name, level, K : \A i \in Array(name, level, K) : i[2] = name
    /\ \A name, level, k : Image(name, level, k)[2] = name
    /\ \A i \in Shared : i[2] \in {"in", "sharedIn", "out", "sharedOut"}
  BY DEF Array, Image, Shared, SharedInputs, SharedIn, SharedOut, In, Out

\* The barriers of a dispatch list what its descriptor set is built with.
LEMMA BarriersCover ==
    ASSUME Place, Numbers, at.part \in Shaders
    PROVE  /\ Bindings.reads \subseteq Barriers.reads
           /\ Bindings.writes \subseteq Barriers.writes
  <1>1. CASE at.part = "mipmaps"
    BY <1>1 DEF Bindings, Barriers, MipmapsBindings, MipmapsBarriers
  <1>2. CASE at.part = "alpha"
    BY <1>2 DEF Bindings, Barriers, AlphaBindings, AlphaBarriers
  <1>3. CASE at.part = "beta"
    BY <1>3 DEF Bindings, Barriers, BetaBindings, BetaBarriers
  <1>4. CASE at.part = "gamma"
    BY <1>4 DEF Bindings, Barriers, GammaBindings, GammaBarriers
  <1>5. CASE at.part = "delta"
    <2>1. /\ Temp1(Wide) \subseteq Temp1(Most)
          /\ Temp1(Narrow) \subseteq Temp1(1 .. 2) /\ Temp2(Narrow) \subseteq Temp2(1 .. 2)
      BY DEF Temp1, Temp2, Array, Wide, Most, Narrow
    <2>2. Bindings = DeltaBindings /\ Barriers = DeltaBarriers
      BY <1>5 DEF Bindings, Barriers
    <2>3. at.stage \in 0 .. 9
      BY <1>5 DEF Place
    <2>4. CASE at.stage \in {0, 1, 4}
      BY <2>2, <2>4 DEF DeltaBindings, DeltaBarriers
    <2>5. CASE at.stage = 2
      BY <2>1, <2>2, <2>5 DEF DeltaBindings, DeltaBarriers, Uses
    <2>6. CASE at.stage = 3
      BY <2>1, <2>2, <2>6 DEF DeltaBindings, DeltaBarriers, Uses
    <2>7. CASE at.stage = 5
      BY <2>1, <2>2, <2>7 DEF DeltaBindings, DeltaBarriers, Uses
    <2>8. CASE at.stage = 6
      BY <2>1, <2>2, <2>8 DEF DeltaBindings, DeltaBarriers, Uses
    <2>9. CASE at.stage = 7
      BY <2>1, <2>2, <2>9 DEF DeltaBindings, DeltaBarriers, Uses
    <2>10. CASE at.stage = 8
      BY <2>1, <2>2, <2>10 DEF DeltaBindings, DeltaBarriers, Uses
    <2>11. CASE at.stage = 9
      BY <2>1, <2>2, <2>11 DEF DeltaBindings, DeltaBarriers, Uses
    <2> QED BY <2>3, <2>4, <2>5, <2>6, <2>7, <2>8, <2>9, <2>10, <2>11
  <1>6. CASE at.part = "generate"
    BY <1>6 DEF Bindings, Barriers, GenerateBindings, GenerateBarriers
  <1> QED BY <1>1, <1>2, <1>3, <1>4, <1>5, <1>6 DEF Shaders

\* A stage follows the other.
LEMMA NextStage ==
    ASSUME Place, at' = [at EXCEPT !.stage = at.stage + 1]
    PROVE  /\ at'.part = at.part /\ at'.level = at.level
           /\ at'.stage = at.stage + 1 /\ at'.pass = at.pass
           /\ at' \in Spots
  BY DEF Place, Spots

\* A part begins.
LEMMA NextPart ==
    ASSUME NEW part \in Parts, NEW level \in Nat, NEW pass \in Nat,
           at' = At(part, level, 0, pass)
    PROVE  /\ at'.part = part /\ at'.level = level
           /\ at'.stage = 0 /\ at'.pass = pass
           /\ at' \in Spots
           /\ at'.stage \in 0 .. 4 /\ at'.stage \in 0 .. 9
  BY DEF At, Spots

\* A batch goes on: what it was asked does not change.
Going == UNCHANGED <<build, frame, active, batch, seeded>>

-----------------------------------------------------------------------------
(* The steps, as to where the recording is and what it may use *)

\* A new context has recorded and acquired nothing.
LEMMA InitInv == Init => Inv
  <1> SUFFICES ASSUME Init PROVE Inv
    OBVIOUS
  <1>1. /\ at.part = "idle" /\ at.level = 0 /\ at.stage = 0 /\ at.pass = 0
        /\ at \in Spots
    BY DEF Init, Idle, At, Spots, Parts
  <1>2. Place
    BY <1>1 DEF Init, Place, Shaders, Pass
  <1>3. Numbers
    BY <1>1 DEF Init, Numbers, InBatch, None
  <1>4. Barriered /\ Use
    BY <1>1 DEF Init, Barriered, Use, Acquired
  <1> QED BY <1>2, <1>3, <1>4 DEF Inv

\* The same images are shared throughout a batch.
LEMMA SharedStay ==
    ASSUME UNCHANGED build
    PROVE  /\ SharedInputs' = SharedInputs
           /\ \A p : SharedOut(p)' = SharedOut(p)
           /\ \A part, p : Acquired(part, p)' = Acquired(part, p)
  <1>1. SharedInputs' = SharedInputs /\ \A p : SharedOut(p)' = SharedOut(p)
    BY DEF SharedInputs, SharedIn, SharedOut
  <1> QED BY <1>1 DEF Acquired

\* A dispatch moves the recording on within a batch.
LEMMA RunKeepsInv ==
    ASSUME Inv, NEW part \in Shaders, NEW value, Run(part, value), Place',
           at'.part # "idle", Acquired(at'.part, at'.pass) = Acquired(at.part, at.pass)
    PROVE  Inv'
  <1>1. /\ at.part = part /\ ready' = FALSE /\ owned' = owned /\ Going
    BY DEF Run, Going
  <1>2. Numbers'
    BY <1>1 DEF Inv, Numbers, Going, InBatch, Shaders
  <1>3. Use'
    <2>1. Acquired(at.part, at.pass) = owned
      BY DEF Inv, Use
    <2>2. \A x, y : Acquired(x, y)' = Acquired(x, y)
      BY <1>1, SharedStay DEF Going
    <2> QED BY <1>1, <2>1, <2>2 DEF Use
  <1> QED BY <1>1, <1>2, <1>3 DEF Inv, Barriered

\* The features begin with the coarsest level.
LEMMA MipmapsKeepsInv == ASSUME Inv, Mipmaps PROVE Inv'
  <1>0. at.part = "mipmaps" /\ ready' = FALSE /\ Going
    BY DEF Mipmaps, Run, Going
  <1>1. /\ Run("mipmaps", MipmapsValue)
        /\ at' = At("alpha", Levels - 1, 0, 0)
    BY DEF Mipmaps, Run, Going
  <1>2. AlphaStages' = AlphaStages /\ AlphaStages \in Nat /\ 0 \in 0 .. AlphaStages
    BY <1>0 DEF AlphaStages, Going
  <1>3. Inv'
    <2>1. Levels - 1 \in Pyramid /\ Levels - 1 \in Nat
      BY <1>2 DEF Pyramid, First
    <2>2. /\ at'.part = "alpha" /\ at'.level = Levels - 1
          /\ at'.stage = 0 /\ at'.pass = 0 /\ at' \in Spots
          /\ at'.stage \in 0 .. 4 /\ at'.stage \in 0 .. 9
      <3>1. at' = At("alpha", Levels - 1, 0, 0)
        BY <1>1
      <3>2. "alpha" \in Parts
        BY DEF Parts, Shaders, Pass
      <3> QED BY <1>2, <2>1, <3>1, <3>2, NextPart
    <2>3. Place'
      BY <1>0, <1>2, <2>2, <2>1 DEF Place, Pass, Shaders, Going
    <2>4. Acquired(at'.part, at'.pass) = Acquired(at.part, at.pass)
      BY <1>0, <2>2 DEF Acquired
    <2> QED BY <1>0, <1>1, <2>2, <2>3, <2>4, RunKeepsInv DEF Shaders
  <1> QED BY <1>3

\* A level has its stages, then comes the next finer one, then what follows.
LEMMA AlphaKeepsInv == ASSUME Inv, Alpha PROVE Inv'
  <1>0. at.part = "alpha" /\ ready' = FALSE /\ Going
    BY DEF Alpha, Run, Going
  <1>1. /\ Run("alpha", Passed(AlphaBindings.reads))
        /\ at' = IF at.stage < AlphaStages THEN [at EXCEPT !.stage = at.stage + 1]
                 ELSE IF at.level > 0 THEN At("alpha", at.level - 1, 0, 0)
                 ELSE AfterAlpha
    BY DEF Alpha, Run, Going
  <1>2. /\ at.level \in Pyramid /\ at.level \in Nat /\ at.stage \in Nat
        /\ AlphaStages' = AlphaStages /\ AlphaStages \in Nat /\ batch.gens \in Nat
        /\ 0 \in 0 .. AlphaStages
    BY <1>0 DEF Inv, Place, AlphaStages, Going, Numbers, Spots
  <1>3. CASE at.stage < AlphaStages
    <2>1. /\ at'.part = at.part /\ at'.level = at.level
          /\ at'.stage = at.stage + 1 /\ at'.pass = at.pass /\ at' \in Spots
      BY <1>1, <1>3, NextStage DEF Inv
    <2>2. at.stage + 1 \in 0 .. AlphaStages
      BY <1>2, <1>3
    <2>3. Place'
      BY <1>0, <1>2, <2>1, <2>2 DEF Place, Pass, Shaders, Going
    <2>4. Acquired(at'.part, at'.pass) = Acquired(at.part, at.pass)
      BY <1>0, <2>1 DEF Acquired
    <2> QED BY <1>0, <1>1, <2>1, <2>3, <2>4, RunKeepsInv DEF Shaders
  <1>4. CASE ~(at.stage < AlphaStages) /\ at.level > 0
    <2>1. at.level - 1 \in Pyramid /\ at.level - 1 \in Nat
      BY <1>2, <1>4 DEF Pyramid, First
    <2>2. /\ at'.part = "alpha" /\ at'.level = at.level - 1
          /\ at'.stage = 0 /\ at'.pass = 0 /\ at' \in Spots
          /\ at'.stage \in 0 .. 4 /\ at'.stage \in 0 .. 9
      <3>1. at' = At("alpha", at.level - 1, 0, 0)
        BY <1>1, <1>4
      <3>2. "alpha" \in Parts
        BY DEF Parts, Shaders, Pass
      <3> QED BY <1>2, <2>1, <3>1, <3>2, NextPart
    <2>3. Place'
      BY <1>0, <1>2, <2>2, <2>1 DEF Place, Pass, Shaders, Going
    <2>4. Acquired(at'.part, at'.pass) = Acquired(at.part, at.pass)
      BY <1>0, <2>2 DEF Acquired
    <2> QED BY <1>0, <1>1, <2>2, <2>3, <2>4, RunKeepsInv DEF Shaders
  <1>5. CASE ~(at.stage < AlphaStages) /\ ~(at.level > 0) /\ batch.gens > 0
    <2>1. 0 < batch.gens
      BY <1>2, <1>5 DEF Pyramid, First
    <2>2. /\ at'.part = "beta" /\ at'.level = 0
          /\ at'.stage = 0 /\ at'.pass = 0 /\ at' \in Spots
          /\ at'.stage \in 0 .. 4 /\ at'.stage \in 0 .. 9
      <3>1. at' = At("beta", 0, 0, 0)
        BY <1>1, <1>5 DEF AfterAlpha
      <3>2. "beta" \in Parts
        BY DEF Parts, Shaders, Pass
      <3> QED BY <1>2, <2>1, <3>1, <3>2, NextPart
    <2>3. Place'
      BY <1>0, <1>2, <2>2, <2>1 DEF Place, Pass, Shaders, Going
    <2>4. Acquired(at'.part, at'.pass) = Acquired(at.part, at.pass)
      BY <1>0, <2>2 DEF Acquired
    <2> QED BY <1>0, <1>1, <2>2, <2>3, <2>4, RunKeepsInv DEF Shaders
  <1>6. CASE ~(at.stage < AlphaStages) /\ ~(at.level > 0) /\ ~(batch.gens > 0)
    <2>1. batch.gens = 0
      BY <1>2, <1>6 DEF Pyramid, First
    <2>2. /\ at'.part = "unused" /\ at'.level = 0
          /\ at'.stage = 0 /\ at'.pass = 0 /\ at' \in Spots
          /\ at'.stage \in 0 .. 4 /\ at'.stage \in 0 .. 9
      <3>1. at' = At("unused", 0, 0, 0)
        BY <1>1, <1>6 DEF AfterAlpha
      <3>2. "unused" \in Parts
        BY DEF Parts, Shaders, Pass
      <3> QED BY <1>2, <2>1, <3>1, <3>2, NextPart
    <2>3. Place'
      BY <1>0, <1>2, <2>2, <2>1 DEF Place, Pass, Shaders, Going
    <2>4. Acquired(at'.part, at'.pass) = Acquired(at.part, at.pass)
      BY <1>0, <2>2 DEF Acquired
    <2> QED BY <1>0, <1>1, <2>2, <2>3, <2>4, RunKeepsInv DEF Shaders
  <1> QED BY <1>3, <1>4, <1>5, <1>6

\* The differences precede the first pass.
LEMMA BetaKeepsInv == ASSUME Inv, Beta PROVE Inv'
  <1>0. at.part = "beta" /\ ready' = FALSE /\ Going
    BY DEF Beta, Run, Going
  <1>1. /\ Run("beta", BetaValue)
        /\ at' = IF at.stage < 4 THEN [at EXCEPT !.stage = at.stage + 1]
                 ELSE At("acquire", 0, 0, 0)
    BY DEF Beta, Run, Going
  <1>2. at.stage \in 0 .. 4 /\ 0 < batch.gens /\ batch.gens \in Nat
    BY <1>0 DEF Inv, Place, Numbers
  <1>3. CASE at.stage < 4
    <2>1. /\ at'.part = at.part /\ at'.level = at.level
          /\ at'.stage = at.stage + 1 /\ at'.pass = at.pass /\ at' \in Spots
      BY <1>1, <1>3, NextStage DEF Inv
    <2>2. at.stage + 1 \in 0 .. 4
      BY <1>2, <1>3
    <2>3. Place'
      BY <1>0, <1>2, <2>1, <2>2 DEF Place, Pass, Shaders, Going
    <2>4. Acquired(at'.part, at'.pass) = Acquired(at.part, at.pass)
      BY <1>0, <2>1 DEF Acquired
    <2> QED BY <1>0, <1>1, <2>1, <2>3, <2>4, RunKeepsInv DEF Shaders
  <1>4. CASE ~(at.stage < 4)
    <2>1. 0 < batch.gens
      BY <1>2, <1>4 DEF Pyramid, First
    <2>2. /\ at'.part = "acquire" /\ at'.level = 0
          /\ at'.stage = 0 /\ at'.pass = 0 /\ at' \in Spots
          /\ at'.stage \in 0 .. 4 /\ at'.stage \in 0 .. 9
      <3>1. at' = At("acquire", 0, 0, 0)
        BY <1>1, <1>4
      <3>2. "acquire" \in Parts
        BY DEF Parts, Shaders, Pass
      <3> QED BY <1>2, <2>1, <3>1, <3>2, NextPart
    <2>3. Place'
      BY <1>0, <1>2, <2>2, <2>1 DEF Place, Pass, Shaders, Going
    <2>4. Acquired(at'.part, at'.pass) = Acquired(at.part, at.pass)
      BY <1>0, <2>2 DEF Acquired
    <2> QED BY <1>0, <1>1, <2>2, <2>3, <2>4, RunKeepsInv DEF Shaders
  <1> QED BY <1>3, <1>4

\* A level that has a delta goes on with it, another with the next finer level.
LEMMA GammaKeepsInv == ASSUME Inv, Gamma PROVE Inv'
  <1>0. at.part = "gamma" /\ ready' = FALSE /\ Going
    BY DEF Gamma, Run, Going
  <1>1. /\ Run("gamma", GammaValue)
        /\ at' = IF at.stage < 4 THEN [at EXCEPT !.stage = at.stage + 1]
                 ELSE IF at.level < First THEN At("gamma", at.level + 1, 0, at.pass)
                 ELSE At("delta", at.level, 0, at.pass)
    BY DEF Gamma, Run, Going
  <1>2. /\ at.stage \in 0 .. 4 /\ at.level \in Pyramid /\ at.level \in Nat
        /\ at.pass < batch.gens /\ at.pass \in Nat /\ batch.gens \in Nat
    BY <1>0 DEF Inv, Place, Pass, Spots, Numbers
  <1>3. CASE at.stage < 4
    <2>1. /\ at'.part = at.part /\ at'.level = at.level
          /\ at'.stage = at.stage + 1 /\ at'.pass = at.pass /\ at' \in Spots
      BY <1>1, <1>3, NextStage DEF Inv
    <2>2. at.stage + 1 \in 0 .. 4
      BY <1>2, <1>3
    <2>3. Place'
      BY <1>0, <1>2, <2>1, <2>2 DEF Place, Pass, Shaders, Going
    <2>4. Acquired(at'.part, at'.pass) = Acquired(at.part, at.pass)
      BY <1>0, <2>1 DEF Acquired
    <2> QED BY <1>0, <1>1, <2>1, <2>3, <2>4, RunKeepsInv DEF Shaders
  <1>4. CASE ~(at.stage < 4) /\ at.level < First
    <2>1. at.level + 1 \in Pyramid /\ at.level + 1 \in Nat
      BY <1>2, <1>4 DEF Pyramid, First
    <2>2. /\ at'.part = "gamma" /\ at'.level = at.level + 1
          /\ at'.stage = 0 /\ at'.pass = at.pass /\ at' \in Spots
          /\ at'.stage \in 0 .. 4 /\ at'.stage \in 0 .. 9
      <3>1. at' = At("gamma", at.level + 1, 0, at.pass)
        BY <1>1, <1>4
      <3>2. "gamma" \in Parts
        BY DEF Parts, Shaders, Pass
      <3> QED BY <1>2, <2>1, <3>1, <3>2, NextPart
    <2>3. Place'
      BY <1>0, <1>2, <2>2, <2>1 DEF Place, Pass, Shaders, Going
    <2>4. Acquired(at'.part, at'.pass) = Acquired(at.part, at.pass)
      BY <1>0, <2>2 DEF Acquired
    <2> QED BY <1>0, <1>1, <2>2, <2>3, <2>4, RunKeepsInv DEF Shaders
  <1>5. CASE ~(at.stage < 4) /\ ~(at.level < First)
    <2>1. at.level \in First .. Levels - 1
      BY <1>2, <1>5 DEF Pyramid, First
    <2>2. /\ at'.part = "delta" /\ at'.level = at.level
          /\ at'.stage = 0 /\ at'.pass = at.pass /\ at' \in Spots
          /\ at'.stage \in 0 .. 4 /\ at'.stage \in 0 .. 9
      <3>1. at' = At("delta", at.level, 0, at.pass)
        BY <1>1, <1>5
      <3>2. "delta" \in Parts
        BY DEF Parts, Shaders, Pass
      <3> QED BY <1>2, <2>1, <3>1, <3>2, NextPart
    <2>3. Place'
      BY <1>0, <1>2, <2>2, <2>1 DEF Place, Pass, Shaders, Going
    <2>4. Acquired(at'.part, at'.pass) = Acquired(at.part, at.pass)
      BY <1>0, <2>2 DEF Acquired
    <2> QED BY <1>0, <1>1, <2>2, <2>3, <2>4, RunKeepsInv DEF Shaders
  <1> QED BY <1>3, <1>4, <1>5

\* The finest level is followed by the output.
LEMMA DeltaKeepsInv == ASSUME Inv, Delta PROVE Inv'
  <1>0. at.part = "delta" /\ ready' = FALSE /\ Going
    BY DEF Delta, Run, Going
  <1>1. /\ Run("delta", DeltaValue)
        /\ at' = IF at.stage < 9 THEN [at EXCEPT !.stage = at.stage + 1]
                 ELSE IF at.level < Levels - 1 THEN At("gamma", at.level + 1, 0, at.pass)
                 ELSE At("generate", 0, 0, at.pass)
    BY DEF Delta, Run, Going
  <1>2. /\ at.stage \in 0 .. 9 /\ at.level \in First .. Levels - 1 /\ at.level \in Nat
        /\ at.pass < batch.gens /\ at.pass \in Nat /\ batch.gens \in Nat
    BY <1>0 DEF Inv, Place, Pass, Spots, Numbers
  <1>3. CASE at.stage < 9
    <2>1. /\ at'.part = at.part /\ at'.level = at.level
          /\ at'.stage = at.stage + 1 /\ at'.pass = at.pass /\ at' \in Spots
      BY <1>1, <1>3, NextStage DEF Inv
    <2>2. at.stage + 1 \in 0 .. 9
      BY <1>2, <1>3
    <2>3. Place'
      BY <1>0, <1>2, <2>1, <2>2 DEF Place, Pass, Shaders, Going
    <2>4. Acquired(at'.part, at'.pass) = Acquired(at.part, at.pass)
      BY <1>0, <2>1 DEF Acquired
    <2> QED BY <1>0, <1>1, <2>1, <2>3, <2>4, RunKeepsInv DEF Shaders
  <1>4. CASE ~(at.stage < 9) /\ at.level < Levels - 1
    <2>1. at.level + 1 \in Pyramid /\ at.level + 1 \in Nat
      BY <1>2, <1>4 DEF Pyramid, First
    <2>2. /\ at'.part = "gamma" /\ at'.level = at.level + 1
          /\ at'.stage = 0 /\ at'.pass = at.pass /\ at' \in Spots
          /\ at'.stage \in 0 .. 4 /\ at'.stage \in 0 .. 9
      <3>1. at' = At("gamma", at.level + 1, 0, at.pass)
        BY <1>1, <1>4
      <3>2. "gamma" \in Parts
        BY DEF Parts, Shaders, Pass
      <3> QED BY <1>2, <2>1, <3>1, <3>2, NextPart
    <2>3. Place'
      BY <1>0, <1>2, <2>2, <2>1 DEF Place, Pass, Shaders, Going
    <2>4. Acquired(at'.part, at'.pass) = Acquired(at.part, at.pass)
      BY <1>0, <2>2 DEF Acquired
    <2> QED BY <1>0, <1>1, <2>2, <2>3, <2>4, RunKeepsInv DEF Shaders
  <1>5. CASE ~(at.stage < 9) /\ ~(at.level < Levels - 1)
    <2>1. at.pass \in Nat
      BY <1>2, <1>5 DEF Pyramid, First
    <2>2. /\ at'.part = "generate" /\ at'.level = 0
          /\ at'.stage = 0 /\ at'.pass = at.pass /\ at' \in Spots
          /\ at'.stage \in 0 .. 4 /\ at'.stage \in 0 .. 9
      <3>1. at' = At("generate", 0, 0, at.pass)
        BY <1>1, <1>5
      <3>2. "generate" \in Parts
        BY DEF Parts, Shaders, Pass
      <3> QED BY <1>2, <2>1, <3>1, <3>2, NextPart
    <2>3. Place'
      BY <1>0, <1>2, <2>2, <2>1 DEF Place, Pass, Shaders, Going
    <2>4. Acquired(at'.part, at'.pass) = Acquired(at.part, at.pass)
      BY <1>0, <2>2 DEF Acquired
    <2> QED BY <1>0, <1>1, <2>2, <2>3, <2>4, RunKeepsInv DEF Shaders
  <1> QED BY <1>3, <1>4, <1>5

\* The output is released next.
LEMMA GenerateKeepsInv == ASSUME Inv, Generate PROVE Inv'
  <1>0. at.part = "generate" /\ ready' = FALSE /\ Going
    BY DEF Generate, Run, Going
  <1>1. /\ Run("generate", GenerateValue)
        /\ at' = At("release", 0, 0, at.pass)
    BY DEF Generate, Run, Going
  <1>2. at.pass < batch.gens /\ at.pass \in Nat /\ batch.gens \in Nat
    BY <1>0 DEF Inv, Place, Pass, Spots, Numbers
  <1>3. Inv'
    <2>1. at.pass \in Nat
      BY <1>2 DEF Pyramid, First
    <2>2. /\ at'.part = "release" /\ at'.level = 0
          /\ at'.stage = 0 /\ at'.pass = at.pass /\ at' \in Spots
          /\ at'.stage \in 0 .. 4 /\ at'.stage \in 0 .. 9
      <3>1. at' = At("release", 0, 0, at.pass)
        BY <1>1
      <3>2. "release" \in Parts
        BY DEF Parts, Shaders, Pass
      <3> QED BY <1>2, <2>1, <3>1, <3>2, NextPart
    <2>3. Place'
      BY <1>0, <1>2, <2>2, <2>1 DEF Place, Pass, Shaders, Going
    <2>4. Acquired(at'.part, at'.pass) = Acquired(at.part, at.pass)
      BY <1>0, <2>2 DEF Acquired
    <2> QED BY <1>0, <1>1, <2>2, <2>3, <2>4, RunKeepsInv DEF Shaders
  <1> QED BY <1>3

\* What a dispatch is bound to depends on its place in its batch.
LEMMA BindingsStay ==
    ASSUME UNCHANGED <<build, frame, batch, at>>
    PROVE  Bindings' = Bindings
  BY DEF Bindings, MipmapsBindings, AlphaBindings, AlphaChain, AlphaSlot, BetaBindings,
     BetaChain, BetaOuts, GammaBindings, DeltaBindings, GenerateBindings, Array, Image,
     Slots, Fine, First, Temp1, Temp2, Wide, Narrow, Coarser, Difference, Finest, In, Out

\* The barriers cover what the dispatch is bound to.
LEMMA BarrierKeepsInv == ASSUME Inv, Barrier PROVE Inv'
  <1>1. /\ at.part \in Shaders /\ ready' = TRUE /\ Going /\ UNCHANGED <<at, owned>>
        /\ dirty' = dirty \ Barriers.reads /\ held' = held \ Barriers.writes
    BY DEF Barrier, Going
  <1>2. Place' /\ Numbers'
    BY <1>1 DEF Inv, Place, Numbers, Going, AlphaStages, InBatch
  <1>3. Use'
    BY <1>1, SharedStay DEF Inv, Use, Going
  <1>4. Barriered'
    <2>1. /\ Bindings.reads \subseteq Barriers.reads
          /\ Bindings.writes \subseteq Barriers.writes
      BY <1>1, BarriersCover DEF Inv
    <2>2. Bindings' = Bindings
      BY <1>1, BindingsStay DEF Going
    <2> QED BY <1>1, <2>1, <2>2 DEF Barriered
  <1> QED BY <1>2, <1>3, <1>4 DEF Inv

\* A batch begins with nothing acquired, and seeds where its graph is a new one.
LEMMA BeginKeepsInv == ASSUME Inv, Begin PROVE Inv'
  <1>1. PICK gens \in 0 .. MaxGenerated, graph \in Graphs, reset \in BOOLEAN :
          \E count \in IF gens = 0 THEN {0} ELSE gens .. MaxGenerated :
            batch' = [gens |-> gens, count |-> count, graph |-> graph,
                      seed |-> reset \/ graph # active]
    BY DEF Begin
  <1>2. /\ at = Idle /\ at' = At("inputs", 0, 0, 0)
        /\ UNCHANGED <<build, frame, active, ready, owned>>
        /\ seeded' = IF batch'.seed THEN frame ELSE seeded
    BY DEF Begin
  <1>3. /\ at.part = "idle" /\ at'.part = "inputs" /\ at' \in Spots /\ ready = FALSE
    <2>1. at.part = "idle"
      BY <1>2 DEF Idle, At
    <2>2. "inputs" \in Parts
      BY DEF Parts
    <2>3. at'.part = "inputs" /\ at' \in Spots
      BY <1>2, <2>2, NextPart
    <2>4. ready = FALSE
      BY <2>1 DEF Inv, Place, Shaders
    <2> QED BY <2>1, <2>3, <2>4
  <1>4. Place' /\ Barriered'
    BY <1>2, <1>3 DEF Place, Pass, Barriered
  <1>5. /\ batch' \in [gens : 0 .. MaxGenerated, count : 0 .. MaxGenerated,
                       graph : Graphs, seed : BOOLEAN]
        /\ ~batch'.seed => batch'.graph = active
    <2>1. PICK count \in 0 .. MaxGenerated :
            batch' = [gens |-> gens, count |-> count, graph |-> graph,
                      seed |-> reset \/ graph # active]
      BY <1>1
    <2>2. (reset \/ graph # active) \in BOOLEAN
      OBVIOUS
    <2>3. batch'.graph = graph /\ batch'.seed = (reset \/ graph # active)
      BY <2>1
    <2> QED BY <2>1, <2>2, <2>3
  <1>6. Numbers'
    BY <1>2, <1>3, <1>5 DEF Inv, Numbers, InBatch
  <1>7. Use'
    BY <1>2, <1>3 DEF Inv, Use, Acquired
  <1> QED BY <1>4, <1>6, <1>7 DEF Inv

\* The inputs are acquired for all of a batch, or copied.
LEMMA AcquireInputsKeepsInv == ASSUME Inv, AcquireInputs PROVE Inv'
  <1>1. /\ at.part = "inputs" /\ at' = At("mipmaps", 0, 0, 0) /\ UNCHANGED ready /\ Going
        /\ owned' = IF build.inputCopy THEN owned ELSE owned \cup SharedInputs
    BY DEF AcquireInputs, Going
  <1>2. at'.part = "mipmaps" /\ at' \in Spots /\ ready = FALSE
    <2>1. "mipmaps" \in Parts
      BY DEF Parts, Shaders
    <2> QED BY <1>1, <2>1, NextPart DEF Inv, Place, Shaders
  <1>3. Place' /\ Barriered' /\ Numbers'
    BY <1>1, <1>2 DEF Inv, Place, Pass, Barriered, Numbers, InBatch, Going
  <1>4. Use'
    BY <1>1, <1>2, SharedStay DEF Inv, Use, Acquired, Going
  <1> QED BY <1>3, <1>4 DEF Inv

\* A batch without passes returns its inputs, and has acquired no output.
LEMMA ReleaseUnusedKeepsInv == ASSUME Inv, ReleaseUnused PROVE Inv'
  <1>1. /\ at.part = "unused" /\ at' = At("end", 0, 0, 0) /\ UNCHANGED ready /\ Going
        /\ owned' = owned \ SharedInputs
    BY DEF ReleaseUnused, Going
  <1>2. at'.part = "end" /\ at' \in Spots /\ ready = FALSE
    <2>1. "end" \in Parts
      BY DEF Parts
    <2> QED BY <1>1, <2>1, NextPart DEF Inv, Place, Shaders
  <1>3. Place' /\ Barriered' /\ Numbers'
    BY <1>1, <1>2 DEF Inv, Place, Pass, Barriered, Numbers, InBatch, Going
  <1>4. Use'
    BY <1>1, <1>2 DEF Inv, Use, Acquired, Going
  <1> QED BY <1>3, <1>4 DEF Inv

\* Each pass acquires its output.
LEMMA AcquireOutputKeepsInv == ASSUME Inv, AcquireOutput PROVE Inv'
  <1>1. /\ at.part = "acquire" /\ at' = At("gamma", 0, 0, at.pass) /\ UNCHANGED ready /\ Going
        /\ owned' = IF build.outputCopy THEN owned ELSE owned \cup {SharedOut(at.pass)}
    BY DEF AcquireOutput, Going
  <1>2. at.pass \in Nat /\ at.pass < batch.gens /\ 0 \in Pyramid
    BY <1>1 DEF Inv, Place, Spots, Pass, Pyramid
  <1>3. /\ at'.part = "gamma" /\ at'.level = 0 /\ at'.pass = at.pass
        /\ at'.stage \in 0 .. 4 /\ at' \in Spots /\ ready = FALSE
    <2>1. "gamma" \in Parts
      BY DEF Parts, Shaders
    <2> QED BY <1>1, <1>2, <2>1, NextPart DEF Inv, Place, Shaders
  <1>4. Place' /\ Barriered' /\ Numbers'
    BY <1>1, <1>2, <1>3 DEF Inv, Place, Pass, Barriered, Numbers, InBatch, Going
  <1>5. Use'
    BY <1>1, <1>3, SharedStay DEF Inv, Use, Acquired, Going
  <1> QED BY <1>4, <1>5 DEF Inv

\* Each pass returns its output, the last one the inputs with it.
LEMMA ReleaseOutputKeepsInv == ASSUME Inv, ReleaseOutput PROVE Inv'
  <1>1. /\ at.part = "release" /\ UNCHANGED ready /\ Going
        /\ owned' = owned \ (IF LastPass THEN Shared ELSE {SharedOut(at.pass)})
        /\ at' = IF at.pass + 1 < batch.gens THEN At("acquire", 0, 0, at.pass + 1)
                 ELSE At("end", 0, 0, 0)
    BY DEF ReleaseOutput, Going
  <1>2. /\ at.pass \in Nat /\ at.pass < batch.gens /\ batch.gens \in 0 .. MaxGenerated
        /\ ready = FALSE
    BY <1>1 DEF Inv, Place, Spots, Pass, Shaders, Numbers
  <1>3. /\ "acquire" \in Parts /\ "end" \in Parts
    BY DEF Parts, Pass
  <1>4. owned = (IF build.inputCopy THEN {} ELSE SharedInputs)
                  \cup (IF build.outputCopy THEN {} ELSE {SharedOut(at.pass)})
    BY <1>1 DEF Inv, Use, Acquired
  <1>5. CASE at.pass + 1 < batch.gens
    <2>1. /\ at'.part = "acquire" /\ at'.pass = at.pass + 1 /\ at' \in Spots
      BY <1>1, <1>2, <1>3, <1>5, NextPart
    <2>2. Place' /\ Barriered' /\ Numbers'
      BY <1>1, <1>2, <1>5, <2>1 DEF Inv, Place, Pass, Barriered, Numbers, InBatch, Going
    <2>3. owned' = owned \ {SharedOut(at.pass)}
      BY <1>1, <1>2, <1>5 DEF LastPass
    <2>4. SharedOut(at.pass) \notin SharedInputs
      BY DEF SharedOut, SharedInputs, SharedIn, Out, In
    <2>5. Use'
      BY <1>1, <1>4, <2>1, <2>3, <2>4, SharedStay DEF Use, Acquired, Going
    <2> QED BY <2>2, <2>5 DEF Inv
  <1>6. CASE ~(at.pass + 1 < batch.gens)
    <2>1. /\ at'.part = "end" /\ at' \in Spots
      BY <1>1, <1>2, <1>3, <1>6, NextPart
    <2>2. Place' /\ Barriered' /\ Numbers'
      BY <1>1, <1>2, <2>1 DEF Inv, Place, Pass, Barriered, Numbers, InBatch, Going
    <2>3. owned' = owned \ Shared
      BY <1>1, <1>2, <1>6 DEF LastPass
    <2>4. owned \subseteq Shared
      BY <1>2, <1>4 DEF Shared
    <2>5. Use'
      BY <2>1, <2>3, <2>4 DEF Use, Acquired
    <2> QED BY <2>2, <2>5 DEF Inv
  <1> QED BY <1>5, <1>6

\* The next batch starts from nothing acquired.
LEMMA ReturnKeepsInv == ASSUME Inv, Return PROVE Inv'
  <1>1. /\ at.part = "end" /\ at' = Idle /\ frame' = frame + 1
        /\ UNCHANGED <<build, batch, ready, owned, seeded>>
    BY DEF Return
  <1>2. at'.part = "idle" /\ at' \in Spots /\ ready = FALSE
    BY <1>1 DEF Idle, At, Spots, Parts, Inv, Place, Shaders
  <1>3. Place' /\ Barriered'
    BY <1>1, <1>2 DEF Place, Pass, Barriered
  <1>4. Numbers'
    BY <1>1, <1>2 DEF Inv, Numbers, InBatch, None
  <1>5. Use'
    BY <1>1, <1>2 DEF Inv, Use, Acquired
  <1> QED BY <1>3, <1>4, <1>5 DEF Inv

\* Every step keeps the control of a batch.
LEMMA StepKeepsInv == Inv /\ [Next]_vars => Inv'
  <1> SUFFICES ASSUME Inv, [Next]_vars PROVE Inv'
    OBVIOUS
  <1>1. CASE UNCHANGED vars
    <2>1. Place' /\ Numbers'
      BY <1>1 DEF vars, Inv, Place, Numbers, AlphaStages, InBatch
    <2>2. Use'
      BY <1>1, SharedStay DEF vars, Inv, Use
    <2>3. Barriered'
      BY <1>1, BindingsStay DEF vars, Inv, Barriered
    <2> QED BY <2>1, <2>2, <2>3 DEF Inv
  <1> QED BY <1>1, BeginKeepsInv, AcquireInputsKeepsInv, BarrierKeepsInv, MipmapsKeepsInv,
             AlphaKeepsInv, BetaKeepsInv, ReleaseUnusedKeepsInv, AcquireOutputKeepsInv,
             GammaKeepsInv, DeltaKeepsInv, GenerateKeepsInv, ReleaseOutputKeepsInv,
             ReturnKeepsInv DEF Next

\* No dispatch reads an image whose last write no barrier made visible, or overwrites
\* one that an earlier dispatch may still be reading: the lists that every Dispatch
\* gives to its BarrierBuilder cover the descriptors its shader was built with, in
\* both variants (framegen/v3.1_src/shaders and framegen/v3.1p_src/shaders).
THEOREM BarriersSuffice == Spec => []Barriered
  <1>1. Init => Inv
    BY InitInv
  <1>2. Inv /\ [Next]_vars => Inv'
    BY StepKeepsInv
  <1>3. Inv => Barriered
    BY DEF Inv
  <1> QED BY <1>1, <1>2, <1>3, PTL DEF Spec

\* The stages between use images of their own.
LEMMA InnerImages ==
    ASSUME Place, at.part \in {"alpha", "beta", "gamma", "delta"},
           NEW i \in Bindings.reads \cup Bindings.writes
    PROVE  i \notin Shared
  <1> DEFINE Inner == {"mip", "alpha", "alpha.temp", "beta", "beta.temp", "gamma", "delta",
                       "gamma.temp1", "gamma.temp2", "delta.temp1", "delta.temp2"}
  <1>1. \A level, k : \A name \in Inner : Image(name, level, k)[2] \in Inner
    BY Names
  <1>2. \A level, K : \A name \in Inner : \A x \in Array(name, level, K) : x[2] \in Inner
    BY Names
  <1>3. ASSUME at.part = "alpha" PROVE i[2] \in Inner
    BY <1>1, <1>2, <1>3 DEF Bindings, AlphaBindings, AlphaChain, Uses, Place
  <1>4. ASSUME at.part = "beta" PROVE i[2] \in Inner
    BY <1>1, <1>2, <1>4 DEF Bindings, BetaBindings, BetaChain, BetaOuts, Uses, Place
  <1>5. ASSUME at.part = "gamma" PROVE i[2] \in Inner
    BY <1>1, <1>2, <1>5 DEF Bindings, GammaBindings, Slots, Temp1, Temp2, Coarser,
       Difference, Uses, Place
  <1>6. ASSUME at.part = "delta" PROVE i[2] \in Inner
    <2>1. \A K : \A x \in Temp1(K) \cup Temp2(K) : x[2] \in Inner
      BY <1>2 DEF Temp1, Temp2
    <2>2. \A first, n : \A x \in Coarser(first, "gamma", n) \cup Coarser(first, "delta", n) :
            x[2] \in Inner
      BY <1>1 DEF Coarser
    <2>3. \A x \in Slots \cup Difference : x[2] \in Inner
      BY <1>1, <1>2 DEF Slots, Difference
    <2>4. \A n : Image("delta", at.level, n)[2] \in Inner
      BY <1>1
    <2>5. at.stage \in 0 .. 9 /\ i \in DeltaBindings.reads \cup DeltaBindings.writes
      BY <1>6 DEF Place, Bindings
    <2> HIDE DEF Inner
    <2>6. CASE at.stage = 0
      BY <2>1, <2>2, <2>3, <2>5, <2>6 DEF DeltaBindings, Uses
    <2>7. CASE at.stage = 1
      BY <2>1, <2>5, <2>7 DEF DeltaBindings, Uses
    <2>8. CASE at.stage = 2
      BY <2>1, <2>5, <2>8 DEF DeltaBindings, Uses
    <2>9. CASE at.stage = 3
      BY <2>1, <2>5, <2>9 DEF DeltaBindings, Uses
    <2>10. CASE at.stage = 4
      BY <2>1, <2>2, <2>3, <2>4, <2>5, <2>10 DEF DeltaBindings, Uses
    <2>11. CASE at.stage = 5
      BY <2>1, <2>2, <2>3, <2>5, <2>11 DEF DeltaBindings, Uses
    <2>12. CASE at.stage = 6
      BY <2>1, <2>5, <2>12 DEF DeltaBindings, Uses
    <2>13. CASE at.stage = 7
      BY <2>1, <2>5, <2>13 DEF DeltaBindings, Uses
    <2>14. CASE at.stage = 8
      BY <2>1, <2>5, <2>14 DEF DeltaBindings, Uses
    <2>15. CASE at.stage = 9
      BY <2>1, <2>2, <2>4, <2>5, <2>15 DEF DeltaBindings, Uses
    <2> QED BY <2>5, <2>6, <2>7, <2>8, <2>9, <2>10, <2>11, <2>12, <2>13, <2>14, <2>15
  <1>7. i[2] \in Inner
    BY <1>3, <1>4, <1>5, <1>6
  <1> QED BY <1>7, Names

\* What a dispatch uses of the shared images has been acquired for it.
LEMMA InvGivesOwned == Inv => SharedIsOwned
  <1> SUFFICES ASSUME Inv PROVE SharedIsOwned
    OBVIOUS
  <1>1. at.part \in {"end", "idle"} => owned = {}
    BY DEF Inv, Use, Acquired
  <1>2. ASSUME ready PROVE (Bindings.reads \cup Bindings.writes) \cap Shared \subseteq owned
    <2>1. at.part \in Shaders
      BY <1>2 DEF Inv, Place
    <2>2. CASE at.part = "mipmaps"
      <3>1. /\ Bindings.reads = {In(frame % 2)}
            /\ Bindings.writes = Array("mip", 0, 0 .. Levels - 1)
        BY <2>2 DEF Bindings, MipmapsBindings, Uses
      <3>2. frame % 2 \in {0, 1}
        BY DEF Inv, Numbers
      <3>3. In(frame % 2) \in Shared => In(frame % 2) \in owned
        <4>1. owned = IF build.inputCopy THEN {} ELSE SharedInputs
          BY <2>2 DEF Inv, Use, Acquired
        <4>2. CASE build.inputCopy
          BY <4>2 DEF Shared, SharedInputs, SharedIn, SharedOut, In, Out
        <4>3. CASE ~build.inputCopy
          BY <3>2, <4>1, <4>3 DEF SharedInputs, SharedIn
        <4> QED BY <4>2, <4>3
      <3> QED BY <3>1, <3>3, Names
    <2>3. CASE at.part \in {"alpha", "beta", "gamma", "delta"}
      BY <2>3, InnerImages DEF Inv
    <2>4. CASE at.part = "generate"
      <3>1. /\ Bindings.reads = {In(0), In(1)} \cup Finest
            /\ Bindings.writes = {Out(at.pass)}
        BY <2>4 DEF Bindings, GenerateBindings, Uses
      <3>2. \A i \in Finest : i \notin Shared
        BY Names DEF Finest
      <3>3. owned = (IF build.inputCopy THEN {} ELSE SharedInputs)
                      \cup (IF build.outputCopy THEN {} ELSE {SharedOut(at.pass)})
        BY <2>4 DEF Inv, Use, Acquired
      <3>4. \A k \in {0, 1} : In(k) \in Shared => In(k) \in owned
        <4>1. CASE build.inputCopy
          BY <4>1 DEF Shared, SharedInputs, SharedIn, SharedOut, In, Out
        <4>2. CASE ~build.inputCopy
          BY <3>3, <4>2 DEF SharedInputs, SharedIn
        <4> QED BY <4>1, <4>2
      <3>5. Out(at.pass) \in Shared => Out(at.pass) \in owned
        <4>1. CASE build.outputCopy
          BY <4>1 DEF Shared, SharedInputs, SharedIn, SharedOut, In, Out
        <4>2. CASE ~build.outputCopy
          BY <3>3, <4>2 DEF SharedOut
        <4> QED BY <4>1, <4>2
      <3> QED BY <3>1, <3>2, <3>4, <3>5
    <2> QED BY <2>1, <2>2, <2>3, <2>4 DEF Shaders
  <1> QED BY <1>1, <1>2 DEF SharedIsOwned

\* The images shared with the other device are used only between the acquire and the
\* release barriers of Context::present, for batches with any number of passes and
\* none, with and without copying transports, and none is kept after it.
THEOREM SharedImagesAreOwned == Spec => []SharedIsOwned
  <1>1. Init => Inv
    BY InitInv
  <1>2. Inv /\ [Next]_vars => Inv'
    BY StepKeepsInv
  <1> QED BY <1>1, <1>2, InvGivesOwned, PTL DEF Spec

-----------------------------------------------------------------------------
(* What the stages compute *)

\* What a dispatch leaves in the images.
LEMMA Contents ==
    ASSUME NEW part, NEW value, Run(part, value)
    PROVE  /\ \A i : Content(i)' = IF i \in Bindings.writes THEN value ELSE Content(i)
           /\ DOMAIN content \subseteq DOMAIN content'
           /\ Going
  <1>1. /\ content' = [i \in DOMAIN content \cup Bindings.writes |->
                         IF i \in Bindings.writes THEN value ELSE content[i]]
        /\ Going
    BY DEF Run, Going
  <1> QED BY <1>1 DEF Content

\* What was asked of a batch stays, and with it what the stages are to compute.
LEMMA Frozen ==
    ASSUME Going
    PROVE  /\ Differs' = Differs /\ Earlier' = Earlier /\ (Warm' <=> Warm)
           /\ \A p : Warped(p)' = Warped(p) /\ Flowing(p)' = Flowing(p)
           /\ \A p : Result(p)' = Result(p)
           /\ \A n : Since(n)' = Since(n)
           /\ \A name, level, k : Image(name, level, k)' = Image(name, level, k)
           /\ \A name, level, K : Array(name, level, K)' = Array(name, level, K)
           /\ \A k : SharedIn(k)' = SharedIn(k) /\ SharedOut(k)' = SharedOut(k)
           /\ SharedInputs' = SharedInputs
           /\ BetaOuts' = BetaOuts /\ Wide' = Wide /\ Narrow' = Narrow
  <1>1. UNCHANGED <<build, frame, batch, seeded>>
    BY DEF Going
  <1>2. \A n : Since(n)' = Since(n)
    BY <1>1 DEF Since
  <1>3. Differs' = Differs /\ Earlier' = Earlier /\ (Warm' <=> Warm)
    BY <1>1, <1>2 DEF Differs, Earlier, Warm
  <1>4. \A p : Warped(p)' = Warped(p)
    BY <1>1, <1>2 DEF Warped
  <1>5. \A p : Flowing(p)' = Flowing(p)
    BY <1>1, <1>2, <1>4 DEF Flowing
  <1>6. \A p : Result(p)' = Result(p)
    BY <1>1, <1>3, <1>5 DEF Result
  <1>7. /\ \A name, level, k : Image(name, level, k)' = Image(name, level, k)
        /\ \A name, level, K : Array(name, level, K)' = Array(name, level, K)
    BY <1>1 DEF Image, Array
  <1>8. /\ \A k : SharedIn(k)' = SharedIn(k) /\ SharedOut(k)' = SharedOut(k)
        /\ SharedInputs' = SharedInputs
    BY <1>1 DEF SharedIn, SharedOut, SharedInputs
  <1>9. BetaOuts' = BetaOuts /\ Wide' = Wide /\ Narrow' = Narrow
    BY <1>1, <1>7 DEF BetaOuts, Wide, Narrow
  <1> QED BY <1>2, <1>3, <1>4, <1>5, <1>6, <1>7, <1>8, <1>9

\* A stage that only transforms what it reads, when it is all the same.
LEMMA PassedIs ==
    ASSUME NEW S, NEW x \in S, NEW v, \A i \in S : Content(i) = v
    PROVE  Passed(S) = v
  <1>1. (CHOOSE i \in S : TRUE) \in S
    OBVIOUS
  <1> QED BY <1>1 DEF Passed

\* What an image holds, member by member.
Rec(from, to, before, prev, cur, time) ==
    [from |-> from, to |-> to, before |-> before, prev |-> prev, cur |-> cur, time |-> time]

\* The members of what is passed on.
LEMMA Values ==
    /\ \A n : Of(n) = Rec(None, None, None, None, n, <<0, 0>>)
    /\ Differs = Rec(None, None, Since(frame - 2), Since(frame - 1), frame, <<0, 0>>)
    /\ \A p : /\ Warped(p) = Rec(None, None, None, Since(frame - 1), frame,
                                 <<p + 1, batch.count + 1>>)
              /\ Flowing(p) = Rec(None, None, Since(frame - 2), Since(frame - 1), frame,
                                  <<p + 1, batch.count + 1>>)
              /\ Result(p) = Rec(Earlier, frame, Since(frame - 2), Since(frame - 1), frame,
                                 <<p + 1, batch.count + 1>>)
  <1>1. Blank = Rec(None, None, None, None, None, <<0, 0>>)
    BY DEF Blank, Rec
  <1>2. \A a, b, c, d, e, f, x :
          /\ [Rec(a, b, c, d, e, f) EXCEPT !.from = x] = Rec(x, b, c, d, e, f)
          /\ [Rec(a, b, c, d, e, f) EXCEPT !.to = x] = Rec(a, x, c, d, e, f)
          /\ [Rec(a, b, c, d, e, f) EXCEPT !.before = x] = Rec(a, b, x, d, e, f)
          /\ [Rec(a, b, c, d, e, f) EXCEPT !.prev = x] = Rec(a, b, c, x, e, f)
          /\ [Rec(a, b, c, d, e, f) EXCEPT !.cur = x] = Rec(a, b, c, d, x, f)
          /\ [Rec(a, b, c, d, e, f) EXCEPT !.time = x] = Rec(a, b, c, d, e, x)
    BY DEF Rec
  <1>3. \A n : Of(n) = Rec(None, None, None, None, n, <<0, 0>>)
    BY <1>1, <1>2 DEF Of
  <1>4. Differs = Rec(None, None, Since(frame - 2), Since(frame - 1), frame, <<0, 0>>)
    <2> DEFINE r == [Blank EXCEPT !.before = Since(frame - 2)]
               s == [r EXCEPT !.prev = Since(frame - 1)]
    <2>1. Differs = [s EXCEPT !.cur = frame]
      BY DEF Differs
    <2>2. r = Rec(None, None, Since(frame - 2), None, None, <<0, 0>>)
      BY <1>1, <1>2
    <2> HIDE DEF r
    <2>3. s = Rec(None, None, Since(frame - 2), Since(frame - 1), None, <<0, 0>>)
      BY <1>2, <2>2
    <2> HIDE DEF s
    <2> QED BY <1>2, <2>1, <2>3
  <1>5. ASSUME NEW p
        PROVE  Warped(p) = Rec(None, None, None, Since(frame - 1), frame,
                               <<p + 1, batch.count + 1>>)
    <2> DEFINE r == [Blank EXCEPT !.prev = Since(frame - 1)]
               s == [r EXCEPT !.cur = frame]
               t == <<p + 1, batch.count + 1>>
    <2>1. Warped(p) = [s EXCEPT !.time = t]
      BY DEF Warped
    <2>2. r = Rec(None, None, None, Since(frame - 1), None, <<0, 0>>)
      BY <1>1, <1>2
    <2> HIDE DEF r, t
    <2>3. s = Rec(None, None, None, Since(frame - 1), frame, <<0, 0>>)
      BY <1>2, <2>2
    <2> HIDE DEF s
    <2>4. Warped(p) = Rec(None, None, None, Since(frame - 1), frame, t)
      BY <1>2, <2>1, <2>3
    <2> QED BY <2>4 DEF t
  <1>6. ASSUME NEW p
        PROVE  Flowing(p) = Rec(None, None, Since(frame - 2), Since(frame - 1), frame,
                                <<p + 1, batch.count + 1>>)
    BY <1>2, <1>5 DEF Flowing
  <1>7. ASSUME NEW p
        PROVE  Result(p) = Rec(Earlier, frame, Since(frame - 2), Since(frame - 1), frame,
                               <<p + 1, batch.count + 1>>)
    <2> DEFINE r == [Flowing(p) EXCEPT !.from = Earlier]
               t == <<p + 1, batch.count + 1>>
    <2>1. Result(p) = [r EXCEPT !.to = frame]
      BY DEF Result
    <2>2. Flowing(p) = Rec(None, None, Since(frame - 2), Since(frame - 1), frame, t)
      BY <1>6
    <2> HIDE DEF t
    <2>3. r = Rec(Earlier, None, Since(frame - 2), Since(frame - 1), frame, t)
      BY <1>2, <2>2
    <2> HIDE DEF r
    <2>4. Result(p) = Rec(Earlier, frame, Since(frame - 2), Since(frame - 1), frame, t)
      BY <1>2, <2>1, <2>3
    <2> QED BY <2>4 DEF t
  <1> QED BY <1>3, <1>4, <1>5, <1>6, <1>7

\* The members of a record are what it was made of.
LEMMA Members ==
    ASSUME NEW from, NEW to, NEW before, NEW prev, NEW cur, NEW time
    PROVE  LET r == Rec(from, to, before, prev, cur, time) IN
           r.before = before /\ r.prev = prev /\ r.cur = cur /\ r.time = time
  BY DEF Rec

\* Guides of the same pair and time guide.
LEMMA GuidedIs ==
    ASSUME NEW p, NEW guides, NEW v \in {Warped(p), Flowing(p)},
           \A g \in guides : Content(g) \in {Warped(p), Flowing(p)}
    PROVE  Guided(v, guides) = v
  <1>1. \A x \in {Warped(p), Flowing(p)} :
           x.prev = Since(frame - 1) /\ x.cur = frame /\ x.time = <<p + 1, batch.count + 1>>
    <2> DEFINE t == <<p + 1, batch.count + 1>>
    <2>1. /\ Warped(p) = Rec(None, None, None, Since(frame - 1), frame, t)
          /\ Flowing(p) = Rec(None, None, Since(frame - 2), Since(frame - 1), frame, t)
      BY Values
    <2> HIDE DEF t
    <2>2. /\ Warped(p).prev = Since(frame - 1) /\ Warped(p).cur = frame /\ Warped(p).time = t
          /\ Flowing(p).prev = Since(frame - 1) /\ Flowing(p).cur = frame
          /\ Flowing(p).time = t
      BY <2>1, Members
    <2> QED BY <2>2 DEF t
  <1> QED BY <1>1 DEF Guided

\* The frames of the three slots.
LEMMA SlotsAre ==
    ASSUME Inv, Warm, NEW level \in Pyramid, Now(level), InBatch
    PROVE  /\ Content(Image("alpha", level, (frame + 1) % 3)) = Of(Since(frame - 2))
           /\ Content(Image("alpha", level, (frame + 2) % 3)) = Of(Since(frame - 1))
           /\ Content(Image("alpha", level, frame % 3)) = Of(frame)
  <1>1. frame \in Nat /\ (seeded # None \/ frame >= 2) /\ seeded <= frame /\ Since(frame) = frame
    BY DEF Inv, Numbers, Warm, Since, None
  <1>2. \A n \in {frame - 2, frame - 1, frame} : n >= 0 \/ seeded # None
    BY <1>1
  <1>3. \A n \in {frame - 2, frame - 1, frame} :
          Content(<<batch.graph, "alpha", level, (n + 3) % 3>>) = Of(Since(n))
    BY <1>2 DEF Now, Holds
  <1>4. /\ ((frame - 2) + 3) % 3 = (frame + 1) % 3 /\ ((frame - 1) + 3) % 3 = (frame + 2) % 3
        /\ (frame + 3) % 3 = frame % 3
    BY <1>1
  <1> QED BY <1>1, <1>3, <1>4 DEF Image

\* A warp of a level is of the pair and the time of its pass.
LEMMA WarpIs ==
    ASSUME Inv, Warm, NEW level \in Pyramid, Now(level), InBatch
    PROVE  Warp(level) = Warped(at.pass)
  <1>1. /\ Content(Image("alpha", level, (frame + 2) % 3)).cur = Since(frame - 1)
        /\ Content(Image("alpha", level, frame % 3)).cur = frame
    BY SlotsAre, Values, Members
  <1>2. Time = <<at.pass + 1, batch.count + 1>>
    BY DEF Time
  <1> QED BY <1>1, <1>2 DEF Warp, Warped

\* A warp is joined with the difference of its level.
LEMMA JoinedIs ==
    ASSUME at.level \in Pyramid, Full(BetaOuts, Differs), NEW guides,
           \A g \in guides : Content(g) \in {Warped(at.pass), Flowing(at.pass)}
    PROVE  Joined(Warped(at.pass), guides) = Flowing(at.pass)
  <1> DEFINE b == CHOOSE i \in Difference : TRUE
  <1>1. b \in BetaOuts
    <2>1. Fine \in Nat /\ Levels - 2 \in Nat
      BY DEF Fine, Pyramid
    <2>2. b = Image("beta", 0, IF Fine < Levels - 2 THEN Fine ELSE Levels - 2)
      BY DEF Difference
    <2>3. (IF Fine < Levels - 2 THEN Fine ELSE Levels - 2) \in 0 .. Levels - 2
      BY <2>1
    <2> QED BY <2>2, <2>3 DEF BetaOuts, Array
  <1>2. Content(b) = Differs
    BY <1>1 DEF Full
  <1>3. /\ Content(b).prev = Warped(at.pass).prev /\ Content(b).cur = Warped(at.pass).cur
        /\ [Warped(at.pass) EXCEPT !.before = Content(b).before] = Flowing(at.pass)
    <2> DEFINE t == <<at.pass + 1, batch.count + 1>>
    <2>1. /\ Warped(at.pass) = Rec(None, None, None, Since(frame - 1), frame, t)
          /\ Differs = Rec(None, None, Since(frame - 2), Since(frame - 1), frame, <<0, 0>>)
      BY Values
    <2>2. /\ Differs.prev = Since(frame - 1) /\ Differs.cur = frame
          /\ Differs.before = Since(frame - 2)
      BY <2>1, Members
    <2> HIDE DEF t
    <2>3. Warped(at.pass).prev = Since(frame - 1) /\ Warped(at.pass).cur = frame
      BY <2>1, Members
    <2> QED BY <1>2, <2>2, <2>3 DEF Flowing
  <1>4. Guided(Flowing(at.pass), guides) = Flowing(at.pass)
    BY GuidedIs
  <1> QED BY <1>3, <1>4 DEF Joined

-----------------------------------------------------------------------------
(* What the steps keep *)

\* The images a part writes, by name.
Named(part) ==
    CASE part = "mipmaps"  -> {"mip"}
      [] part = "alpha"    -> {"alpha", "alpha.temp"}
      [] part = "beta"     -> {"beta", "beta.temp"}
      [] part = "gamma"    -> {"gamma", "gamma.temp1", "gamma.temp2"}
      [] part = "delta"    -> {"delta", "delta.temp1", "delta.temp2"}
      [] part = "generate" -> {"out"}

\* A part writes no image but those.
LEMMA WritesNamed ==
    ASSUME Place, at.part \in Shaders
    PROVE  \A i \in Bindings.writes : i[2] \in Named(at.part)
  <1>1. CASE at.part = "mipmaps"
    BY <1>1, Names DEF Bindings, MipmapsBindings, Uses, Named
  <1>2. CASE at.part = "alpha"
    BY <1>2, Names DEF Bindings, AlphaBindings, AlphaChain, Uses, Named, Place
  <1>3. CASE at.part = "beta"
    BY <1>3, Names DEF Bindings, BetaBindings, BetaChain, BetaOuts, Uses, Named, Place
  <1>4. CASE at.part = "gamma"
    <2>1. /\ \A K : \A x \in Temp1(K) \cup Temp2(K) : x[2] \in Named("gamma")
          /\ Image("gamma", at.level, 1)[2] \in Named("gamma")
      BY <1>4, Names DEF Temp1, Temp2, Named
    <2> QED BY <1>4, <2>1 DEF Bindings, GammaBindings, Uses, Place
  <1>5. CASE at.part = "delta"
    <2>1. /\ \A K : \A x \in Temp1(K) \cup Temp2(K) : x[2] \in Named("delta")
          /\ \A n : Image("delta", at.level, n)[2] \in Named("delta")
      BY <1>5, Names DEF Temp1, Temp2, Named
    <2> QED BY <1>5, <2>1 DEF Bindings, DeltaBindings, Uses, Place
  <1>6. CASE at.part = "generate"
    BY <1>6 DEF Bindings, GenerateBindings, Uses, Named, Out
  <1> QED BY <1>1, <1>2, <1>3, <1>4, <1>5, <1>6 DEF Shaders

\* A dispatch changes only images that its part writes.
LEMMA RunKeeps ==
    ASSUME Inv, NEW part \in Shaders, NEW value, Run(part, value)
    PROVE  /\ \A i : i[2] \notin Named(part) => Content(i)' = Content(i)
           /\ DOMAIN content \subseteq DOMAIN content'
           /\ Going
  <1>1. at.part = part
    BY DEF Run
  <1> QED BY <1>1, WritesNamed, Contents DEF Inv

\* The sources stay as they were acquired.
LEMMA SourcesKept ==
    ASSUME Inv, Sources, at.part \notin {"idle", "inputs"}, at'.part # "idle", Going,
           \A i : i[2] \in {"in", "sharedIn"} => Content(i)' = Content(i),
           DOMAIN content \subseteq DOMAIN content'
    PROVE  Sources'
  <1>1. /\ frame' = frame /\ Earlier' = Earlier /\ SharedInputs' = SharedInputs
        /\ \A k : SharedIn(k)' = SharedIn(k)
    BY Frozen DEF Going
  <1>2. \A k : In(k)[2] = "in" /\ SharedIn(k)[2] \in {"in", "sharedIn"}
    BY DEF In, SharedIn
  <1>3. /\ \A k : Content(In(k))' = Content(In(k))
        /\ \A k : Content(SharedIn(k))' = Content(SharedIn(k))
    <2>1. \A k : In(k)' = In(k)
      BY DEF In
    <2> QED BY <1>1, <1>2, <2>1
  <1> QED BY <1>1, <1>3 DEF Sources, InBatch

\* The features stay once all levels have them.
LEMMA FeaturesKept ==
    ASSUME Features, at.part \in Later, at'.part \in Later, Going,
           \A i : i[2] = "alpha" => Content(i)' = Content(i)
    PROVE  Features'
  <1>1. /\ batch' = batch /\ frame' = frame /\ seeded' = seeded
        /\ \A n : Since(n)' = Since(n)
    BY Frozen DEF Going
  <1>2. \A graph, l, n : Holds(graph, l, n) => Holds(graph, l, n)'
    BY <1>1 DEF Holds, Of, Blank
  <1>3. \A l \in Pyramid : Now(l)'
    BY <1>1, <1>2 DEF Features, Now
  <1> QED BY <1>3 DEF Features, InBatch, Later, Pass

\* Before the passes of a batch no flow is kept.
LEMMA NoFlow ==
    ASSUME at'.part \in {"idle", "inputs", "mipmaps", "alpha", "unused"} \/
             (at'.part = "beta" /\ at'.stage = 0)
    PROVE  Flow'
  BY DEF Flow, Differences, Temporaries, Guides, Outputs, Pass

\* The mipmaps are of the newest source.
LEMMA MipmapsKeepsData == ASSUME Inv, Data, Mipmaps PROVE Data'
  <1>1. /\ at.part = "mipmaps" /\ Run("mipmaps", MipmapsValue)
        /\ at' = At("alpha", Levels - 1, 0, 0) /\ Going
    BY DEF Mipmaps, Run, Going
  <1>2. at'.part = "alpha" /\ at'.level = Levels - 1 /\ at'.stage = 0
    BY <1>1 DEF At
  <1>3. \A i : i[2] # "mip" => Content(i)' = Content(i)
    BY <1>1, RunKeeps DEF Named, Shaders
  <1>4. Sources'
    BY <1>1, <1>2, <1>3, RunKeeps, SourcesKept DEF Data, Shaders
  <1>5. \A l \in Pyramid : Content(Image("mip", 0, l))' = Of(frame)
    <2>1. MipmapsValue = Of(frame)
      BY <1>1 DEF Data, Sources, MipmapsValue
    <2>2. \A l \in Pyramid : Image("mip", 0, l) \in Bindings.writes
      BY <1>1 DEF Bindings, MipmapsBindings, Uses, Array, Pyramid
    <2> QED BY <1>1, <2>1, <2>2, Contents, Frozen
  <1>6. /\ batch' = batch /\ frame' = frame /\ seeded' = seeded
        /\ \A n : Since(n)' = Since(n)
    BY <1>1, Frozen DEF Going
  <1>7. ~batch.seed => \A l \in Pyramid : Before(batch.graph, l)'
    <2>1. \A graph, l, n : Holds(graph, l, n) => Holds(graph, l, n)'
      BY <1>3, <1>6 DEF Holds, Of, Blank
    <2> QED BY <1>1, <1>6, <2>1 DEF Data, Features, Before
  <1>8. Features'
    <2>1. \A l \in Pyramid : ~(l > Levels - 1)
      BY DEF Pyramid
    <2>2. Of(frame)' = Of(frame)
      BY <1>6 DEF Of, Blank
    <2> QED BY <1>2, <1>5, <1>6, <1>7, <2>1, <2>2 DEF Features, InBatch, Later, Pass
  <1> QED BY <1>2, <1>4, <1>8, NoFlow DEF Data

\* A stage of the features passes those of this frame on to its one image.
LEMMA AlphaPasses ==
    ASSUME Inv, Data, Alpha
    PROVE  /\ at.part = "alpha" /\ at.level \in Pyramid /\ at.stage \in 0 .. AlphaStages
           /\ Going
           /\ \A i : Content(i)' =
                       IF i = (IF at.stage < 3 THEN Image("alpha.temp", at.level, at.stage + 1)
                                               ELSE Image("alpha", at.level, AlphaSlot))
                       THEN Of(frame) ELSE Content(i)
           /\ DOMAIN content \subseteq DOMAIN content'
  <1>1. /\ at.part = "alpha" /\ Run("alpha", Passed(AlphaBindings.reads)) /\ Going
    BY DEF Alpha, Run, Going
  <1>2. at.level \in Pyramid /\ at.stage \in 0 .. AlphaStages /\ at.stage \in Nat
    BY <1>1 DEF Inv, Place, Spots
  <1>3. Bindings = AlphaChain(AlphaSlot) /\ AlphaBindings = AlphaChain(AlphaSlot)
    BY <1>1 DEF Bindings, AlphaBindings
  <1>4. /\ Content(Image("mip", 0, at.level)) = Of(frame)
        /\ at.stage \in {1, 2} => Content(Image("alpha.temp", at.level, at.stage)) = Of(frame)
        /\ at.stage >= 3 => Content(Image("alpha.temp", at.level, 3)) = Of(frame)
    BY <1>1, <1>2 DEF Data, Features
  <1>5. at.stage = 0 \/ at.stage = 1 \/ at.stage = 2 \/ at.stage >= 3
    BY <1>2
  <1>6. PICK source : /\ AlphaBindings.reads = {source}
                      /\ Content(source) = Of(frame)
    <2>1. CASE at.stage = 0
      BY <1>3, <1>4, <2>1 DEF AlphaChain, Uses
    <2>2. CASE at.stage = 1
      BY <1>3, <1>4, <2>2 DEF AlphaChain, Uses
    <2>3. CASE at.stage = 2
      BY <1>3, <1>4, <2>3 DEF AlphaChain, Uses
    <2>4. CASE at.stage >= 3
      BY <1>2, <1>3, <1>4, <2>4 DEF AlphaChain, Uses
    <2> QED BY <1>5, <2>1, <2>2, <2>3, <2>4
  <1>7. Passed(AlphaBindings.reads) = Of(frame)
    BY <1>6, PassedIs
  <1>8. Bindings.writes = {IF at.stage < 3 THEN Image("alpha.temp", at.level, at.stage + 1)
                           ELSE Image("alpha", at.level, AlphaSlot)}
    BY <1>2, <1>3, <1>5 DEF AlphaChain, Uses
  <1> HIDE DEF Image
  <1> QED BY <1>1, <1>2, <1>7, <1>8, Contents

\* A level is complete when its last slot is written: one, or with a seed all three.
LEMMA AlphaKeepsData == ASSUME Inv, Data, Alpha PROVE Data'
  <1> DEFINE w == IF at.stage < 3 THEN Image("alpha.temp", at.level, at.stage + 1)
                                  ELSE Image("alpha", at.level, AlphaSlot)
  <1>1. /\ at.part = "alpha" /\ at.level \in Pyramid /\ at.stage \in 0 .. AlphaStages
        /\ Going /\ \A i : Content(i)' = IF i = w THEN Of(frame) ELSE Content(i)
        /\ DOMAIN content \subseteq DOMAIN content'
    BY AlphaPasses
  <1>2. at' = IF at.stage < AlphaStages THEN [at EXCEPT !.stage = at.stage + 1]
              ELSE IF at.level > 0 THEN At("alpha", at.level - 1, 0, 0)
              ELSE AfterAlpha
    BY DEF Alpha
  <1>3. /\ batch' = batch /\ frame' = frame /\ seeded' = seeded /\ Of(frame)' = Of(frame)
        /\ \A n : Since(n)' = Since(n)
        /\ \A name, l, k : Image(name, l, k)' = Image(name, l, k)
    BY <1>1, Frozen DEF Going, Of, Blank
  <1>4. /\ w[2] \in {"alpha", "alpha.temp"} /\ w[3] = at.level
        /\ at.stage < 3 => w = <<batch.graph, "alpha.temp", at.level, at.stage + 1>>
        /\ at.stage >= 3 => w = <<batch.graph, "alpha", at.level, AlphaSlot>>
    BY <1>1 DEF Image, AlphaStages
  <1>5. /\ AlphaStages = IF batch.seed THEN 5 ELSE 3
        /\ at.level \in Nat /\ at.level <= Levels - 1 /\ frame \in Nat
        /\ (seeded # None => seeded \in Nat /\ seeded <= frame)
        /\ (batch.seed => seeded = frame)
    BY <1>1 DEF AlphaStages, Pyramid, Inv, Numbers, InBatch
  <1> HIDE DEF w
  <1>0. PICK level \in Pyramid : level = at.level
    BY <1>1
  <1>6. at'.part # "idle"
    <2>1. at.stage < AlphaStages => at'.part = at.part
      BY <1>2, NextStage DEF Inv
    <2> QED BY <1>0, <1>1, <1>2, <2>1 DEF AfterAlpha, At
  <1>7. Sources'
    BY <1>0, <1>1, <1>4, <1>6, SourcesKept DEF Data
  <1>8. \A l \in Pyramid : Content(Image("mip", 0, l))' = Of(frame)
    BY <1>0, <1>1, <1>3, <1>4 DEF Data, Features, Image
  <1>9. \A l, n : (l # level \/ at.stage < 3) /\ Holds(batch.graph, l, n)
                    => Holds(batch.graph, l, n)'
    BY <1>0, <1>1, <1>3, <1>4 DEF Holds
  <1>10. \A l \in Pyramid : l > level => Now(l)'
    BY <1>0, <1>1, <1>3, <1>5, <1>9 DEF Data, Features, Now
  <1>11. \A l \in Pyramid : ~batch.seed /\ (l < level \/ (l = level /\ at.stage < 3))
                              => Before(batch.graph, l)'
    BY <1>0, <1>1, <1>3, <1>5, <1>9 DEF Data, Features, Before, Pyramid
  <1>12. CASE at.stage < AlphaStages
    <2>1. at'.part = "alpha" /\ at'.level = level /\ at'.stage = at.stage + 1
      BY <1>0, <1>1, <1>2, <1>12, NextStage DEF Inv
    <2>2. \A l \in Pyramid : l <= level /\ ~batch.seed => Before(batch.graph, l)'
      BY <1>0, <1>1, <1>5, <1>11, <1>12 DEF Pyramid
    <2>3. /\ at'.stage \in {1, 2} => Content(Image("alpha.temp", at.level, at.stage))' = Of(frame)
          /\ at'.stage >= 3 => Content(Image("alpha.temp", level, 3))' = Of(frame)
      <3>1. at.stage >= 3 => Content(Image("alpha.temp", level, 3)) = Of(frame)
        BY <1>0, <1>1 DEF Data, Features
      <3>2. at.stage \in 0 .. 4
        BY <1>0, <1>1, <1>5, <1>12
      <3>3. at'.stage \in {1, 2} =>
              Image("alpha.temp", at.level, at.stage)' = w
        BY <1>0, <1>3, <1>4, <2>1, <3>2 DEF Image
      <3>4. at'.stage = 3 => Image("alpha.temp", level, 3)' = w
        BY <1>0, <1>3, <1>4, <2>1, <3>2 DEF Image
      <3>5. at.stage >= 3 => Image("alpha.temp", level, 3)' # w
        BY <1>0, <1>3, <1>4 DEF Image
      <3> QED BY <1>1, <1>3, <2>1, <3>1, <3>2, <3>3, <3>4, <3>5
    <2>4. /\ at.stage + 1 > 3 => Slot(level, frame % 3)' = Of(frame)
          /\ at.stage + 1 > 4 => Slot(level, (frame + 1) % 3)' = Of(frame)
      <3>1. at.stage > 3 => Slot(level, frame % 3) = Of(frame)
        BY <1>0, <1>1 DEF Data, Features
      <3>2. /\ at.stage = 3 => AlphaSlot = frame % 3
            /\ at.stage = 4 => AlphaSlot = (frame + 1) % 3
            /\ frame % 3 # (frame + 1) % 3
        BY <1>5 DEF AlphaSlot
      <3>3. at.stage \in 0 .. 4
        BY <1>0, <1>1, <1>5, <1>12
      <3> QED BY <1>0, <1>1, <1>3, <1>4, <3>1, <3>2, <3>3 DEF Image, Slot
    <2>5. Features'
      BY <1>0, <1>1, <1>3, <1>8, <1>10, <2>1, <2>2, <2>3, <2>4 DEF Features, InBatch, Later, Pass, Slot
    <2> QED BY <1>7, <2>1, <2>5, NoFlow DEF Data
  <1>13. CASE ~(at.stage < AlphaStages)
    <2>1. Now(level)'
      <3>1. \A n \in {frame - 2, frame - 1, frame} :
              n >= 0 \/ seeded # None =>
                Content(<<batch.graph, "alpha", level, (n + 3) % 3>>)' = Of(Since(n))
        <4>1. CASE batch.seed
          <5>1. /\ at.stage = 5 /\ AlphaSlot = (frame + 2) % 3
                /\ \A n \in {frame - 2, frame - 1, frame} : Since(n) = frame
            BY <1>0, <1>1, <1>5, <1>13, <4>1 DEF AlphaSlot, Since
          <5>2. /\ Content(<<batch.graph, "alpha", level, frame % 3>>) = Of(frame)
                /\ Content(<<batch.graph, "alpha", level, (frame + 1) % 3>>) = Of(frame)
            BY <1>0, <1>1, <5>1 DEF Data, Features, Slot, Image
          <5>3. \A n \in {frame - 2, frame - 1, frame} :
                  (n + 3) % 3 \in {frame % 3, (frame + 1) % 3, (frame + 2) % 3}
            BY <1>5
          <5> QED BY <1>0, <1>1, <1>3, <1>4, <5>1, <5>2, <5>3
        <4>2. CASE ~batch.seed
          <5>1. /\ at.stage = 3 /\ AlphaSlot = frame % 3 /\ Since(frame) = frame
            BY <1>0, <1>1, <1>5, <1>13, <4>2 DEF AlphaSlot, Since, None
          <5>2. Before(batch.graph, level)
            BY <1>0, <1>1, <1>5, <4>2 DEF Data, Features
          <5>3. /\ (frame + 3) % 3 = frame % 3
                /\ \A n \in {frame - 2, frame - 1} : (n + 3) % 3 # frame % 3
            BY <1>5
          <5>4. \A n \in {frame - 2, frame - 1} :
                  n >= 0 \/ seeded # None =>
                    Content(<<batch.graph, "alpha", level, (n + 3) % 3>>)' = Of(Since(n))
            BY <1>0, <1>1, <1>3, <1>4, <5>1, <5>2, <5>3 DEF Before, Holds
          <5>5. Content(<<batch.graph, "alpha", level, (frame + 3) % 3>>)' = Of(Since(frame))
            BY <1>0, <1>1, <1>3, <1>4, <5>1, <5>3
          <5> QED BY <1>3, <5>4, <5>5
        <4> QED BY <4>1, <4>2
      <3> QED BY <1>3, <3>1 DEF Now, Holds, Of, Blank
    <2>2. CASE level > 0
      <3>1. at'.part = "alpha" /\ at'.level = level - 1 /\ at'.stage = 0
        BY <1>0, <1>2, <1>13, <2>2 DEF At
      <3>2. /\ \A l \in Pyramid : l <= level - 1 /\ ~batch.seed => Before(batch.graph, l)'
            /\ \A l \in Pyramid : l > level - 1 => Now(l)'
        BY <1>0, <1>5, <1>10, <1>11, <2>1 DEF Pyramid
      <3>3. Features'
        BY <1>0, <1>3, <1>8, <3>1, <3>2 DEF Features, InBatch, Later, Pass
      <3> QED BY <1>7, <3>1, <3>3, NoFlow DEF Data
    <2>3. CASE level = 0
      <3>1. (at'.part = "beta" /\ at'.stage = 0) \/ at'.part = "unused"
        BY <1>0, <1>2, <1>5, <1>13, <2>3 DEF At, AfterAlpha
      <3>2. \A l \in Pyramid : Now(l)'
        BY <1>0, <1>5, <1>10, <2>1, <2>3 DEF Pyramid
      <3>3. Features'
        BY <3>1, <3>2 DEF Features, InBatch, Later, Pass
      <3> QED BY <1>7, <3>1, <3>3, NoFlow DEF Data
    <2> QED BY <1>0, <1>5, <2>2, <2>3
  <1> QED BY <1>12, <1>13

\* A dispatch of the parts after the features leaves the sources and them alone.
LEMMA LaterRunKeeps ==
    ASSUME Inv, Data, NEW part \in {"beta", "gamma", "delta", "generate"}, NEW value,
           Run(part, value), at'.part \in Later
    PROVE  Sources' /\ Features'
  <1>1. at.part = part /\ part \in Shaders /\ part \in Later
    BY DEF Run, Shaders, Later, Pass
  <1>2. /\ \A i : i[2] \in {"in", "sharedIn", "alpha"} => Content(i)' = Content(i)
        /\ DOMAIN content \subseteq DOMAIN content' /\ Going
    <2>1. \A x \in {"in", "sharedIn", "alpha"} : x \notin Named(part)
      BY DEF Named
    <2> QED BY <1>1, <2>1, RunKeeps
  <1>3. at.part \notin {"idle", "inputs"} /\ at'.part # "idle"
    BY <1>1 DEF Later, Pass
  <1> QED BY <1>1, <1>2, <1>3, SourcesKept, FeaturesKept DEF Data

\* The differences are of the three slots.
LEMMA BetaIs ==
    ASSUME Inv, Data, Warm, at.part = "beta"
    PROVE  BetaValue = Differs
  <1>1. at.stage \in 0 .. 4 /\ InBatch /\ Flow /\ \A l \in Pyramid : Now(l)
    BY DEF Inv, Place, Data, InBatch, Features, Later
  <1>2. CASE at.stage = 0
    <2>1. 0 \in Pyramid
      BY DEF Pyramid
    <2>2. /\ Content(Image("alpha", 0, (frame + 1) % 3)).cur = Since(frame - 2)
          /\ Content(Image("alpha", 0, (frame + 2) % 3)).cur = Since(frame - 1)
          /\ Content(Image("alpha", 0, frame % 3)).cur = frame
      BY <1>1, <2>1, SlotsAre, Values, Members
    <2>3. /\ BetaOrder[1] = (frame + 1) % 3 /\ BetaOrder[2] = (frame + 2) % 3
          /\ BetaOrder[3] = frame % 3
      BY DEF BetaOrder
    <2> QED BY <1>2, <2>2, <2>3 DEF BetaValue, Differs
  <1>3. CASE at.stage \in {1, 3}
    <2>1. BetaValue = Passed({Image("beta.temp", 0, 1)})
      BY <1>3 DEF BetaValue, BetaBindings, BetaChain, Uses
    <2>2. Content(Image("beta.temp", 0, 1)) = Differs
      BY <1>1, <1>3 DEF Flow, Differences, Full
    <2> QED BY <2>1, <2>2, PassedIs
  <1>4. CASE at.stage \in {2, 4}
    <2>1. BetaValue = Passed({Image("beta.temp", 0, 2)})
      BY <1>4 DEF BetaValue, BetaBindings, BetaChain, Uses
    <2>2. Content(Image("beta.temp", 0, 2)) = Differs
      BY <1>1, <1>4 DEF Flow, Differences, Full
    <2> QED BY <2>1, <2>2, PassedIs
  <1> QED BY <1>1, <1>2, <1>3, <1>4

\* The last stage of beta leaves the differences to the passes.
LEMMA BetaKeepsData == ASSUME Inv, Data, Beta PROVE Data'
  <1>1. /\ at.part = "beta" /\ Run("beta", BetaValue) /\ Going
        /\ at' = IF at.stage < 4 THEN [at EXCEPT !.stage = at.stage + 1]
                 ELSE At("acquire", 0, 0, 0)
        /\ at.stage \in 0 .. 4
    BY DEF Beta, Run, Going, Inv, Place
  <1>2. /\ at.stage < 4 => at'.part = "beta" /\ at'.stage = at.stage + 1
        /\ ~(at.stage < 4) => at'.part = "acquire" /\ at'.pass = 0
    BY <1>1, NextStage DEF Inv, At
  <1>3. Sources' /\ Features'
    BY <1>1, <1>2, LaterRunKeeps DEF Later, Pass
  <1>4. ASSUME Warm PROVE Flow'
    <2>1. \A i \in Bindings.writes : Content(i)' = Differs
      BY <1>1, <1>4, BetaIs, Contents
    <2>2. /\ Differs' = Differs /\ BetaOuts' = BetaOuts
          /\ \A name, level, k : Image(name, level, k)' = Image(name, level, k)
      BY <1>1, Frozen
    <2>3. /\ at.stage \in {0, 2} => Image("beta.temp", 0, 1) \in Bindings.writes
          /\ at.stage \in {1, 3} => Image("beta.temp", 0, 2) \in Bindings.writes
          /\ at.stage = 4 => Bindings.writes = BetaOuts
      BY <1>1 DEF Bindings, BetaBindings, BetaChain, Uses
    <2>4. Differences'
      <3>1. /\ at.stage \in {0, 2} => Full({Image("beta.temp", 0, 1)}, Differs)'
            /\ at.stage \in {1, 3} => Full({Image("beta.temp", 0, 2)}, Differs)'
            /\ at.stage = 4 => Full(BetaOuts, Differs)'
        BY <2>1, <2>2, <2>3 DEF Full
      <3> QED BY <1>1, <1>2, <3>1 DEF Differences, Pass
    <2>5. Temporaries' /\ Guides' /\ Outputs'
      BY <1>1, <1>2 DEF Temporaries, Guides, Outputs, Pass
    <2> QED BY <2>4, <2>5 DEF Flow
  <1> QED BY <1>1, <1>3, <1>4, Frozen DEF Data

\* Returning the inputs of a batch without passes changes no image.
LEMMA ReleaseUnusedKeepsData == ASSUME Inv, Data, ReleaseUnused PROVE Data'
  <1>1. /\ at.part = "unused" /\ at' = At("end", 0, 0, 0) /\ content' = content /\ Going
    BY DEF ReleaseUnused, Going
  <1>2. at'.part = "end" /\ batch.gens = 0 /\ batch' = batch
    BY <1>1 DEF At, Inv, Place, Going
  <1>3. \A i : Content(i)' = Content(i)
    BY <1>1 DEF Content
  <1>4. Sources' /\ Features'
    BY <1>1, <1>2, <1>3, SourcesKept, FeaturesKept DEF Data, Later, Pass
  <1>5. Flow'
    BY <1>2 DEF Flow, Differences, Temporaries, Guides, Outputs, Pass
  <1> QED BY <1>4, <1>5 DEF Data

\* A pass starts with no level refined.
LEMMA AcquireOutputKeepsData == ASSUME Inv, Data, AcquireOutput PROVE Data'
  <1>1. /\ at.part = "acquire" /\ at' = At("gamma", 0, 0, at.pass) /\ content' = content /\ Going
    BY DEF AcquireOutput, Going
  <1>2. at'.part = "gamma" /\ at'.level = 0 /\ at'.stage = 0 /\ at'.pass = at.pass
    BY <1>1 DEF At
  <1>3. \A i : Content(i)' = Content(i)
    BY <1>1 DEF Content
  <1>4. Sources' /\ Features'
    BY <1>1, <1>2, <1>3, SourcesKept, FeaturesKept DEF Data, Later, Pass
  <1>5. ASSUME Warm PROVE Flow'
    <2>1. Full(BetaOuts, Differs) /\ \A p \in Nat : p < at.pass => Content(SharedOut(p)) = Result(p)
      BY <1>1, <1>5 DEF Data, Flow, Differences, Outputs, Pass, InBatch
    <2>2. /\ Full(BetaOuts, Differs)'
          /\ \A p \in Nat : p < at.pass => Content(SharedOut(p))' = Result(p)'
      BY <1>1, <1>3, <2>1, Frozen DEF Full
    <2>3. Differences' /\ Outputs'
      BY <1>2, <2>2 DEF Differences, Outputs, Pass
    <2>4. Temporaries' /\ Guides'
      BY <1>2 DEF Temporaries, Guides, First
    <2> QED BY <2>3, <2>4 DEF Flow
  <1> QED BY <1>1, <1>4, <1>5, Frozen DEF Data

\* The features of this batch are the older ones of the next.
LEMMA ReturnKeepsData == ASSUME Inv, Data, Return PROVE Data'
  <1>1. /\ at.part = "end" /\ at' = Idle /\ frame' = frame + 1 /\ active' = batch.graph
        /\ UNCHANGED <<build, batch, content, seeded>>
    BY DEF Return
  <1>2. at'.part = "idle" /\ at.part # "idle" /\ frame \in Nat
    BY <1>1 DEF Idle, At, Inv, Numbers
  <1>3. /\ \A i : Content(i)' = Content(i)
        /\ \A n : Since(n)' = Since(n) /\ Of(n)' = Of(n)
    BY <1>1 DEF Content, Since, Of, Blank
  <1>4. Sources'
    <2>1. SharedInputs' = SharedInputs /\ \A k : SharedIn(k)' = SharedIn(k)
      BY <1>1 DEF SharedInputs, SharedIn
    <2>2. /\ SharedInputs \subseteq DOMAIN content
          /\ Content(SharedIn(frame % 2)) = Of(frame)
      BY <1>1, <1>2 DEF Data, Sources, InBatch
    <2>3. Content(SharedIn((frame - 1) % 2))' = Of(frame - 1)'
      <3>1. frame' - 1 = frame
        BY <1>1, <1>2
      <3>2. \A k, n : /\ k = (frame - 1)' % 2
                      /\ n = (frame - 1)'
                      => Content(SharedIn(k))' = Of(n)'
        BY <1>3, <2>1, <2>2, <3>1
      <3> QED BY <3>2
    <2> QED BY <1>1, <1>2, <2>1, <2>2, <2>3 DEF Sources, InBatch
  <1>5. Features'
    <2>1. \A l \in Pyramid, n \in {frame - 1, frame} : Holds(batch.graph, l, n)
      BY <1>1 DEF Data, Features, Now, Later
    <2>2. \A graph, l, n : Holds(graph, l, n) => Holds(graph, l, n)'
      BY <1>1, <1>3 DEF Holds
    <2>3. frame' - 2 = frame - 1 /\ frame' - 1 = frame
      BY <1>1, <1>2
    <2>4. \A l \in Pyramid : Before(active, l)'
      BY <1>1, <2>1, <2>2, <2>3 DEF Before
    <2> QED BY <1>2, <2>4 DEF Features, InBatch, Later, Pass
  <1> QED BY <1>2, <1>4, <1>5, NoFlow DEF Data

\* No frame is held by a slot yet, and none is asked for.
LEMMA InitData == Init => Data
  <1> SUFFICES ASSUME Init PROVE Data
    OBVIOUS
  <1>1. at.part = "idle" /\ frame = 0 /\ seeded = None
    BY DEF Init, Idle, At
  <1>2. Sources
    BY <1>1 DEF Sources, InBatch
  <1>3. Features
    BY <1>1 DEF Features, InBatch, Before, Holds, Later, Pass
  <1> QED BY <1>1, <1>2, <1>3 DEF Data, InBatch

\* The frame replaces the older of the two inputs; the slots are carried over.
LEMMA BeginKeepsData == ASSUME Inv, Data, Begin PROVE Data'
  <1>1. /\ at = Idle /\ at' = At("inputs", 0, 0, 0)
        /\ UNCHANGED <<build, frame, active>>
        /\ seeded' = IF batch'.seed THEN frame ELSE seeded
        /\ content' =
             LET new == IF frame = 0 THEN SharedInputs ELSE {SharedIn(frame % 2)}
             IN  [i \in Carried \cup SharedInputs |->
                    IF i \in new THEN [Blank EXCEPT !.cur = frame] ELSE content[i]]
    BY DEF Begin
  <1>2. at.part = "idle" /\ at'.part = "inputs" /\ frame \in Nat
    BY <1>1 DEF Idle, At, Inv, Numbers
  <1>3. ~batch'.seed => batch'.graph = active
    <2>1. PICK gens \in 0 .. MaxGenerated, graph \in Graphs, reset \in BOOLEAN :
            \E count \in IF gens = 0 THEN {0} ELSE gens .. MaxGenerated :
              batch' = [gens |-> gens, count |-> count, graph |-> graph,
                        seed |-> reset \/ graph # active]
      BY DEF Begin
    <2>2. batch'.graph = graph /\ batch'.seed = (reset \/ graph # active)
      BY <2>1
    <2> QED BY <2>2
  <1>4. /\ \A k : SharedIn(k)' = SharedIn(k)
        /\ SharedInputs' = SharedInputs
        /\ \A n : Of(n)' = Of(n)
    BY <1>1 DEF SharedIn, SharedInputs, Of, Blank
  <1>5. \A i : i[2] = "alpha" => Content(i)' = Content(i)
    <2>1. \A i : i[2] = "alpha" => i \notin SharedInputs
      BY DEF SharedInputs, SharedIn, In
    <2>2. \A i : i[2] = "alpha" /\ i \in DOMAIN content => i \in Carried
      BY DEF Carried
    <2>3. \A i : i[2] = "alpha" => i \notin (IF frame = 0 THEN SharedInputs ELSE {SharedIn(frame % 2)})
      BY DEF SharedInputs, SharedIn, In
    <2>4. Carried \subseteq DOMAIN content
      BY DEF Carried
    <2> QED BY <1>1, <2>1, <2>2, <2>3, <2>4 DEF Content
  <1>6. Sources'
    <2>1. DOMAIN content' = Carried \cup SharedInputs
      BY <1>1
    <2>2. \A i \in SharedInputs :
            Content(i)' = IF frame = 0 \/ i = SharedIn(frame % 2) THEN Of(frame) ELSE content[i]
      BY <1>1 DEF Content, Of
    <2>3. /\ SharedIn(frame % 2) \in SharedInputs /\ SharedIn(1 - (frame % 2)) \in SharedInputs
          /\ frame > 0 => (frame - 1) % 2 = 1 - (frame % 2)
          /\ frame % 2 # 1 - (frame % 2)
      BY <1>2 DEF SharedInputs
    <2>4. frame > 0 => /\ SharedInputs \subseteq DOMAIN content
                       /\ Content(SharedIn((frame - 1) % 2)) = Of(frame - 1)
      BY <1>2 DEF Data, Sources, InBatch
    <2>5. SharedIn(1 - (frame % 2)) # SharedIn(frame % 2)
      BY <2>3 DEF SharedIn, In
    <2>6. Content(SharedIn(frame % 2))' = Of(frame)
      BY <1>1, <1>4, <2>2, <2>3
    <2>7. Content(SharedIn(1 - (frame % 2)))' = Of(Earlier)
      <3>1. CASE frame = 0
        BY <1>1, <1>4, <2>2, <2>3, <3>1 DEF Earlier
      <3>2. CASE frame # 0
        <4>1. content[SharedIn(1 - (frame % 2))] = Of(frame - 1)
          BY <1>2, <2>3, <2>4, <3>2 DEF Content
        <4> QED BY <1>1, <1>4, <2>2, <2>3, <2>5, <3>2, <4>1 DEF Earlier
      <3> QED BY <3>1, <3>2
    <2>8. Earlier' = Earlier
      BY <1>1 DEF Earlier
    <2> QED BY <1>1, <1>2, <1>4, <2>1, <2>6, <2>7, <2>8 DEF Sources, InBatch
  <1>7. Features'
    <2>1. ASSUME ~batch'.seed PROVE \A l \in Pyramid : Before(active, l)'
      <3>1. \A l \in Pyramid : Before(active, l)
        BY <1>2 DEF Data, Features, InBatch
      <3>2. seeded' = seeded /\ \A n : Since(n)' = Since(n)
        BY <1>1, <2>1 DEF Since
      <3>3. \A graph, l, n : Holds(graph, l, n) => Holds(graph, l, n)'
        BY <1>4, <1>5, <3>2 DEF Holds
      <3> QED BY <1>1, <3>1, <3>3 DEF Before
    <2> QED BY <1>1, <1>2, <1>3, <2>1 DEF Features, InBatch, Later, Pass
  <1> QED BY <1>2, <1>6, <1>7, NoFlow DEF Data

\* The images bound hold what the shared ones do.
LEMMA AcquireInputsKeepsData == ASSUME Inv, Data, AcquireInputs PROVE Data'
  <1>1. /\ at.part = "inputs" /\ at' = At("mipmaps", 0, 0, 0) /\ Going
        /\ content' = IF build.inputCopy
                      THEN [i \in DOMAIN content \cup {In(0), In(1)} |->
                              IF i = In(0) THEN content[SharedIn(0)]
                              ELSE IF i = In(1) THEN content[SharedIn(1)]
                              ELSE content[i]]
                      ELSE content
    BY DEF AcquireInputs, Going
  <1>2. at'.part = "mipmaps" /\ frame \in Nat
    BY <1>1 DEF At, Inv, Numbers
  <1>3. /\ \A k : SharedIn(k)' = SharedIn(k) /\ SharedInputs' = SharedInputs
        /\ frame' = frame /\ Earlier' = Earlier /\ seeded' = seeded /\ batch' = batch
        /\ \A n : Of(n)' = Of(n) /\ Since(n)' = Since(n)
    BY <1>1, Frozen DEF Going, Of, Blank
  <1>4. /\ SharedInputs \subseteq DOMAIN content
        /\ Content(SharedIn(frame % 2)) = Of(frame)
        /\ Content(SharedIn(1 - (frame % 2))) = Of(Earlier)
    BY <1>1 DEF Data, Sources, InBatch
  <1>5. /\ \A k \in {0, 1} : Content(In(k))' = Content(SharedIn(k))
        /\ \A k \in {0, 1} : Content(SharedIn(k))' = Content(SharedIn(k))
        /\ \A i : i[2] = "alpha" => Content(i)' = Content(i)
        /\ SharedInputs \subseteq DOMAIN content'
    <2>1. /\ \A i : i[2] = "alpha" => i # In(0) /\ i # In(1)
          /\ In(0) # In(1)
      BY DEF In
    <2>2. CASE build.inputCopy
      <3>1. \A k, n : SharedIn(k) # In(n)
        BY <2>2 DEF SharedIn, In
      <3>2. content' = [i \in DOMAIN content \cup {In(0), In(1)} |->
                          IF i = In(0) THEN content[SharedIn(0)]
                          ELSE IF i = In(1) THEN content[SharedIn(1)]
                          ELSE content[i]]
        BY <1>1, <2>2
      <3>3. SharedIn(0) \in DOMAIN content /\ SharedIn(1) \in DOMAIN content
        BY <1>4 DEF SharedInputs
      <3>4. \A k : In(k)' = In(k)
        BY DEF In
      <3>5. /\ Content(In(0))' = Content(SharedIn(0)) /\ Content(In(1))' = Content(SharedIn(1))
        BY <2>1, <3>2, <3>3, <3>4 DEF Content
      <3>6. \A i : i # In(0) /\ i # In(1) => Content(i)' = Content(i)
        BY <3>2 DEF Content
      <3>7. SharedInputs \subseteq DOMAIN content'
        BY <1>4, <3>2
      <3>8. /\ Content(SharedIn(0))' = Content(SharedIn(0))
            /\ Content(SharedIn(1))' = Content(SharedIn(1))
        BY <1>3, <3>1, <3>6
      <3> QED BY <2>1, <3>5, <3>6, <3>7, <3>8
    <2>3. CASE ~build.inputCopy
      BY <1>1, <1>3, <1>4, <2>3 DEF SharedIn, In, Content
    <2> QED BY <2>2, <2>3
  <1>6. Sources'
    <2>1. frame % 2 \in {0, 1} /\ 1 - (frame % 2) \in {0, 1}
      BY <1>2
    <2>2. /\ Content(In(frame % 2))' = Of(frame) /\ Content(In(1 - (frame % 2)))' = Of(Earlier)
          /\ Content(SharedIn(frame % 2))' = Of(frame)
          /\ Content(SharedIn(1 - (frame % 2)))' = Of(Earlier)
      BY <1>3, <1>4, <1>5, <2>1
    <2> QED BY <1>1, <1>2, <1>3, <1>5, <2>2 DEF Sources, InBatch
  <1>7. Features'
    <2>1. ~batch.seed => \A l \in Pyramid : Before(batch.graph, l)
      BY <1>1 DEF Data, Features
    <2>2. \A graph, l, n : Holds(graph, l, n) => Holds(graph, l, n)'
      BY <1>3, <1>5 DEF Holds
    <2>3. ~batch.seed => \A l \in Pyramid : Before(batch.graph, l)'
      BY <1>3, <2>1, <2>2 DEF Before
    <2> QED BY <1>2, <1>3, <2>3 DEF Features, InBatch, Later, Pass
  <1> QED BY <1>2, <1>6, <1>7, NoFlow DEF Data

\* Nothing of this changes where nothing is recorded, or only a barrier.
LEMMA DataStay ==
    ASSUME Data, UNCHANGED <<build, frame, active, batch, at, content, seeded>>
    PROVE  Data'
  <1>1. Going
    BY DEF Going
  <1>2. \A i : Content(i)' = Content(i)
    BY DEF Content
  <1>3. /\ \A n : Of(n)' = Of(n) /\ Since(n)' = Since(n)
        /\ \A images, value : Full(images, value)' <=> Full(images, value)
    BY <1>1, <1>2, Frozen DEF Full, Of, Blank
  <1>4. Sources'
    <2>1. \A k : In(k)' = In(k)
      BY DEF In
    <2> QED BY <1>1, <1>2, <1>3, <2>1, Frozen DEF Data, Sources, InBatch
  <1>5. Features'
    <2>1. \A graph, l, n : Holds(graph, l, n)' <=> Holds(graph, l, n)
      BY <1>2, <1>3 DEF Holds
    <2>2. \A graph, l : (Before(graph, l)' <=> Before(graph, l)) /\ (Now(l)' <=> Now(l))
      BY <2>1 DEF Before, Now
    <2>3. \A level, k : Slot(level, k)' = Slot(level, k)
      BY <1>2, Frozen, <1>1 DEF Slot
    <2> QED BY <1>1, <1>2, <1>3, <2>2, <2>3, Frozen DEF Data, Features, InBatch
  <1>6. Flow => Flow'
    <2>1. /\ \A K : Temp1(K)' = Temp1(K) /\ Temp2(K)' = Temp2(K)
          /\ \A p : Out(p)' = Out(p)
      BY <1>1, Frozen DEF Temp1, Temp2, Out
    <2>2. Differences => Differences'
      BY <1>1, <1>3, Frozen DEF Differences, Pass
    <2>3. Temporaries => Temporaries'
      BY <1>1, <1>3, <2>1, Frozen DEF Temporaries
    <2>4. Guides => Guides'
      BY <1>1, <1>2, Frozen DEF Guides, Refined
    <2>5. Outputs => Outputs'
      BY <1>1, <1>2, <2>1, Frozen DEF Outputs
    <2> QED BY <2>2, <2>3, <2>4, <2>5 DEF Flow
  <1> QED BY <1>1, <1>4, <1>5, <1>6, Frozen DEF Data, InBatch

\* A chain passes on what its temporaries hold.
LEMMA TempsPass ==
    ASSUME NEW K, 1 \in K, NEW v
    PROVE  /\ Full(Temp1(K), v) => Passed(Temp1(K)) = v
           /\ Full(Temp2(K), v) => Passed(Temp2(K)) = v
  <1>1. PICK x : x \in Temp1(K)
    BY DEF Temp1, Array
  <1>2. PICK y : y \in Temp2(K)
    BY DEF Temp2, Array
  <1> QED BY <1>1, <1>2, PassedIs DEF Full

\* A flow starts from the features of its level.
LEMMA FineIs ==
    ASSUME Inv, Data, Warm, at.part \in {"gamma", "delta"}
    PROVE  Warp(Fine) = Warped(at.pass) /\ at.level \in Pyramid
  <1>1. at.level \in Pyramid
    BY DEF Inv, Place, First, Pyramid
  <1>2. Fine \in Pyramid
    BY <1>1 DEF Fine, Pyramid
  <1>3. Now(Fine) /\ InBatch
    BY <1>2 DEF Data, Features, Later, Pass, InBatch
  <1> QED BY <1>1, <1>2, <1>3, WarpIs

\* What a coarser level has refined guides.
LEMMA CoarserIs ==
    ASSUME Inv, Guides, at.part \in {"gamma", "delta"}
    PROVE  /\ \A g \in Coarser(0, "gamma", 1) : Content(g) = Flowing(at.pass)
           /\ at.part = "delta" =>
                /\ \A g \in Coarser(First, "gamma", 1) : Content(g) = Flowing(at.pass)
                /\ \A g \in Coarser(First, "delta", 1) : Content(g) = Flowing(at.pass)
                /\ \A g \in Coarser(First, "delta", 2) : Content(g) = Warped(at.pass)
  <1>1. at.level \in Nat /\ First \in Nat /\ (at.part = "delta" => at.level >= First)
    BY DEF Inv, Place, Spots, First
  <1>2. /\ at.level > 0 => Content(Image("gamma", at.level - 1, 1)) = Flowing(at.pass)
        /\ at.level > First =>
             /\ Content(Image("delta", at.level - 1, 1)) = Flowing(at.pass)
             /\ Content(Image("delta", at.level - 1, 2)) = Warped(at.pass)
    BY DEF Guides, Refined
  <1>3. First > 0
    BY DEF First
  <1> QED BY <1>1, <1>2, <1>3 DEF Coarser

\* What a stage of a flow computes.
Carries(stage) == IF stage = 4 THEN Flowing(at.pass) ELSE Warped(at.pass)

\* Gamma computes the warp of its pass, and joins it with the differences last.
LEMMA GammaIs ==
    ASSUME Inv, Data, Warm, at.part = "gamma"
    PROVE  GammaValue = Carries(at.stage)
  <1>1. /\ at.stage \in 0 .. 4 /\ Temporaries /\ Guides /\ Differences
    BY DEF Inv, Place, Data, Flow, InBatch
  <1>2. /\ 1 \in Wide /\ 1 \in 1 .. 3
    BY DEF Wide
  <1>3. CASE at.stage = 0
    BY <1>1, <1>3, FineIs, CoarserIs, GuidedIs DEF GammaValue, Carries
  <1>4. CASE at.stage = 1
    <2>1. GammaValue = Passed(Temp1(1 .. 3))
      BY <1>4 DEF GammaValue, GammaBindings, Uses
    <2> QED BY <1>1, <1>2, <1>4, <2>1, TempsPass DEF Temporaries, Carries
  <1>5. CASE at.stage = 2
    <2>1. GammaValue = Passed(Temp2(Wide))
      BY <1>5 DEF GammaValue, GammaBindings, Uses
    <2> QED BY <1>1, <1>2, <1>5, <2>1, TempsPass DEF Temporaries, Carries
  <1>6. CASE at.stage = 3
    <2>1. GammaValue = Passed(Temp1(Wide))
      BY <1>6 DEF GammaValue, GammaBindings, Uses
    <2> QED BY <1>1, <1>2, <1>6, <2>1, TempsPass DEF Temporaries, Carries
  <1>7. CASE at.stage = 4
    <2>1. Passed(Temp2(Wide)) = Warped(at.pass)
      BY <1>1, <1>2, <1>7, TempsPass DEF Temporaries
    <2>2. Full(BetaOuts, Differs)
      BY <1>1 DEF Differences, Pass
    <2>3. GammaValue = Joined(Warped(at.pass), Coarser(0, "gamma", 1))
      BY <1>7, <2>1 DEF GammaValue
    <2>4. \A g \in Coarser(0, "gamma", 1) : Content(g) \in {Warped(at.pass), Flowing(at.pass)}
      BY <1>1, CoarserIs
    <2>5. at.level \in Pyramid
      BY FineIs
    <2> QED BY <1>7, <2>2, <2>3, <2>4, <2>5, JoinedIs DEF Carries
  <1> QED BY <1>1, <1>3, <1>4, <1>5, <1>6, <1>7

\* Delta does the same, and refines the warp a second time.
LEMMA DeltaIs ==
    ASSUME Inv, Data, Warm, at.part = "delta"
    PROVE  DeltaValue = Carries(at.stage)
  <1>1. /\ at.stage \in 0 .. 9 /\ Temporaries /\ Guides /\ Differences
    BY DEF Inv, Place, Data, Flow, InBatch
  <1>2. /\ 1 \in Wide /\ 1 \in 1 .. 3 /\ 1 \in Narrow
    BY DEF Wide, Narrow
  <1>3. /\ \A g \in Coarser(First, "gamma", 1) : Content(g) = Flowing(at.pass)
        /\ \A g \in Coarser(First, "delta", 1) : Content(g) = Flowing(at.pass)
        /\ \A g \in Coarser(First, "delta", 2) : Content(g) = Warped(at.pass)
    BY <1>1, CoarserIs
  <1>4. Warp(Fine) = Warped(at.pass) /\ at.level \in Pyramid
    BY FineIs
  <1>5. CASE at.stage = 0
    BY <1>3, <1>4, <1>5, GuidedIs DEF DeltaValue, Carries
  <1>6. CASE at.stage = 1
    <2>1. DeltaValue = Passed(Temp1(1 .. 3))
      BY <1>6 DEF DeltaValue, DeltaBindings, Uses
    <2> QED BY <1>1, <1>2, <1>6, <2>1, TempsPass DEF Temporaries, Carries
  <1>7. CASE at.stage = 2
    <2>1. DeltaValue = Passed(Temp2(Wide))
      BY <1>7 DEF DeltaValue, DeltaBindings, Uses
    <2> QED BY <1>1, <1>2, <1>7, <2>1, TempsPass DEF Temporaries, Carries
  <1>8. CASE at.stage = 3
    <2>1. DeltaValue = Passed(Temp1(Wide))
      BY <1>8 DEF DeltaValue, DeltaBindings, Uses
    <2> QED BY <1>1, <1>2, <1>8, <2>1, TempsPass DEF Temporaries, Carries
  <1>9. CASE at.stage = 4
    <2>1. Passed(Temp2(Wide)) = Warped(at.pass)
      BY <1>1, <1>2, <1>9, TempsPass DEF Temporaries
    <2>2. Full(BetaOuts, Differs)
      BY <1>1 DEF Differences, Pass
    <2>3. DeltaValue = Joined(Warped(at.pass), Coarser(First, "gamma", 1))
      BY <1>9, <2>1 DEF DeltaValue
    <2>4. \A g \in Coarser(First, "gamma", 1) : Content(g) \in {Warped(at.pass), Flowing(at.pass)}
      BY <1>3
    <2> QED BY <1>4, <1>9, <2>2, <2>3, <2>4, JoinedIs DEF Carries
  <1>10. CASE at.stage = 5
    <2>1. DeltaValue = Guided(Warped(at.pass), Coarser(First, "gamma", 1)
                                                 \cup Coarser(First, "delta", 1))
      BY <1>4, <1>10 DEF DeltaValue
    <2> QED BY <1>3, <1>10, <2>1, GuidedIs DEF Carries
  <1>11. CASE at.stage \in {6, 8}
    <2>1. DeltaValue = Passed(Temp2(Narrow))
      BY <1>11 DEF DeltaValue, DeltaBindings, Uses
    <2> QED BY <1>1, <1>2, <1>11, <2>1, TempsPass DEF Temporaries, Carries
  <1>12. CASE at.stage = 7
    <2>1. DeltaValue = Passed(Temp1(Narrow))
      BY <1>12 DEF DeltaValue, DeltaBindings, Uses
    <2> QED BY <1>1, <1>2, <1>12, <2>1, TempsPass DEF Temporaries, Carries
  <1>13. CASE at.stage = 9
    <2>1. Passed(Temp1(Narrow)) = Warped(at.pass)
      BY <1>1, <1>2, <1>13, TempsPass DEF Temporaries
    <2>2. DeltaValue = Guided(Warped(at.pass), Coarser(First, "delta", 2))
      BY <1>13, <2>1 DEF DeltaValue
    <2> QED BY <1>3, <1>13, <2>2, GuidedIs DEF Carries
  <1> QED BY <1>1, <1>5, <1>6, <1>7, <1>8, <1>9, <1>10, <1>11, <1>12, <1>13

\* A flow leaves the differences and the frames generated so far alone.
LEMMA PassKept ==
    ASSUME Flow, at.part \in {"gamma", "delta"}, at'.part \in {"gamma", "delta", "generate"},
           at'.pass = at.pass, Going,
           \A i : i[2] \in {"beta", "out", "sharedOut"} => Content(i)' = Content(i)
    PROVE  Differences' /\ Outputs'
  <1>1. Full(BetaOuts, Differs) /\ \A p \in Nat : p < at.pass => Content(SharedOut(p)) = Result(p)
    BY DEF Flow, Differences, Outputs, Pass
  <1>2. /\ \A i \in BetaOuts : i[2] = "beta"
        /\ \A p : SharedOut(p)[2] \in {"out", "sharedOut"}
    BY Names DEF BetaOuts, SharedOut, Out
  <1>3. Full(BetaOuts, Differs)'
    BY <1>1, <1>2, Frozen DEF Full
  <1>4. \A p \in Nat : p < at.pass => Content(SharedOut(p))' = Result(p)'
    BY <1>1, <1>2, Frozen
  <1> QED BY <1>3, <1>4 DEF Differences, Outputs, Pass

\* The temporaries of a chain keep their names from one stage to the next.
LEMMA TempsStay ==
    ASSUME Going, at'.part = at.part, at'.level = at.level
    PROVE  \A K : Temp1(K)' = Temp1(K) /\ Temp2(K)' = Temp2(K)
  BY Frozen DEF Temp1, Temp2

\* A stage of gamma writes the temporaries the next one reads, and last its level.
LEMMA GammaKeepsData == ASSUME Inv, Data, Gamma PROVE Data'
  <1>1. /\ at.part = "gamma" /\ Run("gamma", GammaValue) /\ Going
        /\ at' = IF at.stage < 4 THEN [at EXCEPT !.stage = at.stage + 1]
                 ELSE IF at.level < First THEN At("gamma", at.level + 1, 0, at.pass)
                 ELSE At("delta", at.level, 0, at.pass)
        /\ at.stage \in 0 .. 4 /\ at.level \in Nat /\ First \in Nat
    BY DEF Gamma, Run, Going, Inv, Place, Spots, First
  <1>2. /\ at.stage < 4 => /\ at'.part = "gamma" /\ at'.stage = at.stage + 1
                           /\ at'.level = at.level
        /\ ~(at.stage < 4) /\ at.level < First => /\ at'.part = "gamma" /\ at'.stage = 0
                                                  /\ at'.level = at.level + 1
        /\ ~(at.stage < 4) /\ ~(at.level < First) => /\ at'.part = "delta" /\ at'.stage = 0
                                                     /\ at'.level = at.level
        /\ at'.pass = at.pass
    BY <1>1, NextStage DEF Inv, At
  <1>3. at'.part \in {"gamma", "delta"}
    BY <1>2
  <1>4. Sources' /\ Features'
    BY <1>1, <1>3, LaterRunKeeps DEF Later, Pass
  <1>5. ASSUME Warm PROVE Flow'
    <2>1. \A i : Content(i)' = IF i \in Bindings.writes THEN Carries(at.stage) ELSE Content(i)
      BY <1>1, <1>5, GammaIs, Contents
    <2>2. Flow
      BY <1>1, <1>5 DEF Data, InBatch
    <2>3. /\ \A p : Warped(p)' = Warped(p) /\ Flowing(p)' = Flowing(p)
          /\ \A name, level, k : Image(name, level, k)' = Image(name, level, k)
          /\ Wide' = Wide /\ First' = First
      BY <1>1, Frozen DEF First
    <2>4. Differences' /\ Outputs'
      <3>1. \A i : i[2] \in {"beta", "out", "sharedOut"} => i[2] \notin Named("gamma")
        BY DEF Named
      <3>2. "gamma" \in Shaders
        BY DEF Shaders
      <3>3. \A i : i[2] \in {"beta", "out", "sharedOut"} => Content(i)' = Content(i)
        BY <1>1, <3>1, <3>2, RunKeeps
      <3> QED BY <1>1, <1>2, <1>3, <2>2, <3>3, PassKept
    <2>5. PICK level \in Nat, pass \in {at.pass} : level = at.level
      BY <1>1
    <2>6. /\ level > 0 => Refined(level - 1, "gamma", 1, Flowing(pass))
          /\ level > First => /\ Refined(level - 1, "delta", 1, Flowing(pass))
                              /\ Refined(level - 1, "delta", 2, Warped(pass))
      BY <1>1, <2>2, <2>5 DEF Flow, Guides
    <2>7. CASE at.stage < 4
      <3>1. \A K : Temp1(K)' = Temp1(K) /\ Temp2(K)' = Temp2(K)
        BY <1>1, <1>2, <2>7, TempsStay
      <3>2. /\ at.stage = 0 => Bindings.writes = Temp1(1 .. 3)
            /\ at.stage = 1 => Bindings.writes = Temp2(Wide)
            /\ at.stage = 2 => Bindings.writes = Temp1(Wide)
            /\ at.stage = 3 => Bindings.writes = Temp2(Wide)
        BY <1>1 DEF Bindings, GammaBindings, Uses
      <3>3. /\ at.stage = 0 => Full(Temp1(1 .. 3), Warped(at.pass))'
            /\ at.stage = 1 => Full(Temp2(Wide), Warped(at.pass))'
            /\ at.stage = 2 => Full(Temp1(Wide), Warped(at.pass))'
            /\ at.stage = 3 => Full(Temp2(Wide), Warped(at.pass))'
        BY <1>2, <2>1, <2>3, <3>1, <3>2 DEF Full, Carries
      <3>4. Temporaries'
        BY <1>1, <1>2, <2>7, <3>3 DEF Temporaries
      <3>5. \A i : i[2] \in {"gamma", "delta"} => Content(i)' = Content(i)
        <4>1. \A K : \A i \in Temp1(K) \cup Temp2(K) : i[2] \notin {"gamma", "delta"}
          BY <1>1, Names DEF Temp1, Temp2
        <4> QED BY <1>1, <2>1, <2>7, <3>2, <4>1
      <3>6. \A l, n : \A part \in {"gamma", "delta"} :
              Content(Image(part, l, n))' = Content(Image(part, l, n))
        BY <2>3, <3>5, Names
      <3>7. Guides'
        BY <1>2, <2>3, <2>5, <2>6, <2>7, <3>6 DEF Guides, Refined
      <3> QED BY <2>4, <3>4, <3>7 DEF Flow
    <2>8. CASE ~(at.stage < 4)
      <3>1. at.stage = 4 /\ Bindings.writes = {Image("gamma", at.level, 1)}
        BY <1>1, <2>8 DEF Bindings, GammaBindings, Uses
      <3>2. Refined(level, "gamma", 1, Flowing(pass))'
        BY <2>1, <2>3, <2>5, <3>1 DEF Refined, Carries
      <3>3. \A l, n : \A part \in {"gamma", "delta"} :
              (part # "gamma" \/ l # level) =>
                Content(Image(part, l, n))' = Content(Image(part, l, n))
        <4>1. \A l, n : \A part \in {"gamma", "delta"} :
                (part # "gamma" \/ l # level) => Image(part, l, n) \notin Bindings.writes
          BY <2>5, <3>1 DEF Image
        <4> QED BY <2>1, <2>3, <4>1
      <3>4. /\ level > 0 => Refined(level - 1, "gamma", 1, Flowing(pass))'
            /\ level > First => /\ Refined(level - 1, "delta", 1, Flowing(pass))'
                                /\ Refined(level - 1, "delta", 2, Warped(pass))'
        <4>1. level - 1 # level
          BY <2>5
        <4> QED BY <2>3, <2>6, <3>3, <4>1 DEF Refined
      <3>5. Guides'
        <4>1. CASE at.level < First
          BY <1>1, <1>2, <2>3, <2>5, <2>8, <3>2, <4>1 DEF Guides, Refined
        <4>2. CASE ~(at.level < First)
          BY <1>1, <1>2, <2>3, <2>5, <2>8, <3>2, <3>4, <4>2 DEF Guides, Refined
        <4> QED BY <4>1, <4>2
      <3>6. Temporaries'
        BY <1>2, <2>8 DEF Temporaries
      <3> QED BY <2>4, <3>5, <3>6 DEF Flow
    <2> QED BY <2>7, <2>8
  <1> QED BY <1>1, <1>4, <1>5, Frozen DEF Data

\* A stage of delta the same, with a result after its fifth and its last.
LEMMA DeltaKeepsData == ASSUME Inv, Data, Delta PROVE Data'
  <1>1. /\ at.part = "delta" /\ Run("delta", DeltaValue) /\ Going
        /\ at' = IF at.stage < 9 THEN [at EXCEPT !.stage = at.stage + 1]
                 ELSE IF at.level < Levels - 1 THEN At("gamma", at.level + 1, 0, at.pass)
                 ELSE At("generate", 0, 0, at.pass)
        /\ at.stage \in 0 .. 9 /\ at.level \in Nat /\ First \in Nat
        /\ First <= at.level /\ at.level <= Levels - 1
    BY DEF Delta, Run, Going, Inv, Place, Spots, First
  <1>2. /\ at.stage < 9 => /\ at'.part = "delta" /\ at'.stage = at.stage + 1
                           /\ at'.level = at.level
        /\ ~(at.stage < 9) /\ at.level < Levels - 1 => /\ at'.part = "gamma" /\ at'.stage = 0
                                                       /\ at'.level = at.level + 1
        /\ ~(at.stage < 9) /\ ~(at.level < Levels - 1) => at'.part = "generate"
        /\ at'.pass = at.pass
    BY <1>1, NextStage DEF Inv, At
  <1>3. at'.part \in {"gamma", "delta", "generate"}
    BY <1>2
  <1>4. Sources' /\ Features'
    BY <1>1, <1>3, LaterRunKeeps DEF Later, Pass
  <1>5. ASSUME Warm PROVE Flow'
    <2>1. \A i : Content(i)' = IF i \in Bindings.writes THEN Carries(at.stage) ELSE Content(i)
      BY <1>1, <1>5, DeltaIs, Contents
    <2>2. Flow
      BY <1>1, <1>5 DEF Data, InBatch
    <2>3. /\ \A p : Warped(p)' = Warped(p) /\ Flowing(p)' = Flowing(p)
          /\ \A name, level, k : Image(name, level, k)' = Image(name, level, k)
          /\ Wide' = Wide /\ Narrow' = Narrow /\ First' = First
      BY <1>1, Frozen DEF First
    <2>4. Differences' /\ Outputs'
      <3>1. \A i : i[2] \in {"beta", "out", "sharedOut"} => i[2] \notin Named("delta")
        BY DEF Named
      <3>2. "delta" \in Shaders
        BY DEF Shaders
      <3>3. \A i : i[2] \in {"beta", "out", "sharedOut"} => Content(i)' = Content(i)
        BY <1>1, <3>1, <3>2, RunKeeps
      <3> QED BY <1>1, <1>2, <1>3, <2>2, <3>3, PassKept
    <2>5. PICK level \in Nat, pass \in {at.pass} : level = at.level
      BY <1>1
    <2>6. /\ Refined(level, "gamma", 1, Flowing(pass))
          /\ at.stage >= 5 => Refined(level, "delta", 1, Flowing(pass))
          /\ level > 0 => Refined(level - 1, "gamma", 1, Flowing(pass))
          /\ level > First => /\ Refined(level - 1, "delta", 1, Flowing(pass))
                              /\ Refined(level - 1, "delta", 2, Warped(pass))
      BY <1>1, <2>2, <2>5 DEF Flow, Guides
    <2>7. CASE at.stage \notin {4, 9}
      <3>1. at'.part = "delta" /\ at'.stage = at.stage + 1 /\ at'.level = at.level
        BY <1>1, <1>2, <2>7
      <3>2. \A K : Temp1(K)' = Temp1(K) /\ Temp2(K)' = Temp2(K)
        BY <1>1, <3>1, TempsStay
      <3>3. /\ at.stage = 0 => Bindings.writes = Temp1(1 .. 3)
            /\ at.stage = 1 => Bindings.writes = Temp2(Wide)
            /\ at.stage = 2 => Bindings.writes = Temp1(Wide)
            /\ at.stage = 3 => Bindings.writes = Temp2(Wide)
            /\ at.stage = 5 => Bindings.writes = Temp2(Narrow)
            /\ at.stage = 6 => Bindings.writes = Temp1(Narrow)
            /\ at.stage = 7 => Bindings.writes = Temp2(Narrow)
            /\ at.stage = 8 => Bindings.writes = Temp1(Narrow)
        BY <1>1 DEF Bindings, DeltaBindings, Uses
      <3>4. at.stage \in {0, 1, 2, 3, 5, 6, 7, 8}
        BY <1>1, <2>7
      <3>5. \A i \in Bindings.writes : Content(i)' = Warped(at.pass)
        BY <2>1, <2>7 DEF Carries
      <3>6. /\ at.stage = 0 => Full(Temp1(1 .. 3), Warped(at.pass))'
            /\ at.stage = 1 => Full(Temp2(Wide), Warped(at.pass))'
            /\ at.stage = 2 => Full(Temp1(Wide), Warped(at.pass))'
            /\ at.stage = 3 => Full(Temp2(Wide), Warped(at.pass))'
            /\ at.stage \in {5, 7} => Full(Temp2(Narrow), Warped(at.pass))'
            /\ at.stage \in {6, 8} => Full(Temp1(Narrow), Warped(at.pass))'
        BY <1>2, <2>3, <3>2, <3>3, <3>5 DEF Full
      <3>7. Temporaries'
        BY <3>1, <3>4, <3>6 DEF Temporaries
      <3>8. \A i : i[2] \in {"gamma", "delta"} => Content(i)' = Content(i)
        <4>1. \A K : \A i \in Temp1(K) \cup Temp2(K) : i[2] \notin {"gamma", "delta"}
          BY <1>1, Names DEF Temp1, Temp2
        <4> QED BY <2>1, <3>3, <3>4, <4>1
      <3>9. \A l, n : \A part \in {"gamma", "delta"} :
              Content(Image(part, l, n))' = Content(Image(part, l, n))
        BY <2>3, <3>8, Names
      <3>10. at.stage # 4
        BY <2>7
      <3>11. at.stage + 1 >= 5 => at.stage >= 5
        BY <3>4
      <3>12. Guides'
        BY <1>2, <2>3, <2>5, <2>6, <3>1, <3>9, <3>11 DEF Guides, Refined
      <3> QED BY <2>4, <3>7, <3>12 DEF Flow
    <2>8. CASE at.stage = 4
      <3>1. Bindings.writes = {Image("delta", at.level, 1)}
        BY <1>1, <2>8 DEF Bindings, DeltaBindings, Uses
      <3>2. Refined(level, "delta", 1, Flowing(pass))'
        BY <2>1, <2>3, <2>5, <2>8, <3>1 DEF Refined, Carries
      <3>3. \A l, n : \A part \in {"gamma", "delta"} :
              (part # "delta" \/ l # level) =>
                Content(Image(part, l, n))' = Content(Image(part, l, n))
        <4>1. \A l, n : \A part \in {"gamma", "delta"} :
                (part # "delta" \/ l # level) => Image(part, l, n) \notin Bindings.writes
          BY <2>5, <3>1 DEF Image
        <4> QED BY <2>1, <2>3, <4>1
      <3>4. /\ Refined(level, "gamma", 1, Flowing(pass))'
            /\ level > 0 => Refined(level - 1, "gamma", 1, Flowing(pass))'
            /\ level > First => /\ Refined(level - 1, "delta", 1, Flowing(pass))'
                                /\ Refined(level - 1, "delta", 2, Warped(pass))'
        <4>1. level - 1 # level
          BY <2>5
        <4> QED BY <2>3, <2>6, <3>3, <4>1 DEF Refined
      <3>5. at'.part = "delta" /\ at'.stage = 5 /\ at'.level = at.level
        BY <1>1, <1>2, <2>8
      <3>6. Guides'
        BY <1>2, <2>3, <2>5, <3>2, <3>4, <3>5 DEF Guides, Refined
      <3>7. Temporaries'
        BY <3>5 DEF Temporaries
      <3> QED BY <2>4, <3>6, <3>7 DEF Flow
    <2>9. CASE at.stage = 9
      <3>1. Bindings.writes = {Image("delta", at.level, 2)}
        BY <1>1, <2>9 DEF Bindings, DeltaBindings, Uses
      <3>2. Refined(level, "delta", 2, Warped(pass))'
        BY <2>1, <2>3, <2>5, <2>9, <3>1 DEF Refined, Carries
      <3>3. \A part \in {"gamma", "delta"} :
              Content(Image(part, level, 1))' = Content(Image(part, level, 1))
        <4>1. \A part \in {"gamma", "delta"} : Image(part, level, 1) \notin Bindings.writes
          BY <2>5, <3>1 DEF Image
        <4> QED BY <2>1, <2>3, <4>1
      <3>4. Refined(level, "gamma", 1, Flowing(pass))' /\ Refined(level, "delta", 1, Flowing(pass))'
        BY <2>3, <2>6, <2>9, <3>3 DEF Refined
      <3>5. Guides'
        <4>1. CASE at.level < Levels - 1
          <5>1. at'.part = "gamma" /\ at'.level = at.level + 1
            BY <1>1, <1>2, <2>9, <4>1
          <5> QED BY <1>1, <1>2, <2>3, <2>5, <3>2, <3>4, <5>1 DEF Guides, Refined
        <4>2. CASE ~(at.level < Levels - 1)
          <5>1. at'.part = "generate" /\ level = Levels - 1
            BY <1>1, <1>2, <2>5, <2>9, <4>2
          <5> QED BY <1>1, <1>2, <2>3, <2>5, <3>2, <3>4, <5>1 DEF Guides, Refined
        <4> QED BY <4>1, <4>2
      <3>6. Temporaries'
        BY <1>1, <1>2, <2>9 DEF Temporaries
      <3> QED BY <2>4, <3>5, <3>6 DEF Flow
    <2> QED BY <2>7, <2>8, <2>9
  <1> QED BY <1>1, <1>4, <1>5, Frozen DEF Data

\* The generated frame lies between the two sources, along the finest flow.
LEMMA GenerateIs ==
    ASSUME Inv, Data, Warm, at.part = "generate"
    PROVE  GenerateValue = Result(at.pass)
  <1>1. InBatch /\ Sources /\ Flow /\ frame \in Nat
    BY DEF InBatch, Data, Inv, Numbers
  <1>2. /\ Content(Image("gamma", Levels - 1, 1)) = Flowing(at.pass)
        /\ \A g \in Finest : Content(g) \in {Warped(at.pass), Flowing(at.pass)}
    BY <1>1 DEF Flow, Guides, Refined, Finest
  <1>3. /\ Content(In(frame % 2)) = Of(frame) /\ Content(In(1 - (frame % 2))) = Of(Earlier)
    BY <1>1 DEF Sources
  <1>4. Of(frame).cur = frame /\ Of(Earlier).cur = Earlier
    BY Values, Members
  <1> DEFINE t == <<at.pass + 1, batch.count + 1>>
  <1>5. /\ Flowing(at.pass) = Rec(None, None, Since(frame - 2), Since(frame - 1), frame, t)
        /\ Result(at.pass) = Rec(Earlier, frame, Since(frame - 2), Since(frame - 1), frame, t)
        /\ Warped(at.pass) = Rec(None, None, None, Since(frame - 1), frame, t)
    BY Values
  <1>6. Time = t
    BY DEF Time
  <1>7. Flowing(at.pass).time = Time
    <2> HIDE DEF t
    <2> QED BY <1>5, <1>6, Members
  <1>8. /\ Guided(Result(at.pass), Finest) = Result(at.pass)
    <2> HIDE DEF t
    <2>1. \A x \in {Warped(at.pass), Flowing(at.pass), Result(at.pass)} :
            x.prev = Since(frame - 1) /\ x.cur = frame /\ x.time = t
      BY <1>5, Members
    <2> QED BY <1>2, <2>1 DEF Guided
  <1> QED BY <1>2, <1>3, <1>4, <1>7, <1>8 DEF GenerateValue, Result

\* Generating leaves the frame where the release looks for it.
LEMMA GenerateKeepsData == ASSUME Inv, Data, Generate PROVE Data'
  <1>1. /\ at.part = "generate" /\ Run("generate", GenerateValue) /\ Going
        /\ at' = At("release", 0, 0, at.pass) /\ at.pass \in Nat
    BY DEF Generate, Run, Going, Inv, Place, Spots
  <1>2. at'.part = "release" /\ at'.pass = at.pass
    BY <1>1 DEF At
  <1>3. Sources' /\ Features'
    BY <1>1, <1>2, LaterRunKeeps DEF Later, Pass
  <1>4. ASSUME Warm PROVE Flow'
    <2>1. \A i : Content(i)' = IF i = Out(at.pass) THEN Result(at.pass) ELSE Content(i)
      <3>1. Bindings.writes = {Out(at.pass)}
        BY <1>1 DEF Bindings, GenerateBindings, Uses
      <3> QED BY <1>1, <1>4, <3>1, GenerateIs, Contents
    <2>2. Full(BetaOuts, Differs) /\ \A p \in Nat : p < at.pass => Content(SharedOut(p)) = Result(p)
      BY <1>1, <1>4 DEF Data, Flow, Differences, Outputs, Pass, InBatch
    <2>3. /\ \A i \in BetaOuts : i # Out(at.pass)
          /\ \A p \in Nat : p < at.pass => SharedOut(p) # Out(at.pass)
      BY <1>1, Names DEF BetaOuts, SharedOut, Out
    <2>4. Full(BetaOuts, Differs)'
      BY <1>1, <2>1, <2>2, <2>3, Frozen DEF Full
    <2>5. \A p \in Nat : p < at.pass => Content(SharedOut(p))' = Result(p)'
      BY <1>1, <2>1, <2>2, <2>3, Frozen
    <2>6. Content(Out(at.pass))' = Result(at.pass)'
      <3>1. Out(at.pass)' = Out(at.pass) /\ Result(at.pass)' = Result(at.pass)
        BY <1>1, <1>2, Frozen DEF Out
      <3> QED BY <2>1, <3>1
    <2>7. Differences' /\ Outputs'
      BY <1>2, <2>4, <2>5, <2>6 DEF Differences, Outputs, Pass
    <2>8. Temporaries' /\ Guides'
      BY <1>2 DEF Temporaries, Guides
    <2> QED BY <2>7, <2>8 DEF Flow
  <1> QED BY <1>1, <1>3, <1>4, Frozen DEF Data

\* The frame is returned, with those of the passes before untouched.
LEMMA ReleaseOutputKeepsData == ASSUME Inv, Data, ReleaseOutput PROVE Data'
  <1>1. /\ at.part = "release" /\ Going /\ at.pass \in Nat /\ batch.gens \in Nat
        /\ at.pass < batch.gens
        /\ content' = [i \in DOMAIN content \cup {SharedOut(at.pass)} |->
                         IF i = SharedOut(at.pass) THEN content[Out(at.pass)]
                         ELSE content[i]]
        /\ at' = IF at.pass + 1 < batch.gens THEN At("acquire", 0, 0, at.pass + 1)
                 ELSE At("end", 0, 0, 0)
    BY DEF ReleaseOutput, Going, Inv, Place, Spots, Pass, Numbers
  <1>2. /\ at.pass + 1 < batch.gens => at'.part = "acquire" /\ at'.pass = at.pass + 1
        /\ ~(at.pass + 1 < batch.gens) => at'.part = "end"
    BY <1>1 DEF At
  <1>3. /\ \A i : i # SharedOut(at.pass) => Content(i)' = Content(i)
        /\ DOMAIN content \subseteq DOMAIN content'
    BY <1>1 DEF Content
  <1>4. SharedOut(at.pass)[2] \in {"out", "sharedOut"}
    BY DEF SharedOut, Out
  <1>5. Sources' /\ Features'
    BY <1>1, <1>2, <1>3, <1>4, SourcesKept, FeaturesKept DEF Data, Later, Pass
  <1>6. ASSUME Warm PROVE Flow'
    <2>1. /\ Full(BetaOuts, Differs) /\ Content(Out(at.pass)) = Result(at.pass)
          /\ \A p \in Nat : p < at.pass => Content(SharedOut(p)) = Result(p)
      BY <1>1, <1>6 DEF Data, Flow, Differences, Outputs, Pass, InBatch
    <2>2. Out(at.pass) \in DOMAIN content
      <3>1. Result(at.pass) # Blank
        <4>1. Result(at.pass).cur = frame
          <5> DEFINE t == <<at.pass + 1, batch.count + 1>>
          <5>1. Result(at.pass) = Rec(Earlier, frame, Since(frame - 2), Since(frame - 1), frame, t)
            BY Values
          <5> HIDE DEF t
          <5> QED BY <5>1, Members
        <4>2. Blank.cur = None /\ frame \in Nat
          BY DEF Blank, Inv, Numbers
        <4> QED BY <4>1, <4>2 DEF None
      <3> QED BY <2>1, <3>1 DEF Content
    <2>3. PICK pass \in Nat : pass = at.pass
      BY <1>1
    <2>4. Content(SharedOut(pass))' = Result(pass)
      <3>1. SharedOut(pass)' = SharedOut(pass)
        BY <1>1, Frozen
      <3> QED BY <1>1, <2>1, <2>2, <2>3, <3>1 DEF Content
    <2>5. \A p \in Nat : p < pass + 1 => Content(SharedOut(p))' = Result(p)'
      <3>1. \A p \in Nat : p # pass => SharedOut(p) # SharedOut(pass)
        BY DEF SharedOut, Out
      <3>2. \A p \in Nat : p < pass => Content(SharedOut(p))' = Result(p)
        BY <1>1, <1>3, <2>1, <2>3, <3>1, Frozen
      <3>3. \A p \in Nat : p < pass + 1 => p < pass \/ p = pass
        OBVIOUS
      <3> QED BY <1>1, <2>4, <3>2, <3>3, Frozen
    <2>6. Full(BetaOuts, Differs)'
      BY <1>1, <1>3, <1>4, <2>1, Frozen, Names DEF Full, BetaOuts
    <2>7. Differences' /\ Outputs'
      <3>1. batch' = batch /\ (batch.gens <= pass + 1 \/ pass + 1 < batch.gens)
        BY <1>1, <2>3 DEF Going
      <3> QED BY <1>1, <1>2, <2>3, <2>5, <2>6 DEF Differences, Outputs, Pass, Going
    <2>8. Temporaries' /\ Guides'
      BY <1>2 DEF Temporaries, Guides
    <2> QED BY <2>7, <2>8 DEF Flow
  <1> QED BY <1>1, <1>5, <1>6, Frozen DEF Data

\* Every step keeps what the images hold.
LEMMA StepKeepsData == Inv /\ Data /\ [Next]_vars => Data'
  <1> SUFFICES ASSUME Inv, Data, [Next]_vars PROVE Data'
    OBVIOUS
  <1>1. CASE UNCHANGED vars \/ Barrier
    BY <1>1, DataStay DEF vars, Barrier
  <1> QED BY <1>1, BeginKeepsData, AcquireInputsKeepsData, MipmapsKeepsData,
             AlphaKeepsData, BetaKeepsData, ReleaseUnusedKeepsData, AcquireOutputKeepsData,
             GammaKeepsData, DeltaKeepsData, GenerateKeepsData, ReleaseOutputKeepsData,
             ReturnKeepsData DEF Next

\* The frames of a finished batch are the ones it was asked for.
LEMMA DataGivesPair == Inv /\ Data => InterpolatesOwnPair
  <1> SUFFICES ASSUME Inv, Data, at.part = "end", Warm, NEW p \in 0 .. batch.gens - 1
               PROVE  Content(SharedOut(p)) =
                        [from |-> Earlier, to |-> frame,
                         before |-> Since(frame - 2), prev |-> Since(frame - 1), cur |-> frame,
                         time |-> <<p + 1, batch.count + 1>>]
    BY DEF InterpolatesOwnPair
  <1>1. p \in Nat /\ p < batch.gens
    BY DEF Inv, Numbers
  <1>2. Content(SharedOut(p)) = Result(p)
    BY <1>1 DEF Data, Flow, Outputs, InBatch
  <1> QED BY <1>2, Values DEF Rec

\* Every generated frame lies between the two newest sources, at its own time of the
\* count it was prebuilt for, along a flow of exactly these frames or of those since
\* the history was seeded: the slot arithmetic of Alpha, Beta, Gamma and Delta agrees
\* over any number of batches, resets and changes of the flow graph in Context::present.
THEOREM OutputsAreOfTheirPair == Spec => []InterpolatesOwnPair
  <1>1. Init => Inv /\ Data
    BY InitInv, InitData
  <1>2. Inv /\ Data /\ [Next]_vars => Inv' /\ Data'
    BY StepKeepsInv, StepKeepsData
  <1>3. Inv /\ Data => InterpolatesOwnPair
    BY DataGivesPair
  <1> QED BY <1>1, <1>2, <1>3, PTL DEF Spec

=============================================================================
