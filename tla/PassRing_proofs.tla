--------------------------- MODULE PassRing_proofs ---------------------------
(***************************************************************************)
(* The ring of passes, for every length of the ring, every number of       *)
(* images, of generated frames and of failing calls.                       *)
(*                                                                         *)
(* Inv, for the entries: the code looks at one fence per entry.  That is   *)
(* enough because the fence is queued behind everything else the entry was *)
(* used for (Last), not while the entry is in use (Once), and because work *)
(* without a fence behind it belongs to an entry in use or given up        *)
(* (Covered).  PassRing implements RetirementRing.                         *)
(*                                                                         *)
(* FenceInv, for the marks: a fence is on the queue once or has signalled, *)
(* as long as it is marked; the outputs a batch has still to present are   *)
(* not marked.                                                             *)
(*                                                                         *)
(* ConsumerInv, for the queues: whatever is waited for has been or is      *)
(* going to be signalled, a semaphore that is due has not been waited for  *)
(* (Fresh), and presents of one image keep their order (GameOrder).        *)
(*                                                                         *)
(* OwnerInv, for the owners: an entry keeps what its submissions use until *)
(* its fence, and a present may need what an entry took over from an image *)
(* only while the copy into that image has not started (Acq).              *)
(***************************************************************************)
EXTENDS PassRing, FiniteSetTheorems, SequenceTheorems, TLAPS

Active(k) == pc \in {"copied", "sent"} /\ k = Slot

Queued(k) == {i \in DOMAIN gpu : PassFence(k) \in gpu[i].fences}

IsPass(p) ==
    /\ p = [own |-> p.own, fence |-> p.fence, armed |-> p.armed, batch |-> p.batch,
            crossFrame |-> p.crossFrame, acquired |-> p.acquired]
    /\ p.fence \in {"idle", "submitted", "failed"}

IsSubmission(o) ==
    /\ o = [slot |-> o.slot, waits |-> o.waits, signals |-> o.signals,
            fences |-> o.fences, ahead |-> o.ahead]
    /\ o.slot \in Slots \cup {None}

Shape ==
    /\ frame \in Nat
    /\ pc \in {"idle", "copied", "sent", "stale"}
    /\ pass = [k \in Slots |-> pass[k]]
    /\ \A k \in Slots : IsPass(pass[k])

GpuShape ==
    /\ gpu \in Seq(Members(gpu))
    /\ \A i \in DOMAIN gpu : IsSubmission(gpu[i])

\* A fence is queued behind all the work of its entry.
Last ==
    \A k \in Slots : \A i \in Queued(k) :
        /\ gpu[i].slot = k
        /\ \A j \in DOMAIN gpu : gpu[j].slot = k => j <= i

\* A fence that is queued is marked so, has not signalled, and its entry is not
\* in use; the fence of an entry in use is reset.
Once ==
    \A k \in Slots :
        /\ Queued(k) # {} => /\ pass[k].fence = "submitted"
                             /\ PassFence(k) \notin fences
        /\ Active(k) => pass[k].fence = "idle" /\ PassFence(k) \notin fences

\* Work that is left has its fence behind it, or its entry is in use or lost.
Covered ==
    \A k \in Slots : \A j \in DOMAIN gpu :
        gpu[j].slot = k => Active(k) \/ pass[k].fence = "failed" \/ Queued(k) # {}

Inv == Shape /\ GpuShape /\ Last /\ Once /\ Covered

Busy == {o.slot : o \in Members(gpu)} \ {None}

-----------------------------------------------------------------------------
(* The entries of the ring. *)

\* The entry at hand is one of the ring.
LEMMA SlotsInRange ==
    ASSUME frame \in Nat
    PROVE  Slot \in Slots /\ Before \in Slots
  BY PassRingAssumption DEF Slot, Before, Slots

\* At first no entry is used and nothing is queued.
LEMMA InitInv == Init => Inv /\ Abstract!Init
  <1> SUFFICES ASSUME Init PROVE Inv /\ Abstract!Init
    OBVIOUS
  <1>1. Shape
    BY DEF Init, Shape, IsPass, Unused
  <1>2. gpu = <<>> /\ DOMAIN gpu = {} /\ Members(gpu) = {}
    BY DEF Init, Members
  <1>3. GpuShape
    BY <1>2 DEF GpuShape
  <1>4. Last /\ Covered
    BY <1>2 DEF Last, Covered, Queued
  <1>5. Once
    BY <1>2 DEF Once, Queued, Active, Init
  <1>6. Abstract!Init
    BY <1>2 DEF Abstract!Init, Init
  <1> QED BY <1>1, <1>3, <1>4, <1>5, <1>6 DEF Inv

\* An entry stays one when members of it are assigned.
LEMMA FenceUpdate ==
    ASSUME NEW p, IsPass(p), NEW f \in {"idle", "submitted", "failed"}
    PROVE  IsPass([p EXCEPT !.fence = f]) /\ [p EXCEPT !.fence = f].fence = f
  <1>1. [p EXCEPT !.fence = f] =
            [own |-> p.own, fence |-> f, armed |-> p.armed, batch |-> p.batch,
             crossFrame |-> p.crossFrame, acquired |-> p.acquired]
    BY DEF IsPass
  <1> QED BY <1>1 DEF IsPass

\* An entry stays one when a member other than its fence changes.
LEMMA EntryUpdates ==
    ASSUME NEW p, IsPass(p), NEW x
    PROVE  /\ IsPass([p EXCEPT !.batch = x]) /\ [p EXCEPT !.batch = x].fence = p.fence
           /\ IsPass([p EXCEPT !.armed = x]) /\ [p EXCEPT !.armed = x].fence = p.fence
           /\ IsPass([p EXCEPT !.own = x]) /\ [p EXCEPT !.own = x].fence = p.fence
           /\ IsPass([p EXCEPT !.acquired = x])
           /\ [p EXCEPT !.acquired = x].fence = p.fence
           /\ IsPass([p EXCEPT !.crossFrame = x])
           /\ [p EXCEPT !.crossFrame = x].fence = p.fence
  <1>1. [p EXCEPT !.batch = x] =
            [own |-> p.own, fence |-> p.fence, armed |-> p.armed, batch |-> x,
             crossFrame |-> p.crossFrame, acquired |-> p.acquired]
    BY DEF IsPass
  <1>2. [p EXCEPT !.armed = x] =
            [own |-> p.own, fence |-> p.fence, armed |-> x, batch |-> p.batch,
             crossFrame |-> p.crossFrame, acquired |-> p.acquired]
    BY DEF IsPass
  <1>3. [p EXCEPT !.own = x] =
            [own |-> x, fence |-> p.fence, armed |-> p.armed, batch |-> p.batch,
             crossFrame |-> p.crossFrame, acquired |-> p.acquired]
    BY DEF IsPass
  <1>4. [p EXCEPT !.acquired = x] =
            [own |-> p.own, fence |-> p.fence, armed |-> p.armed, batch |-> p.batch,
             crossFrame |-> p.crossFrame, acquired |-> x]
    BY DEF IsPass
  <1>5. [p EXCEPT !.crossFrame = x] =
            [own |-> p.own, fence |-> p.fence, armed |-> p.armed, batch |-> p.batch,
             crossFrame |-> x, acquired |-> p.acquired]
    BY DEF IsPass
  <1>6. p.fence \in {"idle", "submitted", "failed"}
    BY DEF IsPass
  <1> QED BY <1>1, <1>2, <1>3, <1>4, <1>5, <1>6 DEF IsPass

\* An entry whose fence is queued.
LEMMA Arming ==
    ASSUME NEW p, IsPass(p)
    PROVE  IsPass([p EXCEPT !.fence = "submitted", !.armed = TRUE])
  <1> DEFINE a == [p EXCEPT !.fence = "submitted"]
  <1>1. IsPass(a)
    BY FenceUpdate
  <1> HIDE DEF a
  <1>2. IsPass([a EXCEPT !.armed = TRUE])
    BY <1>1, EntryUpdates
  <1> QED BY <1>2 DEF a

\* An entry that is recycled.
LEMMA Recycling ==
    ASSUME NEW p, IsPass(p)
    PROVE  LET q == [p EXCEPT !.fence = "idle", !.armed = FALSE, !.batch = FALSE,
                              !.acquired = {}, !.crossFrame = {}]
           IN  IsPass(q) /\ q.fence = "idle"
  <1> DEFINE a == [p EXCEPT !.fence = "idle"]
             b == [a EXCEPT !.armed = FALSE]
             c == [b EXCEPT !.batch = FALSE]
             d == [c EXCEPT !.acquired = {}]
             e == [d EXCEPT !.crossFrame = {}]
  <1>1. IsPass(a) /\ a.fence = "idle"
    BY FenceUpdate
  <1> HIDE DEF a
  <1>2. IsPass(b) /\ b.fence = "idle"
    BY <1>1, EntryUpdates
  <1> HIDE DEF b
  <1>3. IsPass(c) /\ c.fence = "idle"
    BY <1>2, EntryUpdates
  <1> HIDE DEF c
  <1>4. IsPass(d) /\ d.fence = "idle"
    BY <1>3, EntryUpdates
  <1> HIDE DEF d
  <1>5. IsPass(e) /\ e.fence = "idle"
    BY <1>4, EntryUpdates
  <1> QED BY <1>5 DEF a, b, c, d

\* An entry that can be recycled has no work left on the GPU.
LEMMA QuietIsIdle ==
    ASSUME Inv, NEW k \in Slots, Quiet(k), ~Active(k)
    PROVE  Queued(k) = {} /\ \A j \in DOMAIN gpu : gpu[j].slot # k
  <1>1. Queued(k) = {}
    BY DEF Inv, Once, Quiet
  <1>2. pass[k].fence # "failed"
    BY DEF Quiet
  <1> QED BY <1>1, <1>2 DEF Inv, Covered

\* What a submission adds.
LEMMA AppendFacts ==
    ASSUME GpuShape, NEW o, gpu' = Append(gpu, o), IsSubmission(o)
    PROVE  /\ GpuShape'
           /\ DOMAIN gpu' = DOMAIN gpu \cup {Len(gpu) + 1}
           /\ \A i \in DOMAIN gpu : i \in Nat /\ gpu'[i] = gpu[i] /\ i < Len(gpu) + 1
           /\ gpu'[Len(gpu) + 1] = o /\ Len(gpu) + 1 \in Nat
           /\ Busy' = Busy \cup ({o.slot} \ {None})
  <1> DEFINE T == Members(gpu) \cup {o}
  <1>1. gpu \in Seq(T)
    BY SeqMonotonic DEF GpuShape
  <1>2. /\ Len(gpu) \in Nat /\ DOMAIN gpu = 1 .. Len(gpu)
        /\ gpu' \in Seq(T) /\ Len(gpu') = Len(gpu) + 1
        /\ \A i \in 1 .. Len(gpu) : gpu'[i] = gpu[i]
        /\ gpu'[Len(gpu) + 1] = o
    BY <1>1, AppendProperties, LenProperties
  <1>3. DOMAIN gpu' = 1 .. Len(gpu) + 1
    BY <1>2, LenProperties
  <1>4. DOMAIN gpu' = DOMAIN gpu \cup {Len(gpu) + 1}
    BY <1>2, <1>3
  <1>5. \A i \in DOMAIN gpu : i \in Nat /\ gpu'[i] = gpu[i] /\ i < Len(gpu) + 1
    BY <1>2
  <1>6. Members(gpu') = T
    BY <1>2, <1>4 DEF Members
  <1>7. GpuShape'
    BY <1>2, <1>4, <1>5, <1>6 DEF GpuShape, Members
  <1>8. Busy' = Busy \cup ({o.slot} \ {None})
    BY <1>6 DEF Busy, Members
  <1> QED BY <1>2, <1>4, <1>5, <1>7, <1>8

\* A submission without a pass's fence, of no entry or of one whose fence is not
\* queued, leaves the fences behind the work they stand for.
LEMMA AppendKeepsOrder ==
    ASSUME Inv, NEW o, IsSubmission(o), gpu' = Append(gpu, o),
           \A k \in Slots : PassFence(k) \notin o.fences,
           o.slot \in Slots => Queued(o.slot) = {}
    PROVE  /\ GpuShape' /\ Last'
           /\ \A k \in Slots : Queued(k)' = Queued(k)
           /\ \A j \in DOMAIN gpu' :
                 (j \in DOMAIN gpu /\ gpu'[j] = gpu[j]) \/ gpu'[j] = o
           /\ Busy' = Busy \cup ({o.slot} \ {None})
  <1>1. /\ GpuShape'
        /\ DOMAIN gpu' = DOMAIN gpu \cup {Len(gpu) + 1}
        /\ \A i \in DOMAIN gpu : i \in Nat /\ gpu'[i] = gpu[i] /\ i < Len(gpu) + 1
        /\ gpu'[Len(gpu) + 1] = o /\ Len(gpu) + 1 \in Nat
        /\ Busy' = Busy \cup ({o.slot} \ {None})
    BY AppendFacts DEF Inv
  <1>2. \A k \in Slots : Queued(k)' = Queued(k)
    BY <1>1 DEF Queued
  <1>3. Last'
    <2> SUFFICES ASSUME NEW k \in Slots, NEW i \in Queued(k)
                 PROVE  /\ gpu'[i].slot = k
                        /\ \A j \in DOMAIN gpu' : gpu'[j].slot = k => j <= i
      BY <1>2 DEF Last
    <2>1. i \in DOMAIN gpu /\ gpu'[i] = gpu[i]
      BY <1>1 DEF Queued
    <2>2. gpu[i].slot = k /\ \A j \in DOMAIN gpu : gpu[j].slot = k => j <= i
      BY DEF Inv, Last
    <2>3. o.slot # k
      OBVIOUS
    <2> QED BY <1>1, <2>1, <2>2, <2>3
  <1> QED BY <1>1, <1>2, <1>3

\* Nothing else is queued: the fences and the work stay as they are.
LEMMA NothingQueued ==
    ASSUME Inv, UNCHANGED gpu
    PROVE  /\ GpuShape' /\ Last' /\ Busy' = Busy
           /\ \A k \in Slots : Queued(k)' = Queued(k)
  BY DEF Inv, GpuShape, Last, Queued, Busy, Members

-----------------------------------------------------------------------------
(* The queues. *)

\* A finished submission takes its fences from the queue, and may free its entry.
LEMMA GpuStepKeeps ==
    ASSUME Inv, GpuStep
    PROVE  Inv' /\ Abstract!Retire
  <1>1. /\ gpu # <<>> /\ gpu' = Tail(gpu)
        /\ fences' = fences \cup Head(gpu).fences
        /\ UNCHANGED <<frame, pc, pass>>
    BY DEF GpuStep, owners
  <1>2. /\ Len(gpu) \in Nat /\ DOMAIN gpu = 1 .. Len(gpu) /\ gpu \in Seq(Members(gpu))
        /\ 1 \in DOMAIN gpu /\ Head(gpu) = gpu[1]
    BY <1>1, LenProperties, EmptySeq DEF Inv, GpuShape
  <1>3. /\ gpu' \in Seq(Members(gpu)) /\ DOMAIN gpu' = 1 .. Len(gpu) - 1
        /\ \A i \in DOMAIN gpu' : i + 1 \in DOMAIN gpu /\ gpu'[i] = gpu[i + 1]
    BY <1>1, <1>2, HeadTailProperties, LenProperties
  <1>4. \A i \in DOMAIN gpu : i # 1 => i - 1 \in DOMAIN gpu' /\ gpu'[i - 1] = gpu[i]
    BY <1>2, <1>3
  <1>5. GpuShape'
    <2>1. gpu' \in Seq(Members(gpu'))
      <3>1. gpu' \in [1 .. Len(gpu) - 1 -> Members(gpu')]
        BY <1>3, LenProperties DEF Members
      <3>2. Len(gpu) - 1 \in Nat
        BY <1>2
      <3> QED BY <3>1, <3>2, SeqDef
    <2> QED BY <1>3, <2>1 DEF Inv, GpuShape
  <1>6. \A k \in Slots : \A i \in DOMAIN gpu' : i \in Queued(k)' <=> i + 1 \in Queued(k)
    BY <1>3 DEF Queued
  <1>7. Last'
    <2> SUFFICES ASSUME NEW k \in Slots, NEW i \in Queued(k)'
                 PROVE  /\ gpu'[i].slot = k
                        /\ \A j \in DOMAIN gpu' : gpu'[j].slot = k => j <= i
      BY DEF Last
    <2>1. i \in DOMAIN gpu' /\ i + 1 \in Queued(k)
      BY <1>6 DEF Queued
    <2>2. /\ gpu[i + 1].slot = k
          /\ \A j \in DOMAIN gpu : gpu[j].slot = k => j <= i + 1
      BY <2>1 DEF Inv, Last
    <2> QED BY <1>2, <1>3, <2>1, <2>2
  <1>8. \A k \in Slots : Queued(k)' = {} \/ PassFence(k) \notin Head(gpu).fences
    <2> SUFFICES ASSUME NEW k \in Slots, NEW i \in Queued(k)',
                        PassFence(k) \in Head(gpu).fences
                 PROVE  FALSE
      OBVIOUS
    <2>1. 1 \in Queued(k) /\ i \in DOMAIN gpu' /\ i + 1 \in Queued(k)
      BY <1>2, <1>6 DEF Queued
    <2>2. gpu[i + 1].slot = k /\ i + 1 \in DOMAIN gpu
      BY <1>3, <2>1 DEF Inv, Last
    <2>3. i + 1 <= 1
      BY <2>1, <2>2 DEF Inv, Last
    <2> QED BY <1>2, <1>3, <2>1, <2>3
  <1>9. Once'
    <2> SUFFICES ASSUME NEW k \in Slots
                 PROVE  /\ Queued(k)' # {} => /\ pass[k].fence = "submitted"
                                              /\ PassFence(k) \notin fences'
                        /\ Active(k) => pass[k].fence = "idle" /\ PassFence(k) \notin fences'
      BY <1>1 DEF Once, Active, Slot
    <2>1. Queued(k)' # {} => Queued(k) # {}
      BY <1>6 DEF Queued
    <2>2. Active(k) => Queued(k) = {}
      BY DEF Inv, Once
    <2>3. PassFence(k) \in Head(gpu).fences => Queued(k) # {}
      BY <1>2 DEF Queued
    <2> QED BY <1>1, <1>8, <2>1, <2>2, <2>3 DEF Inv, Once
  <1>10. Covered'
    <2> SUFFICES ASSUME NEW k \in Slots, NEW j \in DOMAIN gpu', gpu'[j].slot = k
                 PROVE  Active(k) \/ pass[k].fence = "failed" \/ Queued(k)' # {}
      BY <1>1 DEF Covered, Active, Slot
    <2>1. j + 1 \in DOMAIN gpu /\ gpu[j + 1].slot = k
      BY <1>3
    <2>2. CASE Queued(k) # {}
      <3>1. PICK i \in Queued(k) : j + 1 <= i
        BY <2>1, <2>2 DEF Inv, Last
      <3>2. i \in DOMAIN gpu /\ i # 1 /\ i - 1 \in DOMAIN gpu'
        BY <1>2, <1>3, <1>4, <3>1 DEF Queued
      <3>3. i - 1 \in Queued(k)'
        BY <1>2, <1>6, <3>1, <3>2
      <3> QED BY <3>3
    <2> QED BY <2>1, <2>2 DEF Inv, Covered
  <1>11. Shape'
    BY <1>1 DEF Inv, Shape
  <1>12. Busy' \subseteq Busy
    BY <1>3 DEF Busy, Members
  <1>13. Abstract!Retire
    BY <1>1, <1>12 DEF Abstract!Retire, Busy
  <1> QED BY <1>5, <1>7, <1>9, <1>10, <1>11, <1>13 DEF Inv

\* A finished present moves nothing on the game device.
LEMMA WsiStepKeeps ==
    ASSUME Inv, WsiStep
    PROVE  Inv' /\ UNCHANGED <<frame, pc, Busy>>
  <1>1. /\ gpu' = [i \in DOMAIN gpu |->
                     [gpu[i] EXCEPT !.ahead = IF @ = 0 THEN 0 ELSE @ - 1]]
        /\ UNCHANGED <<frame, pc, pass, fences>>
    BY DEF WsiStep, owners
  <1>2. /\ DOMAIN gpu' = DOMAIN gpu
        /\ \A i \in DOMAIN gpu : /\ gpu'[i].slot = gpu[i].slot
                                 /\ gpu'[i].fences = gpu[i].fences
                                 /\ IsSubmission(gpu'[i])
    BY <1>1 DEF Inv, GpuShape, IsSubmission
  <1>3. gpu' \in Seq(Members(gpu'))
    <2>1. Len(gpu) \in Nat /\ DOMAIN gpu = 1 .. Len(gpu)
      BY LenProperties DEF Inv, GpuShape
    <2>2. gpu' \in [1 .. Len(gpu) -> Members(gpu')]
      BY <1>1, <2>1 DEF Members
    <2> QED BY <2>1, <2>2, SeqDef
  <1>4. Busy' = Busy
    BY <1>2 DEF Busy, Members
  <1>5. \A k \in Slots : Queued(k)' = Queued(k) /\ Queued(k) \subseteq DOMAIN gpu
    BY <1>2 DEF Queued
  <1>6. GpuShape'
    BY <1>2, <1>3 DEF GpuShape
  <1>7. Last'
    BY <1>2, <1>5 DEF Inv, Last
  <1>8. Covered'
    BY <1>1, <1>2, <1>5 DEF Inv, Covered, Active, Slot
  <1>9. Shape' /\ Once'
    BY <1>1, <1>5 DEF Inv, Shape, Once, Active, Slot
  <1> QED BY <1>1, <1>4, <1>6, <1>7, <1>8, <1>9 DEF Inv

-----------------------------------------------------------------------------
(* A present. *)

\* A present that is not sampled queues work of no entry.
LEMMA BusyPassthroughKeeps ==
    ASSUME Inv, NEW j \in Images, BusyPassthrough(j)
    PROVE  Inv' /\ UNCHANGED <<frame, pc, Busy>>
  <1>1. PICK p \in LeftBusy(Slot) :
          /\ pass' = [pass EXCEPT ![Slot] = p]
          /\ fences' = IF p.fence = "idle" THEN fences \ {PassFence(Slot)} ELSE fences
    BY DEF BusyPassthrough
  <1> DEFINE o == Submission(None, {}, {Game(j)}, {}, Ahead(j))
  <1>2. pc = "idle" /\ gpu' = Append(gpu, o) /\ UNCHANGED <<frame, pc>>
    BY DEF BusyPassthrough
  <1>3. IsSubmission(o) /\ o.slot = None /\ o.slot \notin Slots /\ o.fences = {}
    BY DEF IsSubmission, Submission, None, Slots
  <1> HIDE DEF o
  <1>4. /\ GpuShape' /\ Last' /\ Busy' = Busy
        /\ \A k \in Slots : Queued(k)' = Queued(k)
        /\ \A i \in DOMAIN gpu' :
              (i \in DOMAIN gpu /\ gpu'[i] = gpu[i]) \/ gpu'[i] = o
    <2>1. \A k \in Slots : PassFence(k) \notin o.fences
      BY <1>3
    <2>2. Busy \cup ({o.slot} \ {None}) = Busy
      BY <1>3
    <2> QED BY <1>2, <1>3, <2>1, <2>2, AppendKeepsOrder
  <1>5. Slot \in Slots /\ \A k \in Slots : ~Active(k) /\ ~Active(k)'
    BY <1>2, SlotsInRange DEF Active, Inv, Shape
  <1>6. /\ IsPass(p)
        /\ ~Quiet(Slot) => p = pass[Slot]
    BY <1>1, <1>5 DEF LeftBusy, Inv, Shape, IsPass
  <1>7. /\ pass' = [k \in Slots |-> pass'[k]] /\ pass'[Slot] = p
        /\ \A k \in Slots : k # Slot => pass'[k] = pass[k]
    BY <1>1, <1>5 DEF Inv, Shape
  <1>8. Shape'
    BY <1>2, <1>6, <1>7 DEF Inv, Shape
  <1>9. Quiet(Slot) => Queued(Slot) = {} /\ \A i \in DOMAIN gpu : gpu[i].slot # Slot
    BY <1>5, QuietIsIdle
  <1>10. fences' \subseteq fences
    BY <1>1
  <1>11. Once'
    BY <1>4, <1>5, <1>6, <1>7, <1>9, <1>10 DEF Inv, Once
  <1>12. Covered'
    BY <1>3, <1>4, <1>5, <1>6, <1>7, <1>9 DEF Inv, Covered
  <1> QED BY <1>2, <1>4, <1>8, <1>11, <1>12 DEF Inv

\* The copy takes an entry with nothing on the queue.
LEMMA CopyKeeps ==
    ASSUME Inv, NEW j \in Images, NEW n \in Batches, NEW refused \in BOOLEAN,
           Copy(j, n, refused)
    PROVE  Inv' /\ Abstract!Take
  <1> DEFINE async == handoff /\ ~refused
             new   == {Sem("ready"), Sem("next")}
                        \cup (IF async THEN {Sem("input")} ELSE {})
             o     == Submission(Slot, CopyWaits, new, {}, Ahead(j))
             p     == [Recycled(Slot) EXCEPT !.own = Assigned(@, new),
                                             !.crossFrame = CrossFrame(CopyWaits)]
  <1>1. /\ pc = "idle" /\ pc' = "copied" /\ Quiet(Slot) /\ UNCHANGED frame
        /\ gpu' = Append(gpu, o)
        /\ pass' = [pass EXCEPT ![Slot] = p, ![Before].batch = FALSE]
        /\ fences' = fences \ ({PassFence(Slot)} \cup {OutputFence(i) : i \in Retired(n)})
    BY DEF Copy
  <1>2. Slot \in Slots /\ Before \in Slots /\ Slot' = Slot
    BY <1>1, SlotsInRange DEF Inv, Shape, Slot
  <1>3. IsSubmission(o) /\ o.slot = Slot /\ o.fences = {}
    BY <1>2 DEF IsSubmission, Submission
  <1>4. IsPass(p) /\ p.fence = "idle"
    <2>1. IsPass(pass[Slot])
      BY <1>2 DEF Inv, Shape
    <2>2. IsPass(Recycled(Slot)) /\ Recycled(Slot).fence = "idle"
      BY <2>1, Recycling DEF Recycled
    <2> DEFINE c == [Recycled(Slot) EXCEPT !.own = Assigned(@, new)]
    <2>3. IsPass(c) /\ c.fence = "idle"
      <3> HIDE DEF new
      <3> QED BY <2>2, EntryUpdates
    <2>4. p = [c EXCEPT !.crossFrame = CrossFrame(CopyWaits)]
      BY <2>2
    <2> HIDE DEF c, p
    <2> QED BY <2>3, <2>4, EntryUpdates
  <1> HIDE DEF o, p
  <1>5. Queued(Slot) = {} /\ \A i \in DOMAIN gpu : gpu[i].slot # Slot
    BY <1>1, <1>2, QuietIsIdle DEF Active
  <1>6. /\ GpuShape' /\ Last' /\ Busy' = Busy \cup {Slot}
        /\ \A k \in Slots : Queued(k)' = Queued(k)
        /\ \A i \in DOMAIN gpu' :
              (i \in DOMAIN gpu /\ gpu'[i] = gpu[i]) \/ gpu'[i] = o
    <2>1. Slot # None
      BY <1>2 DEF Slots, None
    <2> QED BY <1>1, <1>2, <1>3, <1>5, <2>1, AppendKeepsOrder
  <1>7. /\ pass' = [k \in Slots |-> pass'[k]]
        /\ \A k \in Slots : /\ IsPass(pass'[k])
                            /\ pass'[k].fence = IF k = Slot THEN "idle" ELSE pass[k].fence
    <2> DEFINE q == [pass EXCEPT ![Slot] = p]
    <2>1. /\ q = [k \in Slots |-> q[k]] /\ q[Slot] = p
          /\ \A k \in Slots : k # Slot => q[k] = pass[k]
      BY <1>2 DEF Inv, Shape
    <2>2. pass' = [q EXCEPT ![Before].batch = FALSE]
      BY <1>1
    <2> HIDE DEF q
    <2>3. \A k \in Slots : IsPass(q[k])
      BY <1>4, <2>1 DEF Inv, Shape
    <2>4. IsPass([q[Before] EXCEPT !.batch = FALSE])
            /\ [q[Before] EXCEPT !.batch = FALSE].fence = q[Before].fence
      BY <1>2, <2>3, EntryUpdates
    <2>5. /\ pass' = [k \in Slots |-> pass'[k]]
          /\ pass'[Before] = [q[Before] EXCEPT !.batch = FALSE]
          /\ \A k \in Slots : k # Before => pass'[k] = q[k]
      BY <1>2, <2>1, <2>2
    <2> QED BY <1>4, <2>1, <2>3, <2>4, <2>5
  <1>8. Shape'
    BY <1>1, <1>7 DEF Inv, Shape
  <1>9. \A k \in Slots : ~Active(k) /\ (Active(k)' <=> k = Slot)
    BY <1>1, <1>2 DEF Active
  <1>10. Once'
    BY <1>1, <1>5, <1>6, <1>7, <1>9 DEF Inv, Once
  <1>11. Covered'
    BY <1>3, <1>6, <1>7, <1>9 DEF Inv, Covered
  <1>12. Slot \notin Busy
    BY <1>5 DEF Busy, Members
  <1>13. Abstract!Take
    BY <1>1, <1>6, <1>12 DEF Abstract!Take, Abstract!Entry, Busy, Slot
  <1> QED BY <1>6, <1>8, <1>10, <1>11, <1>13 DEF Inv

\* The end of a present that has recorded into its pass.
LEMMA ConcludeKeeps ==
    ASSUME Inv, pc \in {"copied", "sent"}, NEW then \in {"idle", "stale"},
           NEW failed \in BOOLEAN, Conclude(then, failed), UNCHANGED fences
    PROVE  Inv' /\ Abstract!Advance
  <1>1. /\ Fenced \/ Drained \/ Unfenced
        /\ frame' = frame + 1 /\ pc' = then
    BY DEF Conclude
  <1>2. PICK s \in Slots : s = Slot
    BY SlotsInRange DEF Inv, Shape
  <1>3. /\ Queued(s) = {} /\ pass[s].fence = "idle" /\ PassFence(s) \notin fences
        /\ IsPass(pass[s])
    BY <1>2 DEF Active, Inv, Shape, Once
  <1>4. \A k \in Slots : ~Active(k)' /\ (k # s => ~Active(k))
    BY <1>1, <1>2 DEF Active
  <1>5. PICK r : pass' = [pass EXCEPT ![s] = r] /\ IsPass(r)
    <2>1. CASE Fenced
      <3>1. pass' = [pass EXCEPT ![s] = [@ EXCEPT !.fence = "submitted", !.armed = TRUE]]
        BY <1>2, <1>3, <2>1 DEF Fenced, Inv, Shape
      <3>2. IsPass([pass[s] EXCEPT !.fence = "submitted", !.armed = TRUE])
        BY <1>3, Arming
      <3> QED BY <3>1, <3>2
    <2>2. CASE Drained
      <3>1. pass' = [pass EXCEPT ![s] = [@ EXCEPT !.armed = TRUE]]
        BY <1>2, <1>3, <2>2 DEF Drained, Inv, Shape
      <3>2. IsPass([pass[s] EXCEPT !.armed = TRUE])
        BY <1>3, EntryUpdates
      <3> QED BY <3>1, <3>2
    <2>3. CASE Unfenced
      <3>1. pass' = [pass EXCEPT ![s] = [@ EXCEPT !.fence = "failed"]]
        BY <1>2, <1>3, <2>3 DEF Unfenced, Inv, Shape
      <3>2. IsPass([pass[s] EXCEPT !.fence = "failed"])
        BY <1>3, FenceUpdate
      <3> QED BY <3>1, <3>2
    <2> QED BY <1>1, <2>1, <2>2, <2>3
  <1>6. /\ pass' = [k \in Slots |-> pass'[k]]
        /\ \A k \in Slots : IsPass(pass'[k]) /\ (k # s => pass'[k] = pass[k])
    BY <1>2, <1>5 DEF Inv, Shape
  <1>7. Shape'
    BY <1>1, <1>6 DEF Inv, Shape
  <1>8. CASE Fenced
    <2> DEFINE o == Submission(s, {}, {}, {PassFence(s)}, 0)
    <2>1. gpu' = Append(gpu, o)
      BY <1>2, <1>8 DEF Fenced
    <2>2. pass'[s].fence = "submitted"
      <3>1. pass'[s] = [pass[s] EXCEPT !.fence = "submitted", !.armed = TRUE]
        BY <1>2, <1>3, <1>8 DEF Fenced, Inv, Shape
      <3> QED BY <1>3, <3>1 DEF IsPass
    <2>3. IsSubmission(o) /\ o.slot = s /\ o.fences = {PassFence(s)}
      BY <1>2 DEF IsSubmission, Submission
    <2> HIDE DEF o
    <2>4. /\ GpuShape'
          /\ DOMAIN gpu' = DOMAIN gpu \cup {Len(gpu) + 1}
          /\ \A i \in DOMAIN gpu : i \in Nat /\ gpu'[i] = gpu[i] /\ i < Len(gpu) + 1
          /\ gpu'[Len(gpu) + 1] = o /\ Len(gpu) + 1 \in Nat
          /\ Busy' = Busy \cup ({s} \ {None})
      BY <2>1, <2>3, AppendFacts DEF Inv
    <2>5. \A k \in Slots : PassFence(k) \in o.fences <=> k = s
      BY <2>3 DEF PassFence
    <2>6. \A k \in Slots : k # s => Queued(k)' = Queued(k)
      BY <2>4, <2>5 DEF Queued
    <2>7. Queued(s)' = {Len(gpu) + 1}
      BY <1>3, <2>4, <2>5 DEF Queued
    <2>8. Last'
      <3> SUFFICES ASSUME NEW k \in Slots, NEW i \in Queued(k)'
                   PROVE  /\ gpu'[i].slot = k
                          /\ \A h \in DOMAIN gpu' : gpu'[h].slot = k => h <= i
        BY DEF Last
      <3>1. CASE k = s
        BY <2>3, <2>4, <2>7, <3>1
      <3>2. CASE k # s
        <4>1. i \in Queued(k) /\ i \in DOMAIN gpu
          BY <2>6, <3>2 DEF Queued
        <4>2. gpu[i].slot = k /\ \A h \in DOMAIN gpu : gpu[h].slot = k => h <= i
          BY <4>1 DEF Inv, Last
        <4> QED BY <2>3, <2>4, <3>2, <4>1, <4>2
      <3> QED BY <3>1, <3>2
    <2>9. Once'
      BY <1>3, <1>4, <1>6, <2>2, <2>6 DEF Inv, Once
    <2>10. Covered'
      <3> SUFFICES ASSUME NEW k \in Slots, NEW i \in DOMAIN gpu', gpu'[i].slot = k
                   PROVE  pass'[k].fence = "failed" \/ Queued(k)' # {}
        BY DEF Covered
      <3>1. CASE k = s
        BY <2>7, <3>1
      <3>2. CASE k # s
        BY <1>4, <1>6, <2>3, <2>4, <2>6, <3>2 DEF Inv, Covered
      <3> QED BY <3>1, <3>2
    <2>11. Abstract!Advance
      BY <1>1, <1>2, <2>4 DEF Abstract!Advance, Abstract!Entry, Busy, Slot, None, Slots
    <2> QED BY <1>7, <2>4, <2>8, <2>9, <2>10, <2>11 DEF Inv
  <1>9. CASE Drained \/ Unfenced
    <2>1. UNCHANGED gpu
      BY <1>9 DEF Drained, Unfenced
    <2>2. /\ GpuShape' /\ Last' /\ Busy' = Busy
          /\ \A k \in Slots : Queued(k)' = Queued(k)
      BY <2>1, NothingQueued
    <2>3. Once'
      BY <1>3, <1>4, <1>6, <2>2 DEF Inv, Once
    <2>4. Covered'
      <3>1. CASE Drained
        BY <3>1, <2>1 DEF Drained, Covered
      <3>2. CASE Unfenced
        <4>1. pass'[s].fence = "failed"
          BY <1>2, <1>3, <3>2 DEF Unfenced, Inv, Shape, IsPass
        <4> QED BY <1>4, <1>6, <2>1, <2>2, <4>1 DEF Inv, Covered
      <3> QED BY <1>9, <3>1, <3>2
    <2>5. Abstract!Advance
      BY <1>1, <2>2 DEF Abstract!Advance, Busy
    <2> QED BY <1>7, <2>2, <2>3, <2>4, <2>5 DEF Inv
  <1> QED BY <1>1, <1>8, <1>9

\* A dispatch leaves the fences.
LEMMA DispatchKeeps ==
    ASSUME Inv, NEW outcome, Dispatch(outcome)
    PROVE  Inv' /\ UNCHANGED <<frame, Busy>> /\ pc = "copied" /\ pc' = "sent"
  <1> DEFINE gives == IF outcome = "imported"
                      THEN {Out("render", i) : i \in 1 .. cycle.n} \cup {Sem("batch")}
                      ELSE {}
  <1>1. /\ pc = "copied" /\ pc' = "sent"
        /\ pass' = [pass EXCEPT ![Slot].own = Assigned(@, gives),
                                ![Slot].batch = outcome = "imported"]
        /\ UNCHANGED <<frame, gpu, fences>>
    BY DEF Dispatch
  <1>2. Slot \in Slots /\ IsPass(pass[Slot])
    BY SlotsInRange DEF Inv, Shape
  <1> HIDE DEF gives
  <1> DEFINE a == [pass[Slot] EXCEPT !.own = Assigned(@, gives)]
             imported == outcome = "imported"
             b == [a EXCEPT !.batch = imported]
  <1>3. pass' = [pass EXCEPT ![Slot] = b]
    BY <1>1, <1>2 DEF Inv, Shape
  <1>4. IsPass(a) /\ a.fence = pass[Slot].fence
    BY <1>2, EntryUpdates
  <1> HIDE DEF a, imported
  <1>5. IsPass(b) /\ b.fence = pass[Slot].fence
    BY <1>4, EntryUpdates
  <1> HIDE DEF b
  <1>6. /\ pass' = [k \in Slots |-> pass'[k]]
        /\ \A k \in Slots : IsPass(pass'[k]) /\ pass'[k].fence = pass[k].fence
    BY <1>2, <1>3, <1>5 DEF Inv, Shape
  <1>7. \A k \in Slots : Active(k)' <=> Active(k)
    BY <1>1 DEF Active, Slot
  <1>8. /\ GpuShape' /\ Last' /\ Busy' = Busy
        /\ \A k \in Slots : Queued(k)' = Queued(k)
    BY <1>1, NothingQueued
  <1>9. Shape' /\ Once'
    BY <1>1, <1>6, <1>7, <1>8 DEF Inv, Shape, Once
  <1>10. Covered'
    <2> SUFFICES ASSUME NEW k \in Slots, NEW j \in DOMAIN gpu, gpu[j].slot = k
                 PROVE  Active(k)' \/ pass'[k].fence = "failed" \/ Queued(k)' # {}
      BY <1>1 DEF Covered
    <2>1. Active(k) \/ pass[k].fence = "failed" \/ Queued(k) # {}
      BY DEF Inv, Covered
    <2> QED BY <1>6, <1>7, <1>8, <2>1
  <1> QED BY <1>1, <1>8, <1>9, <1>10 DEF Inv

\* The copy of an output is work of the entry in use.
LEMMA PresentGeneratedKeeps ==
    ASSUME Inv, NEW j \in Images, PresentGenerated(j)
    PROVE  Inv' /\ Abstract!Work
  <1> DEFINE i   == cycle.queued + 1
             new == {Out("post", i), Out("prev", i)}
             o   == Submission(Slot,
                      IF cycle.wait = "imported" THEN {Out("render", i)} ELSE {},
                      new, IF fifo THEN {OutputFence(i)} ELSE {}, Ahead(j))
             a   == [pass[Slot] EXCEPT !.own = Assigned(@, new)]
             all == a.acquired \cup Moved(j)
             b   == [a EXCEPT !.acquired = all]
  <1>1. /\ pc = "sent" /\ gpu' = Append(gpu, o)
        /\ pass' = [pass EXCEPT ![Slot].own = Assigned(@, new),
                                ![Slot].acquired = @ \cup Moved(j)]
        /\ UNCHANGED <<frame, pc, fences>>
    BY DEF PresentGenerated
  <1>2. Slot \in Slots /\ IsPass(pass[Slot]) /\ Active(Slot)
    BY <1>1, SlotsInRange DEF Inv, Shape, Active
  <1>3. /\ IsSubmission(o) /\ o.slot = Slot
        /\ \A k \in Slots : PassFence(k) \notin o.fences
    BY <1>2 DEF IsSubmission, Submission, PassFence, OutputFence
  <1>4. pass' = [pass EXCEPT ![Slot] = b]
    BY <1>1, <1>2 DEF Inv, Shape
  <1> HIDE DEF o, new
  <1>5. IsPass(a) /\ a.fence = pass[Slot].fence
    BY <1>2, EntryUpdates
  <1> HIDE DEF a, all
  <1>6. IsPass(b) /\ b.fence = pass[Slot].fence
    BY <1>5, EntryUpdates
  <1> HIDE DEF b
  <1>7. /\ pass' = [k \in Slots |-> pass'[k]]
        /\ \A k \in Slots : IsPass(pass'[k]) /\ pass'[k].fence = pass[k].fence
    BY <1>2, <1>4, <1>6 DEF Inv, Shape
  <1>8. \A k \in Slots : Active(k)' <=> Active(k)
    BY <1>1 DEF Active, Slot
  <1>9. Queued(Slot) = {}
    BY <1>2 DEF Inv, Once
  <1>10. /\ GpuShape' /\ Last' /\ Busy' = Busy \cup ({Slot} \ {None})
         /\ \A k \in Slots : Queued(k)' = Queued(k)
         /\ \A h \in DOMAIN gpu' :
              (h \in DOMAIN gpu /\ gpu'[h] = gpu[h]) \/ gpu'[h] = o
    BY <1>1, <1>3, <1>9, AppendKeepsOrder
  <1>11. Shape' /\ Once'
    BY <1>1, <1>7, <1>8, <1>10 DEF Inv, Shape, Once
  <1>12. Covered'
    BY <1>2, <1>3, <1>7, <1>8, <1>10 DEF Inv, Covered
  <1>13. Busy' = Busy \cup {Slot}
    BY <1>2, <1>10 DEF Slots, None
  <1>14. Abstract!Work
    BY <1>1, <1>13 DEF Abstract!Work, Abstract!Entry, Busy, Slot
  <1> QED BY <1>10, <1>11, <1>12, <1>14 DEF Inv

\* A new context starts on an idle device.
LEMMA RecreateKeeps ==
    ASSUME Inv, Recreate
    PROVE  Inv' /\ Abstract!Renew
  <1>1. /\ pc \in {"stale", "idle"} /\ gpu = <<>> /\ gpu' = gpu
        /\ frame' = 0 /\ pc' = "idle"
        /\ pass' = [k \in Slots |-> Unused] /\ fences' = {}
    BY DEF Recreate
  <1>2. DOMAIN gpu = {} /\ Members(gpu) = {}
    BY <1>1 DEF Members
  <1>3. Shape'
    BY <1>1 DEF Shape, IsPass, Unused
  <1>4. GpuShape' /\ Last' /\ Covered'
    BY <1>1, <1>2, NothingQueued DEF Covered
  <1>5. Once'
    BY <1>1, <1>2 DEF Once, Queued, Active
  <1>6. Abstract!Renew
    BY <1>1, <1>2 DEF Abstract!Renew
  <1> QED BY <1>3, <1>4, <1>5, <1>6 DEF Inv

\* Steps that touch neither an entry nor the game device's queue.
LEMMA OthersKeep ==
    ASSUME Inv, UNCHANGED <<frame, pc, pass, gpu, fences>>
    PROVE  Inv' /\ UNCHANGED <<frame, pc, Busy>>
  <1>1. /\ GpuShape' /\ Last' /\ Busy' = Busy
        /\ \A k \in Slots : Queued(k)' = Queued(k)
    BY NothingQueued
  <1>2. Shape' /\ Once' /\ Covered'
    BY <1>1 DEF Inv, Shape, Once, Covered, Active, Slot
  <1> QED BY <1>1, <1>2 DEF Inv

-----------------------------------------------------------------------------
(* The refinement. *)

\* The entries, over every step, and the step of the abstract ring it is.
LEMMA Step ==
    ASSUME Inv, [Next]_vars
    PROVE  Inv' /\ [Abstract!Next]_<<frame, pc \in {"copied", "sent"}, Busy>>
  <1>1. CASE UNCHANGED vars
    BY <1>1, OthersKeep DEF vars, owners, queues
  <1>2. CASE \E j \in Images : BusyPassthrough(j)
    BY <1>2, BusyPassthroughKeeps
  <1>3. CASE \E j \in Images, n \in Batches, refused \in BOOLEAN :
               Copy(j, n, refused)
    BY <1>3, CopyKeeps DEF Abstract!Next
  <1>4. CASE \E outcome \in Outcomes : Dispatch(outcome)
    BY <1>4, DispatchKeeps
  <1>5. CASE ExportFailed
    <2>1. pc = "copied" /\ Conclude("stale", TRUE) /\ UNCHANGED fences
      BY <1>5 DEF ExportFailed
    <2> QED BY <2>1, ConcludeKeeps DEF Abstract!Next
  <1>6. CASE CompletionTimeout
    <2>1. pc = "sent" /\ Conclude("stale", FALSE) /\ UNCHANGED fences
      BY <1>6 DEF CompletionTimeout
    <2> QED BY <2>1, ConcludeKeeps DEF Abstract!Next
  <1>7. CASE PresentSource
    <2>1. pc = "sent" /\ Conclude("idle", FALSE) /\ UNCHANGED fences
      BY <1>7 DEF PresentSource
    <2> QED BY <2>1, ConcludeKeeps DEF Abstract!Next
  <1>8. CASE \E j \in Images : PresentGenerated(j)
    BY <1>8, PresentGeneratedKeeps DEF Abstract!Next
  <1>9. CASE GpuStep
    BY <1>9, GpuStepKeeps DEF Abstract!Next
  <1>10. CASE WsiStep
    BY <1>10, WsiStepKeeps
  <1>11. CASE BackendStep
    BY <1>11, OthersKeep DEF BackendStep, owners
  <1>12. CASE EnterSourceOnlyBypass
    BY <1>12, OthersKeep DEF EnterSourceOnlyBypass, owners, queues
  <1>13. CASE Recreate
    BY <1>13, RecreateKeeps DEF Abstract!Next
  <1> QED BY <1>1, <1>2, <1>3, <1>4, <1>5, <1>6, <1>7, <1>8, <1>9, <1>10, <1>11,
             <1>12, <1>13 DEF Next, Present, Devices

\* The ring of passes is the abstract ring: an entry is taken again only when no
\* submission that belongs to it is left on the queue and no present uses it
\* (context.cpp:1550-1660, 2120-2140).
THEOREM RingIsRefined == Spec => RingRefined
  <1>1. Init => Inv /\ Abstract!Init
    BY InitInv
  <1>2. Inv /\ [Next]_vars =>
          Inv' /\ [Abstract!Next]_<<frame, pc \in {"copied", "sent"}, Busy>>
    BY Step
  <1> QED BY <1>1, <1>2, PTL DEF Spec, RingRefined, Abstract!Spec, Busy

-----------------------------------------------------------------------------
(* The shape of the rest of the state *)

\* A present uses the entry at hand.
InUse == pc \in {"copied", "sent"}

\* What is known of the present at hand.
IsCycle(c) ==
    /\ c = [n |-> c.n, image |-> c.image, async |-> c.async, wait |-> c.wait,
            queued |-> c.queued]
    /\ c.n \in Nat /\ c.queued \in Nat /\ c.async \in BOOLEAN

\* The rest of the state has its shape.
Rest ==
    /\ IsCycle(cycle)
    /\ InUse => cycle.image \in Images
    /\ retirements = [j \in Images |-> retirements[j]]
    /\ wsi \in Seq(Members(wsi)) /\ backend \in Seq(Members(backend))
    /\ \A i \in DOMAIN gpu : gpu[i].ahead \in Nat

-----------------------------------------------------------------------------
\* A queue with one more entry,
LEMMA Appended ==
    ASSUME NEW q, q \in Seq(Members(q)), NEW x
    PROVE  /\ Append(q, x) \in Seq(Members(Append(q, x)))
           /\ Len(q) \in Nat /\ DOMAIN q = 1 .. Len(q)
           /\ DOMAIN Append(q, x) = DOMAIN q \cup {Len(q) + 1}
           /\ \A i \in DOMAIN q : /\ i \in Nat /\ 1 <= i /\ i < Len(q) + 1
                                  /\ Append(q, x)[i] = q[i]
           /\ Append(q, x)[Len(q) + 1] = x
           /\ Members(Append(q, x)) = Members(q) \cup {x}
  <1> DEFINE T == Members(q) \cup {x}
             r == Append(q, x)
  <1>1. q \in Seq(T)
    BY SeqMonotonic
  <1>2. /\ Len(q) \in Nat /\ DOMAIN q = 1 .. Len(q)
        /\ r \in Seq(T) /\ Len(r) = Len(q) + 1
        /\ \A i \in 1 .. Len(q) : r[i] = q[i]
        /\ r[Len(q) + 1] = x
    BY <1>1, AppendProperties, LenProperties
  <1>3. DOMAIN r = 1 .. Len(q) + 1
    BY <1>2, LenProperties
  <1> HIDE DEF r
  <1>4. DOMAIN r = DOMAIN q \cup {Len(q) + 1}
    BY <1>2, <1>3
  <1>5. \A i \in DOMAIN q : i \in Nat /\ 1 <= i /\ i < Len(q) + 1 /\ r[i] = q[i]
    BY <1>2
  <1>6. Members(r) = T
    BY <1>2, <1>4 DEF Members
  <1> QED BY <1>2, <1>4, <1>5, <1>6 DEF r

\* and a queue without its first.
LEMMA Popped ==
    ASSUME NEW q, q \in Seq(Members(q)), q # <<>>
    PROVE  /\ Tail(q) \in Seq(Members(Tail(q)))
           /\ Len(q) \in Nat /\ DOMAIN q = 1 .. Len(q) /\ 1 \in DOMAIN q
           /\ Head(q) = q[1]
           /\ DOMAIN Tail(q) = 1 .. Len(q) - 1
           /\ \A i \in DOMAIN Tail(q) : /\ i \in Nat /\ i >= 1
                                        /\ i + 1 \in DOMAIN q /\ Tail(q)[i] = q[i + 1]
           /\ \A i \in DOMAIN q : i # 1 => i - 1 \in DOMAIN Tail(q) /\ Tail(q)[i - 1] = q[i]
           /\ Members(q) = Members(Tail(q)) \cup {Head(q)}
  <1> DEFINE r == Tail(q)
  <1>1. /\ Len(q) \in Nat /\ DOMAIN q = 1 .. Len(q) /\ 1 \in DOMAIN q /\ Head(q) = q[1]
    BY LenProperties, EmptySeq
  <1>2. /\ r \in Seq(Members(q)) /\ DOMAIN r = 1 .. Len(q) - 1
        /\ \A i \in DOMAIN r : i + 1 \in DOMAIN q /\ r[i] = q[i + 1]
    BY <1>1, HeadTailProperties, LenProperties
  <1>3. r \in [1 .. Len(q) - 1 -> Members(r)]
    BY <1>2, LenProperties DEF Members
  <1>4. r \in Seq(Members(r))
    <2>1. Len(q) - 1 \in Nat
      BY <1>1
    <2> QED BY <1>3, <2>1, SeqDef
  <1> HIDE DEF r
  <1>5. \A i \in DOMAIN q : i # 1 => i - 1 \in DOMAIN r /\ r[i - 1] = q[i]
    BY <1>1, <1>2
  <1>6. Members(q) = Members(r) \cup {Head(q)}
    <2>1. Members(r) \cup {Head(q)} \subseteq Members(q)
      BY <1>1, <1>2 DEF Members
    <2>2. ASSUME NEW i \in DOMAIN q PROVE q[i] \in Members(r) \cup {Head(q)}
      <3>1. CASE i = 1
        BY <1>1, <3>1
      <3>2. CASE i # 1
        BY <1>5, <3>2 DEF Members
      <3> QED BY <3>1, <3>2
    <2> QED BY <2>1, <2>2 DEF Members
  <1>7. \A i \in DOMAIN r : i \in Nat /\ i >= 1
    BY <1>1, <1>2
  <1> QED BY <1>1, <1>2, <1>4, <1>5, <1>6, <1>7 DEF r

-----------------------------------------------------------------------------
\* The members of an entry after assignments.
LEMMA Fields ==
    ASSUME NEW p, IsPass(p), NEW x
    PROVE  /\ [p EXCEPT !.own = x] =
                 [own |-> x, fence |-> p.fence, armed |-> p.armed, batch |-> p.batch,
                  crossFrame |-> p.crossFrame, acquired |-> p.acquired]
           /\ [p EXCEPT !.fence = x] =
                 [own |-> p.own, fence |-> x, armed |-> p.armed, batch |-> p.batch,
                  crossFrame |-> p.crossFrame, acquired |-> p.acquired]
           /\ [p EXCEPT !.armed = x] =
                 [own |-> p.own, fence |-> p.fence, armed |-> x, batch |-> p.batch,
                  crossFrame |-> p.crossFrame, acquired |-> p.acquired]
           /\ [p EXCEPT !.batch = x] =
                 [own |-> p.own, fence |-> p.fence, armed |-> p.armed, batch |-> x,
                  crossFrame |-> p.crossFrame, acquired |-> p.acquired]
           /\ [p EXCEPT !.crossFrame = x] =
                 [own |-> p.own, fence |-> p.fence, armed |-> p.armed, batch |-> p.batch,
                  crossFrame |-> x, acquired |-> p.acquired]
           /\ [p EXCEPT !.acquired = x] =
                 [own |-> p.own, fence |-> p.fence, armed |-> p.armed, batch |-> p.batch,
                  crossFrame |-> p.crossFrame, acquired |-> x]
  <1>1. [p EXCEPT !.own = x] =
           [own |-> x, fence |-> p.fence, armed |-> p.armed, batch |-> p.batch,
            crossFrame |-> p.crossFrame, acquired |-> p.acquired]
    BY DEF IsPass
  <1>2. [p EXCEPT !.fence = x] =
           [own |-> p.own, fence |-> x, armed |-> p.armed, batch |-> p.batch,
            crossFrame |-> p.crossFrame, acquired |-> p.acquired]
    BY DEF IsPass
  <1>3. [p EXCEPT !.armed = x] =
           [own |-> p.own, fence |-> p.fence, armed |-> x, batch |-> p.batch,
            crossFrame |-> p.crossFrame, acquired |-> p.acquired]
    BY DEF IsPass
  <1>4. [p EXCEPT !.batch = x] =
           [own |-> p.own, fence |-> p.fence, armed |-> p.armed, batch |-> x,
            crossFrame |-> p.crossFrame, acquired |-> p.acquired]
    BY DEF IsPass
  <1>5. [p EXCEPT !.crossFrame = x] =
           [own |-> p.own, fence |-> p.fence, armed |-> p.armed, batch |-> p.batch,
            crossFrame |-> x, acquired |-> p.acquired]
    BY DEF IsPass
  <1>6. [p EXCEPT !.acquired = x] =
           [own |-> p.own, fence |-> p.fence, armed |-> p.armed, batch |-> p.batch,
            crossFrame |-> p.crossFrame, acquired |-> x]
    BY DEF IsPass
  <1> QED BY <1>1, <1>2, <1>3, <1>4, <1>5, <1>6

\* What a recycled entry is.
LEMMA RecycledEntry ==
    ASSUME NEW p, IsPass(p)
    PROVE  [p EXCEPT !.fence = "idle", !.armed = FALSE, !.batch = FALSE,
                     !.acquired = {}, !.crossFrame = {}] =
           [own |-> p.own, fence |-> "idle", armed |-> FALSE, batch |-> FALSE,
            crossFrame |-> {}, acquired |-> {}]
  <1> DEFINE a == [p EXCEPT !.fence = "idle"]
             b == [a EXCEPT !.armed = FALSE]
             c == [b EXCEPT !.batch = FALSE]
             d == [c EXCEPT !.acquired = {}]
             e == [d EXCEPT !.crossFrame = {}]
  <1>1. a = [own |-> p.own, fence |-> "idle", armed |-> p.armed, batch |-> p.batch,
             crossFrame |-> p.crossFrame, acquired |-> p.acquired]
    BY Fields
  <1> HIDE DEF a
  <1>2. b = [own |-> p.own, fence |-> "idle", armed |-> FALSE, batch |-> p.batch,
             crossFrame |-> p.crossFrame, acquired |-> p.acquired]
    <2>1. IsPass(a)
      BY <1>1 DEF IsPass
    <2>2. b =
            [own |-> a.own, fence |-> a.fence, armed |-> FALSE, batch |-> a.batch,
             crossFrame |-> a.crossFrame, acquired |-> a.acquired]
      BY <2>1, Fields
    <2> HIDE DEF b
    <2> QED BY <1>1, <2>2
  <1> HIDE DEF b
  <1>3. c = [own |-> p.own, fence |-> "idle", armed |-> FALSE, batch |-> FALSE,
             crossFrame |-> p.crossFrame, acquired |-> p.acquired]
    <2>1. IsPass(b)
      BY <1>2 DEF IsPass
    <2>2. c =
            [own |-> b.own, fence |-> b.fence, armed |-> b.armed, batch |-> FALSE,
             crossFrame |-> b.crossFrame, acquired |-> b.acquired]
      BY <2>1, Fields
    <2> HIDE DEF c
    <2> QED BY <1>2, <2>2
  <1> HIDE DEF c
  <1>4. d = [own |-> p.own, fence |-> "idle", armed |-> FALSE, batch |-> FALSE,
             crossFrame |-> p.crossFrame, acquired |-> {}]
    <2>1. IsPass(c)
      BY <1>3 DEF IsPass
    <2>2. d =
            [own |-> c.own, fence |-> c.fence, armed |-> c.armed, batch |-> c.batch,
             crossFrame |-> c.crossFrame, acquired |-> {}]
      BY <2>1, Fields
    <2> HIDE DEF d
    <2> QED BY <1>3, <2>2
  <1> HIDE DEF d
  <1>5. e = [own |-> p.own, fence |-> "idle", armed |-> FALSE, batch |-> FALSE,
             crossFrame |-> {}, acquired |-> {}]
    <2>1. IsPass(d)
      BY <1>4 DEF IsPass
    <2>2. e =
            [own |-> d.own, fence |-> d.fence, armed |-> d.armed, batch |-> d.batch,
             crossFrame |-> {}, acquired |-> d.acquired]
      BY <2>1, Fields
    <2> HIDE DEF e
    <2> QED BY <1>4, <2>2
  <1> HIDE DEF e
  <1> QED BY <1>5 DEF a, b, c, d, e

\* The semaphores that the copy of a source makes,
New(async) == {Sem("ready"), Sem("next")} \cup (IF async THEN {Sem("input")} ELSE {})

\* The copy of a source recycles the entry at hand and opens a present.
LEMMA CopyEntries ==
    ASSUME Inv, NEW j \in Images, NEW n \in Batches, NEW refused \in BOOLEAN,
           Copy(j, n, refused)
    PROVE  \A k \in Slots :
             /\ pass'[k].own = IF k = Slot THEN Assigned(pass[k].own, New(handoff'))
                               ELSE pass[k].own
             /\ pass'[k].fence = IF k = Slot THEN "idle" ELSE pass[k].fence
             /\ pass'[k].armed = IF k = Slot THEN FALSE ELSE pass[k].armed
             /\ pass'[k].batch = IF k \in {Slot, Before} THEN FALSE ELSE pass[k].batch
             /\ pass'[k].crossFrame = IF k = Slot THEN CopyWaits ELSE pass[k].crossFrame
             /\ pass'[k].acquired = IF k = Slot THEN {} ELSE pass[k].acquired
  <1> DEFINE new == New(handoff')
             o == Assigned(pass[Slot].own, new)
             p == [Recycled(Slot) EXCEPT !.own = Assigned(@, new),
                                         !.crossFrame = CrossFrame(CopyWaits)]
             q == [pass EXCEPT ![Slot] = p]
  <1>1. pass' = [q EXCEPT ![Before] = [q[Before] EXCEPT !.batch = FALSE]]
    BY DEF Copy, New
  <1>2. Slot \in Slots /\ Before \in Slots
    BY SlotsInRange DEF Inv, Shape
  <1>3. Recycled(Slot) =
           [own |-> pass[Slot].own, fence |-> "idle", armed |-> FALSE, batch |-> FALSE,
            crossFrame |-> {}, acquired |-> {}]
    <2>1. IsPass(pass[Slot])
      BY <1>2 DEF Inv, Shape
    <2> QED BY <2>1, RecycledEntry DEF Recycled
  <1>4. p = [own |-> o, fence |-> "idle", armed |-> FALSE, batch |-> FALSE,
             crossFrame |-> CopyWaits, acquired |-> {}]
    <2> HIDE DEF new
    <2> DEFINE c == [Recycled(Slot) EXCEPT !.own = Assigned(@, new)]
    <2>1. p = [c EXCEPT !.crossFrame = CopyWaits]
      BY <1>3 DEF CrossFrame
    <2>2. c = [own |-> o, fence |-> "idle", armed |-> FALSE, batch |-> FALSE,
               crossFrame |-> {}, acquired |-> {}]
      <3> DEFINE r == Recycled(Slot)
      <3>1. r.own = pass[Slot].own
        BY <1>3
      <3>2. c = [r EXCEPT !.own = o]
        BY <3>1
      <3>3. IsPass(r)
        BY <1>3 DEF IsPass
      <3>4. [r EXCEPT !.own = o] = [own |-> o, fence |-> r.fence, armed |-> r.armed,
               batch |-> r.batch, crossFrame |-> r.crossFrame, acquired |-> r.acquired]
        BY <3>3, Fields
      <3> HIDE DEF o, c
      <3> QED BY <1>3, <3>2, <3>4
    <2> HIDE DEF c, p, o
    <2> QED BY <2>1, <2>2
  <1>5. IsPass(p)
    BY <1>4 DEF IsPass
  <1> HIDE DEF p, o
  <1>6. /\ q[Slot] = p /\ q = [k \in Slots |-> q[k]]
        /\ \A k \in Slots : k # Slot => q[k] = pass[k]
    BY <1>2 DEF Inv, Shape
  <1> HIDE DEF q
  <1>7. \A k \in Slots : IsPass(q[k])
    BY <1>5, <1>6 DEF Inv, Shape
  <1>8. /\ \A k \in Slots : k # Before => pass'[k] = q[k]
        /\ pass'[Before] = [q[Before] EXCEPT !.batch = FALSE]
    BY <1>1, <1>2, <1>6
  <1>9. [q[Before] EXCEPT !.batch = FALSE] =
           [own |-> q[Before].own, fence |-> q[Before].fence, armed |-> q[Before].armed,
            batch |-> FALSE, crossFrame |-> q[Before].crossFrame,
            acquired |-> q[Before].acquired]
    BY <1>2, <1>7, Fields
  <1> SUFFICES ASSUME NEW k \in Slots
      PROVE  /\ pass'[k].own = IF k = Slot THEN o ELSE pass[k].own
             /\ pass'[k].fence = IF k = Slot THEN "idle" ELSE pass[k].fence
             /\ pass'[k].armed = IF k = Slot THEN FALSE ELSE pass[k].armed
             /\ pass'[k].batch = IF k \in {Slot, Before} THEN FALSE ELSE pass[k].batch
             /\ pass'[k].crossFrame = IF k = Slot THEN CopyWaits ELSE pass[k].crossFrame
             /\ pass'[k].acquired = IF k = Slot THEN {} ELSE pass[k].acquired
    BY DEF o
  <1> DEFINE x == q[k]
  <1>10. /\ x.own = IF k = Slot THEN o ELSE pass[k].own
         /\ x.fence = IF k = Slot THEN "idle" ELSE pass[k].fence
         /\ x.armed = IF k = Slot THEN FALSE ELSE pass[k].armed
         /\ x.batch = IF k = Slot THEN FALSE ELSE pass[k].batch
         /\ x.crossFrame = IF k = Slot THEN CopyWaits ELSE pass[k].crossFrame
         /\ x.acquired = IF k = Slot THEN {} ELSE pass[k].acquired
    <2>1. CASE k = Slot
      <3>1. x = p
        BY <1>6, <2>1
      <3> HIDE DEF x
      <3> QED BY <1>4, <2>1, <3>1
    <2>2. CASE k # Slot
      BY <1>6, <2>2
    <2> QED BY <2>1, <2>2
  <1>11. CASE k = Before
    <2>1. pass'[k] =
           [own |-> x.own, fence |-> x.fence, armed |-> x.armed,
            batch |-> FALSE, crossFrame |-> x.crossFrame, acquired |-> x.acquired]
      BY <1>8, <1>9, <1>11
    <2> HIDE DEF x
    <2> QED BY <1>10, <1>11, <2>1
  <1>12. CASE k # Before
    <2>1. pass'[k] = x
      BY <1>8, <1>12
    <2> HIDE DEF x
    <2> QED BY <1>10, <1>12, <2>1
  <1> QED BY <1>11, <1>12

\* A present of a source that is not sampled leaves the entries and signals one semaphore.
LEMMA BusyEntries ==
    ASSUME Inv, NEW j \in Images, BusyPassthrough(j)
    PROVE  /\ \A k \in Slots :
                /\ pass'[k].own = pass[k].own /\ pass'[k].armed = pass[k].armed
                /\ pass'[k].batch = pass[k].batch
                /\ pass'[k].crossFrame = pass[k].crossFrame
                /\ pass'[k].acquired = pass[k].acquired
                /\ k # Slot => pass'[k].fence = pass[k].fence
           /\ \/ pass'[Slot].fence = pass[Slot].fence /\ ~Quiet(Slot)
              \/ Quiet(Slot) /\ pass'[Slot].fence \in {"failed", "idle"}
           /\ fences' = IF pass'[Slot].fence = "idle" THEN fences \ {PassFence(Slot)} ELSE fences
  <1>1. PICK p \in LeftBusy(Slot) :
          /\ pass' = [pass EXCEPT ![Slot] = p]
          /\ fences' = IF p.fence = "idle" THEN fences \ {PassFence(Slot)} ELSE fences
    BY DEF BusyPassthrough
  <1>2. Slot \in Slots /\ IsPass(pass[Slot])
    BY SlotsInRange DEF Inv, Shape
  <1>3. pass'[Slot] = p /\ \A k \in Slots : k # Slot => pass'[k] = pass[k]
    BY <1>1, <1>2 DEF Inv, Shape
  <1>4. CASE ~Quiet(Slot)
    BY <1>1, <1>3, <1>4 DEF LeftBusy
  <1>5. CASE Quiet(Slot)
    <2>1. PICK f \in {"failed", "idle"} : p = [pass[Slot] EXCEPT !.fence = f]
      BY <1>1, <1>5 DEF LeftBusy
    <2>2. p = [own |-> pass[Slot].own, fence |-> f, armed |-> pass[Slot].armed,
               batch |-> pass[Slot].batch, crossFrame |-> pass[Slot].crossFrame,
               acquired |-> pass[Slot].acquired]
      BY <1>2, <2>1, Fields
    <2> QED BY <1>1, <1>3, <1>5, <2>2
  <1> QED BY <1>4, <1>5

\* The end of a present moves the fence and the marks of its entry, and leaves the others.
LEMMA ConcludeEntries ==
    ASSUME Inv, NEW then, NEW failed, Conclude(then, failed)
    PROVE  /\ \A k \in Slots :
                /\ pass'[k].own = pass[k].own
                /\ pass'[k].batch = pass[k].batch
                /\ pass'[k].crossFrame = pass[k].crossFrame
                /\ pass'[k].acquired = pass[k].acquired
                /\ k # Slot => pass'[k].fence = pass[k].fence /\ pass'[k].armed = pass[k].armed
           /\ \/ /\ gpu' = Append(gpu, Submission(Slot, {}, {}, {PassFence(Slot)}, 0))
                 /\ pass'[Slot].fence = "submitted" /\ pass'[Slot].armed
              \/ /\ UNCHANGED gpu /\ pass'[Slot].fence = "failed"
              \/ /\ UNCHANGED gpu /\ gpu = <<>>
                 /\ pass'[Slot].fence = pass[Slot].fence /\ pass'[Slot].armed
  <1>1. Slot \in Slots /\ IsPass(pass[Slot])
    BY SlotsInRange DEF Inv, Shape
  <1>2. CASE Fenced
    <2>1. pass'[Slot] = [[pass[Slot] EXCEPT !.fence = "submitted"] EXCEPT !.armed = TRUE]
            /\ \A k \in Slots : k # Slot => pass'[k] = pass[k]
      BY <1>1, <1>2 DEF Fenced, Inv, Shape
    <2>2. pass'[Slot] = [own |-> pass[Slot].own, fence |-> "submitted", armed |-> TRUE,
               batch |-> pass[Slot].batch, crossFrame |-> pass[Slot].crossFrame,
               acquired |-> pass[Slot].acquired]
      <3> DEFINE a == [pass[Slot] EXCEPT !.fence = "submitted"]
      <3>1. a = [own |-> pass[Slot].own, fence |-> "submitted", armed |-> pass[Slot].armed,
                 batch |-> pass[Slot].batch, crossFrame |-> pass[Slot].crossFrame,
                 acquired |-> pass[Slot].acquired]
        BY <1>1, Fields
      <3>2. pass'[Slot] = [a EXCEPT !.armed = TRUE]
        BY <2>1
      <3> HIDE DEF a
      <3> QED BY <3>1, <3>2
    <2>3. gpu' = Append(gpu, Submission(Slot, {}, {}, {PassFence(Slot)}, 0))
      BY <1>2 DEF Fenced
    <2> QED BY <2>1, <2>2, <2>3
  <1>3. CASE Drained
    <2>1. pass'[Slot] = [pass[Slot] EXCEPT !.armed = TRUE]
            /\ \A k \in Slots : k # Slot => pass'[k] = pass[k]
      BY <1>1, <1>3 DEF Drained, Inv, Shape
    <2>2. pass'[Slot] = [own |-> pass[Slot].own, fence |-> pass[Slot].fence, armed |-> TRUE,
               batch |-> pass[Slot].batch, crossFrame |-> pass[Slot].crossFrame,
               acquired |-> pass[Slot].acquired]
      BY <1>1, <2>1, Fields
    <2>3. gpu = <<>> /\ UNCHANGED gpu
      BY <1>3 DEF Drained
    <2> QED BY <2>1, <2>2, <2>3
  <1>4. CASE Unfenced
    <2>1. pass'[Slot] = [pass[Slot] EXCEPT !.fence = "failed"]
            /\ \A k \in Slots : k # Slot => pass'[k] = pass[k]
      BY <1>1, <1>4 DEF Unfenced, Inv, Shape
    <2>2. pass'[Slot] = [own |-> pass[Slot].own, fence |-> "failed", armed |-> pass[Slot].armed,
               batch |-> pass[Slot].batch, crossFrame |-> pass[Slot].crossFrame,
               acquired |-> pass[Slot].acquired]
      BY <1>1, <2>1, Fields
    <2> QED BY <1>4, <2>1, <2>2 DEF Unfenced
  <1> QED BY <1>2, <1>3, <1>4 DEF Conclude

\* and those that a dispatch adds.
Gives(outcome) == IF outcome = "imported"
                  THEN {Out("render", i) : i \in 1 .. cycle.n} \cup {Sem("batch")}
                  ELSE {}

\* A dispatch gives its entry the semaphores it imports.
LEMMA DispatchEntries ==
    ASSUME Inv, NEW outcome, Dispatch(outcome)
    PROVE  \A k \in Slots :
             /\ pass'[k].own = IF k = Slot THEN Assigned(pass[k].own, Gives(outcome))
                               ELSE pass[k].own
             /\ pass'[k].batch = IF k = Slot THEN outcome = "imported" ELSE pass[k].batch
             /\ pass'[k].fence = pass[k].fence /\ pass'[k].armed = pass[k].armed
             /\ pass'[k].crossFrame = pass[k].crossFrame
             /\ pass'[k].acquired = pass[k].acquired
  <1> DEFINE new == Assigned(pass[Slot].own, Gives(outcome))
             imported == outcome = "imported"
  <1>1. Slot \in Slots /\ IsPass(pass[Slot])
    BY SlotsInRange DEF Inv, Shape
  <1>2. pass'[Slot] = [[pass[Slot] EXCEPT !.own = new] EXCEPT !.batch = imported]
          /\ \A k \in Slots : k # Slot => pass'[k] = pass[k]
    BY <1>1 DEF Dispatch, Inv, Shape, Gives
  <1> HIDE DEF new, imported
  <1>3. pass'[Slot] = [own |-> new, fence |-> pass[Slot].fence,
               armed |-> pass[Slot].armed, batch |-> imported,
               crossFrame |-> pass[Slot].crossFrame, acquired |-> pass[Slot].acquired]
    BY <1>1, <1>2 DEF IsPass
  <1> QED BY <1>1, <1>2, <1>3 DEF new, imported

\* Presenting an output moves what its image kept into the entry.
LEMMA GeneratedEntries ==
    ASSUME Inv, NEW j \in Images, PresentGenerated(j)
    PROVE  LET new == {Out("post", cycle.queued + 1), Out("prev", cycle.queued + 1)} IN
           \A k \in Slots :
             /\ pass'[k].own = IF k = Slot THEN Assigned(pass[k].own, new) ELSE pass[k].own
             /\ pass'[k].acquired = IF k = Slot THEN pass[k].acquired \cup retirements[j]
                                    ELSE pass[k].acquired
             /\ pass'[k].fence = pass[k].fence /\ pass'[k].armed = pass[k].armed
             /\ pass'[k].crossFrame = pass[k].crossFrame
             /\ pass'[k].batch = pass[k].batch
  <1> DEFINE new == {Out("post", cycle.queued + 1), Out("prev", cycle.queued + 1)}
             own == Assigned(pass[Slot].own, new)
             all == pass[Slot].acquired \cup retirements[j]
  <1>1. Slot \in Slots /\ IsPass(pass[Slot])
    BY SlotsInRange DEF Inv, Shape
  <1>2. pass' = [pass EXCEPT ![Slot].own = Assigned(@, new),
                             ![Slot].acquired = @ \cup Moved(j)]
    BY DEF PresentGenerated
  <1> HIDE DEF new
  <1> DEFINE a == [pass[Slot] EXCEPT !.own = own]
  <1>3. pass' = [pass EXCEPT ![Slot] = [a EXCEPT !.acquired = a.acquired \cup Moved(j)]]
    BY <1>1, <1>2 DEF Inv, Shape
  <1> HIDE DEF own
  <1>4. a = [own |-> own, fence |-> pass[Slot].fence,
               armed |-> pass[Slot].armed, batch |-> pass[Slot].batch,
               crossFrame |-> pass[Slot].crossFrame, acquired |-> pass[Slot].acquired]
    BY <1>1 DEF IsPass
  <1> HIDE DEF a
  <1>5. [a EXCEPT !.acquired = a.acquired \cup Moved(j)] = [own |-> own, fence |-> pass[Slot].fence,
               armed |-> pass[Slot].armed, batch |-> pass[Slot].batch,
               crossFrame |-> pass[Slot].crossFrame, acquired |-> all]
    BY <1>4 DEF Moved
  <1>6. pass'[Slot] = [a EXCEPT !.acquired = a.acquired \cup Moved(j)]
        /\ \A k \in Slots : k # Slot => pass'[k] = pass[k]
    BY <1>1, <1>3 DEF Inv, Shape
  <1>7. pass'[Slot].own = own /\ pass'[Slot].acquired = all
          /\ pass'[Slot].fence = pass[Slot].fence /\ pass'[Slot].armed = pass[Slot].armed
          /\ pass'[Slot].crossFrame = pass[Slot].crossFrame
          /\ pass'[Slot].batch = pass[Slot].batch
    <2> HIDE DEF all
    <2> QED BY <1>5, <1>6
  <1> QED BY <1>6, <1>7 DEF new, own

-----------------------------------------------------------------------------
\* A submission counts the presents in front of it.
LEMMA AheadIs ==
    ASSUME wsi \in Seq(Members(wsi)), NEW j \in Images, Acquirable(j)
    PROVE  /\ Ahead(j) \in Nat /\ Ahead(j) <= Len(wsi)
           /\ Ahead(j) \in PresentsOf(j) \cup {0}
           /\ \A h \in PresentsOf(j) : h <= Ahead(j)
  <1>1. Len(wsi) \in Nat /\ DOMAIN wsi = 1 .. Len(wsi)
    BY LenProperties
  <1>2. PresentsOf(j) \subseteq 1 .. Len(wsi)
    BY <1>1 DEF PresentsOf
  <1>3. IsFiniteSet(PresentsOf(j))
    <2>1. IsFiniteSet(1 .. Len(wsi))
      BY <1>1, FS_Interval
    <2> QED BY <1>2, <2>1, FS_Subset
  <1>4. PresentsOf(j) = {} \/ \E x : PresentsOf(j) = {x}
    <2>1. Cardinality(PresentsOf(j)) \in Nat
      BY <1>3, FS_CardinalityType
    <2>2. Cardinality(PresentsOf(j)) = 0 \/ Cardinality(PresentsOf(j)) = 1
      BY <2>1 DEF Acquirable
    <2> QED BY <1>3, <2>2, FS_EmptySet, FS_Singleton
  <1>5. \E i \in 0 .. Len(wsi) : /\ i \in PresentsOf(j) \cup {0}
                                 /\ \A h \in PresentsOf(j) : h <= i
    <2>1. CASE PresentsOf(j) = {}
      BY <1>1, <2>1
    <2>2. ASSUME NEW x, PresentsOf(j) = {x}
          PROVE  \E i \in 0 .. Len(wsi) : /\ i \in PresentsOf(j) \cup {0}
                                         /\ \A h \in PresentsOf(j) : h <= i
      <3>1. x \in 0 .. Len(wsi) /\ x <= x
        BY <1>1, <1>2, <2>2
      <3> QED BY <2>2, <3>1
    <2> QED BY <1>4, <2>1, <2>2
  <1>6. /\ Ahead(j) \in 0 .. Len(wsi)
        /\ Ahead(j) \in PresentsOf(j) \cup {0}
        /\ \A h \in PresentsOf(j) : h <= Ahead(j)
    BY <1>5 DEF Ahead
  <1> QED BY <1>1, <1>6

\* At first nothing is queued.
LEMMA InitRest == Init => Rest
  <1> SUFFICES ASSUME Init PROVE Rest
    OBVIOUS
  <1>1. gpu = <<>> /\ wsi = <<>> /\ backend = <<>> /\ pc = "idle"
        /\ cycle = NoCycle /\ retirements = [j \in Images |-> {}]
    BY DEF Init
  <1>2. IsCycle(NoCycle)
    BY DEF IsCycle, NoCycle, None
  <1>3. wsi \in Seq(Members(wsi)) /\ backend \in Seq(Members(backend)) /\ DOMAIN gpu = {}
    BY <1>1, EmptySeq
  <1> QED BY <1>1, <1>2, <1>3 DEF Rest, InUse

\* Appended submissions and presents.
LEMMA AheadKept ==
    ASSUME Inv, Rest, NEW o, gpu' = Append(gpu, o), o.ahead \in Nat
    PROVE  \A i \in DOMAIN gpu' : gpu'[i].ahead \in Nat
  <1>1. /\ DOMAIN gpu' = DOMAIN gpu \cup {Len(gpu) + 1}
        /\ \A i \in DOMAIN gpu : gpu'[i] = gpu[i]
        /\ gpu'[Len(gpu) + 1] = o
    BY Appended DEF Inv, GpuShape
  <1> QED BY <1>1 DEF Rest

\* The end of a present keeps the shape,
LEMMA ConcludeRest ==
    ASSUME Inv, Rest, InUse, NEW then \in {"idle", "stale"}, NEW failed,
           Conclude(then, failed), UNCHANGED backend
    PROVE  Rest'
  <1>1. IsCycle(cycle') /\ ~InUse'
    BY DEF Conclude, IsCycle, NoCycle, None, InUse
  <1>2. retirements' = [j \in Images |-> retirements'[j]]
    BY DEF Conclude, Rest
  <1>3. wsi' \in Seq(Members(wsi'))
    BY Appended DEF Conclude, Rest
  <1>4. \A i \in DOMAIN gpu' : gpu'[i].ahead \in Nat
    <2> DEFINE o == Submission(Slot, {}, {}, {PassFence(Slot)}, 0)
    <2>1. o.ahead \in Nat
      BY DEF Submission
    <2> HIDE DEF o
    <2>2. gpu' = Append(gpu, o) \/ UNCHANGED gpu
      BY DEF Conclude, Fenced, Drained, Unfenced, o
    <2> QED BY <2>1, <2>2, AheadKept DEF Rest
  <1>5. backend' \in Seq(Members(backend'))
    BY DEF Rest, Members
  <1> QED BY <1>1, <1>2, <1>3, <1>4, <1>5 DEF Rest

\* and so does every step.
LEMMA RestKept ==
    ASSUME Inv, Rest, [Next]_vars
    PROVE  Rest'
  <1>1. CASE UNCHANGED vars
    BY <1>1 DEF vars, owners, queues, Rest, InUse, IsCycle, Members
  <1>2. ASSUME NEW j \in Images, BusyPassthrough(j) PROVE Rest'
    <2>1. /\ gpu' = Append(gpu, Submission(None, {}, {Game(j)}, {}, Ahead(j)))
          /\ wsi' = Append(wsi, [image |-> j, waits |-> {Game(j)}])
          /\ retirements' = [retirements EXCEPT ![j] = {}]
          /\ UNCHANGED <<pc, cycle, backend>> /\ Acquirable(j)
      BY <1>2 DEF BusyPassthrough, Released
    <2>2. Submission(None, {}, {Game(j)}, {}, Ahead(j)).ahead \in Nat
      BY <2>1, AheadIs DEF Submission, Rest
    <2>3. \A i \in DOMAIN gpu' : gpu'[i].ahead \in Nat
      BY <2>1, <2>2, AheadKept
    <2>4. wsi' \in Seq(Members(wsi'))
      BY <2>1, Appended DEF Rest
    <2>5. retirements' = [h \in Images |-> retirements'[h]]
      BY <2>1 DEF Rest
    <2>6. IsCycle(cycle') /\ (InUse' <=> InUse) /\ cycle'.image = cycle.image
            /\ backend' \in Seq(Members(backend'))
      BY <2>1 DEF Rest, InUse
    <2> QED BY <2>3, <2>4, <2>5, <2>6 DEF Rest
  <1>3. ASSUME NEW j \in Images, NEW n \in Batches, NEW refused \in BOOLEAN,
               Copy(j, n, refused)
        PROVE  Rest'
    <2>1. PICK new :
          /\ gpu' = Append(gpu, Submission(Slot, CopyWaits, new, {}, Ahead(j)))
          /\ retirements' = [retirements EXCEPT ![j] = {}]
          /\ UNCHANGED <<wsi, backend>> /\ Acquirable(j)
      BY <1>3 DEF Copy, Released
    <2>2. Submission(Slot, CopyWaits, new, {}, Ahead(j)).ahead \in Nat
      BY <2>1, AheadIs DEF Submission, Rest
    <2>3. \A i \in DOMAIN gpu' : gpu'[i].ahead \in Nat
      BY <2>1, <2>2, AheadKept
    <2>5. retirements' = [h \in Images |-> retirements'[h]]
      BY <2>1 DEF Rest
    <2> DEFINE async == handoff /\ ~refused
    <2>6. cycle' = [n |-> Admitted(n), image |-> j, async |-> async,
                    wait |-> "none", queued |-> 0]
      BY <1>3 DEF Copy, NoCycle
    <2>7. Admitted(n) \in Nat
      BY PassRingAssumption DEF Admitted
    <2>8. IsCycle(cycle') /\ cycle'.image \in Images
      BY <2>6, <2>7 DEF IsCycle
    <2> QED BY <2>1, <2>3, <2>5, <2>8 DEF Rest, InUse, Members
  <1>4. ASSUME NEW outcome, Dispatch(outcome) PROVE Rest'
    <2>1. cycle' = [cycle EXCEPT !.wait = outcome] /\ pc = "copied" /\ pc' = "sent"
          /\ UNCHANGED <<retirements, gpu, wsi>>
      BY <1>4 DEF Dispatch
    <2>2. backend' \in Seq(Members(backend'))
      BY <1>4, Appended DEF Dispatch, Rest
    <2>3. cycle' = [n |-> cycle.n, image |-> cycle.image, async |-> cycle.async,
                    wait |-> outcome, queued |-> cycle.queued]
      BY <2>1 DEF Rest, IsCycle
    <2>4. IsCycle(cycle') /\ cycle'.image \in Images
      BY <2>1, <2>3 DEF IsCycle, Rest, InUse
    <2> QED BY <2>1, <2>2, <2>4 DEF Rest, Members
  <1>5. CASE ExportFailed
    BY <1>5, ConcludeRest DEF ExportFailed, InUse
  <1>6. CASE CompletionTimeout
    BY <1>6, ConcludeRest DEF CompletionTimeout, InUse
  <1>7. CASE PresentSource
    BY <1>7, ConcludeRest DEF PresentSource, InUse
  <1>8. ASSUME NEW j \in Images, PresentGenerated(j) PROVE Rest'
    <2>1. PICK w, s, f, x :
          /\ gpu' = Append(gpu, Submission(Slot, w, s, f, Ahead(j)))
          /\ wsi' = Append(wsi, x)
          /\ retirements' = [retirements EXCEPT ![j] = x.waits]
          /\ cycle' = [cycle EXCEPT !.queued = cycle.queued + 1]
          /\ pc = "sent" /\ UNCHANGED <<pc, backend>> /\ Acquirable(j)
      <3> DEFINE i == cycle.queued + 1
                 new   == {Out("post", i), Out("prev", i)}
                 waits == {Out("post", i)} \cup (IF i > 1 THEN {Out("prev", i - 1)} ELSE {})
                 x == [image |-> j, waits |-> waits]
      <3>1. x.waits = waits
        OBVIOUS
      <3>2. gpu' = Append(gpu, Submission(Slot,
                   IF cycle.wait = "imported" THEN {Out("render", i)} ELSE {},
                   new, IF fifo THEN {OutputFence(i)} ELSE {}, Ahead(j)))
            /\ wsi' = Append(wsi, x)
            /\ retirements' = [retirements EXCEPT ![j] = waits]
            /\ cycle' = [cycle EXCEPT !.queued = i]
            /\ pc = "sent" /\ UNCHANGED <<pc, backend>> /\ Acquirable(j)
        BY <1>8 DEF PresentGenerated
      <3> HIDE DEF x, new, waits
      <3> QED BY <3>1, <3>2
    <2>2. Submission(Slot, w, s, f, Ahead(j)).ahead \in Nat
      BY <2>1, AheadIs DEF Submission, Rest
    <2>3. \A i \in DOMAIN gpu' : gpu'[i].ahead \in Nat
      BY <2>1, <2>2, AheadKept
    <2>4. wsi' \in Seq(Members(wsi'))
      BY <2>1, Appended DEF Rest
    <2>5. retirements' = [h \in Images |-> retirements'[h]]
      BY <2>1 DEF Rest
    <2>6. cycle' = [n |-> cycle.n, image |-> cycle.image, async |-> cycle.async,
                    wait |-> cycle.wait, queued |-> cycle.queued + 1]
      BY <2>1 DEF Rest, IsCycle
    <2>7. cycle.n \in Nat /\ cycle.queued + 1 \in Nat /\ cycle.async \in BOOLEAN
            /\ cycle.image \in Images
      BY <2>1 DEF Rest, IsCycle, InUse
    <2>8. IsCycle(cycle') /\ cycle'.image \in Images
      BY <2>6, <2>7 DEF IsCycle
    <2>9. backend' \in Seq(Members(backend'))
      BY <2>1 DEF Rest
    <2> QED BY <2>3, <2>4, <2>5, <2>8, <2>9 DEF Rest
  <1>9. CASE GpuStep
    <2>1. gpu' = Tail(gpu) /\ gpu # <<>> /\ UNCHANGED <<pc, cycle, retirements, wsi, backend>>
      BY <1>9 DEF GpuStep, owners
    <2>2. \A i \in DOMAIN gpu' : i + 1 \in DOMAIN gpu /\ gpu'[i] = gpu[i + 1]
      BY <2>1, Popped DEF Inv, GpuShape
    <2> QED BY <2>1, <2>2 DEF Rest, InUse, Members, IsCycle
  <1>10. CASE WsiStep
    <2>1. /\ gpu' = [i \in DOMAIN gpu |->
                     [gpu[i] EXCEPT !.ahead = IF @ = 0 THEN 0 ELSE @ - 1]]
          /\ wsi' = Tail(wsi) /\ wsi # <<>> /\ UNCHANGED <<pc, cycle, retirements, backend>>
      BY <1>10 DEF WsiStep, owners
    <2>2. wsi' \in Seq(Members(wsi'))
      BY <2>1, Popped DEF Rest
    <2>3. \A i \in DOMAIN gpu' : gpu'[i].ahead \in Nat
      <3> SUFFICES ASSUME NEW i \in DOMAIN gpu PROVE gpu'[i].ahead \in Nat
        BY <2>1
      <3>1. gpu'[i].ahead = IF gpu[i].ahead = 0 THEN 0 ELSE gpu[i].ahead - 1
        BY <2>1 DEF Inv, GpuShape, IsSubmission
      <3> QED BY <3>1 DEF Rest
    <2> QED BY <2>1, <2>2, <2>3 DEF Rest, InUse, Members, IsCycle
  <1>11. CASE BackendStep
    <2>1. backend' = Tail(backend) /\ backend # <<>> /\ UNCHANGED <<pc, cycle, retirements, gpu, wsi>>
      BY <1>11 DEF BackendStep, owners
    <2>2. backend' \in Seq(Members(backend'))
      BY <2>1, Popped DEF Rest
    <2> QED BY <2>1, <2>2 DEF Rest, InUse, Members, IsCycle
  <1>12. CASE EnterSourceOnlyBypass
    BY <1>12 DEF EnterSourceOnlyBypass, owners, queues, Rest, InUse, Members, IsCycle
  <1>13. CASE Recreate
    <2>1. gpu' = <<>> /\ wsi' = <<>> /\ backend' = <<>> /\ pc' = "idle"
        /\ cycle' = NoCycle /\ retirements' = [j \in Images |-> {}]
      BY <1>13 DEF Recreate
    <2>2. IsCycle(NoCycle)
      BY DEF IsCycle, NoCycle, None
    <2>3. wsi' \in Seq(Members(wsi')) /\ backend' \in Seq(Members(backend')) /\ DOMAIN gpu' = {}
      BY <2>1, EmptySeq
    <2> QED BY <2>1, <2>2, <2>3 DEF Rest, InUse
  <1> QED BY <1>1, <1>2, <1>3, <1>4, <1>5, <1>6, <1>7, <1>8, <1>9, <1>10, <1>11,
             <1>12, <1>13 DEF Next, Present, Devices

-----------------------------------------------------------------------------
(* The marks of the fences *)

\* The submissions that signal a fence.
Queue(F) == {i \in DOMAIN gpu : F \in gpu[i].fences}

\* A fence is queued once, and not when it has signalled.
Single(F) ==
    /\ \A g, h \in Queue(F) : g = h
    /\ Queue(F) # {} => F \notin fences
\* A mark says that the fence is on the queue or has signalled.
Marked(F) == Queue(F) # {} \/ F \in fences

\* The marks of the entries and of the outputs are true.
Marks ==
    /\ \A k \in Slots : pass[k].fence # "failed" =>
         Single(PassFence(k)) /\ (pass[k].fence = "submitted" <=> Marked(PassFence(k)))
    /\ \A i \in Nat : Single(OutputFence(i)) /\ (i \in outSubmitted <=> Marked(OutputFence(i)))

\* The outputs of this batch that are to come are not marked.
Window ==
    InUse /\ fifo =>
        \A i \in Nat : cycle.queued < i /\ i <= cycle.n => i \notin outSubmitted

\* What was moved into an entry is marked when the entry is out of use.
Armed ==
    \A k \in Slots : ~Active(k) /\ pass[k].fence # "failed" =>
        pass[k].acquired = {} \/ pass[k].armed

\* The invariant about the fences.
FenceInv == Rest /\ Marks /\ Window /\ Armed

-----------------------------------------------------------------------------
\* Fences of entries and of outputs are different.
LEMMA FencesApart ==
    /\ \A k, h \in Slots : PassFence(k) = PassFence(h) => k = h
    /\ \A i, h \in Nat : OutputFence(i) = OutputFence(h) => i = h
    /\ \A k \in Slots, i \in Nat : PassFence(k) # OutputFence(i)
  BY DEF PassFence, OutputFence

\* A fence is queued by the submission that signals it, and by no other.
LEMMA QueueAppend ==
    ASSUME GpuShape, NEW o, gpu' = Append(gpu, o)
    PROVE  /\ Len(gpu) + 1 \notin DOMAIN gpu
           /\ \A F : Queue(F)' = Queue(F) \cup (IF F \in o.fences THEN {Len(gpu) + 1} ELSE {})
  <1>1. /\ DOMAIN gpu' = DOMAIN gpu \cup {Len(gpu) + 1}
        /\ \A i \in DOMAIN gpu : i \in Nat /\ i < Len(gpu) + 1 /\ gpu'[i] = gpu[i]
        /\ gpu'[Len(gpu) + 1] = o /\ Len(gpu) \in Nat
    BY Appended DEF GpuShape
  <1>2. Len(gpu) + 1 \notin DOMAIN gpu
    BY <1>1
  <1> QED BY <1>1, <1>2 DEF Queue

\* A fence whose place on the queue and whose state stay.
LEMMA SameMarks ==
    ASSUME NEW F, Queue(F)' = Queue(F), F \in fences' <=> F \in fences
    PROVE  (Single(F)' <=> Single(F)) /\ (Marked(F)' <=> Marked(F))
  BY DEF Single, Marked

\* A finished submission turns its fences from queued to signalled.
LEMMA PopMarks ==
    ASSUME GpuShape, gpu # <<>>, gpu' = Tail(gpu), fences' = fences \cup Head(gpu).fences,
           NEW F, Single(F)
    PROVE  Single(F)' /\ (Marked(F)' <=> Marked(F))
  <1>1. /\ 1 \in DOMAIN gpu /\ Head(gpu) = gpu[1]
        /\ \A i \in DOMAIN gpu' : i \in Nat /\ i >= 1 /\ i + 1 \in DOMAIN gpu /\ gpu'[i] = gpu[i + 1]
        /\ \A i \in DOMAIN gpu : i # 1 => i - 1 \in DOMAIN gpu' /\ gpu'[i - 1] = gpu[i]
    BY Popped DEF GpuShape
  <1>2. \A i \in Queue(F)' : i \in Nat /\ i >= 1 /\ i + 1 \in Queue(F)
    BY <1>1 DEF Queue
  <1>3. CASE F \in Head(gpu).fences
    <2>1. 1 \in Queue(F)
      BY <1>1, <1>3 DEF Queue
    <2>2. Queue(F)' = {}
      <3> SUFFICES ASSUME NEW i \in Queue(F)' PROVE FALSE
        OBVIOUS
      <3>1. i + 1 = 1
        BY <1>2, <2>1 DEF Single
      <3> QED BY <1>2, <3>1
    <2> QED BY <1>3, <2>1, <2>2 DEF Single, Marked
  <1>4. CASE F \notin Head(gpu).fences
    <2>1. \A i \in Queue(F) : i - 1 \in Queue(F)'
      BY <1>1, <1>4 DEF Queue
    <2>2. Queue(F)' = {} <=> Queue(F) = {}
      BY <1>2, <2>1
    <2>3. F \in fences' <=> F \in fences
      BY <1>4
    <2>4. \A g, h \in Queue(F)' : g = h
      <3> SUFFICES ASSUME NEW g \in Queue(F)', NEW h \in Queue(F)' PROVE g = h
        OBVIOUS
      <3>1. g + 1 = h + 1 /\ g \in Nat /\ h \in Nat
        BY <1>2 DEF Single
      <3> QED BY <3>1
    <2> QED BY <2>2, <2>3, <2>4 DEF Single, Marked
  <1> QED BY <1>3, <1>4

-----------------------------------------------------------------------------
\* At first no fence is marked.
LEMMA InitFence == Init => Marks /\ Window /\ Armed
  <1> SUFFICES ASSUME Init PROVE Marks /\ Window /\ Armed
    OBVIOUS
  <1>1. \A F : Queue(F) = {} /\ F \notin fences
    BY DEF Init, Queue
  <1>2. \A k \in Slots : pass[k] = Unused
    BY DEF Init
  <1>3. Marks
    BY <1>1, <1>2 DEF Marks, Single, Marked, Init, Unused
  <1> QED BY <1>2, <1>3 DEF Window, Armed, Init, InUse, Unused

\* A present without a sample marks and queues the fence it resets.
LEMMA BusyMarks ==
    ASSUME Inv, FenceInv, NEW j \in Images, BusyPassthrough(j)
    PROVE  Marks' /\ Window' /\ Armed'
  <1> DEFINE o == Submission(None, {}, {Game(j)}, {}, Ahead(j))
  <1>1. /\ pc = "idle" /\ gpu' = Append(gpu, o) /\ UNCHANGED <<frame, pc, outSubmitted>>
    BY DEF BusyPassthrough
  <1>2. o.fences = {}
    BY DEF Submission
  <1> HIDE DEF o
  <1>3. \A F : Queue(F)' = Queue(F)
    BY <1>1, <1>2, QueueAppend DEF Inv
  <1>4. Slot \in Slots /\ ~Active(Slot)
    BY <1>1, SlotsInRange DEF Inv, Shape, Active
  <1>5. Window'
    BY <1>1 DEF Window, InUse
  <1>6. /\ \A k \in Slots :
             /\ pass'[k].armed = pass[k].armed /\ pass'[k].acquired = pass[k].acquired
             /\ k # Slot => pass'[k].fence = pass[k].fence
        /\ \/ pass'[Slot].fence = pass[Slot].fence /\ ~Quiet(Slot)
           \/ Quiet(Slot) /\ pass'[Slot].fence \in {"failed", "idle"}
        /\ fences' = IF pass'[Slot].fence = "idle" THEN fences \ {PassFence(Slot)} ELSE fences
    BY BusyEntries
  <1>7. pass'[Slot].fence = pass[Slot].fence /\ ~Quiet(Slot) => fences' = fences
    BY <1>6 DEF Quiet
  <1>8. Quiet(Slot) => Queue(PassFence(Slot)) = {} /\ pass[Slot].fence # "failed"
    BY <1>4, QuietIsIdle DEF Queue, Queued, Quiet
  <1>9. Armed'
    BY <1>1, <1>6, <1>8 DEF FenceInv, Armed, Active
  <1>10. \A i \in Nat : Single(OutputFence(i))' /\ (i \in outSubmitted' <=> Marked(OutputFence(i))')
    <2> SUFFICES ASSUME NEW i \in Nat
                 PROVE  Single(OutputFence(i))' /\ (i \in outSubmitted' <=> Marked(OutputFence(i))')
      OBVIOUS
    <2>1. OutputFence(i) \in fences' <=> OutputFence(i) \in fences
      BY <1>4, <1>6, FencesApart
    <2>2. (Single(OutputFence(i))' <=> Single(OutputFence(i)))
          /\ (Marked(OutputFence(i))' <=> Marked(OutputFence(i)))
      BY <1>3, <2>1, SameMarks
    <2> QED BY <1>1, <2>2 DEF FenceInv, Marks
  <1>11. ASSUME NEW k \in Slots, pass'[k].fence # "failed"
         PROVE  Single(PassFence(k))' /\ (pass'[k].fence = "submitted" <=> Marked(PassFence(k))')
    <2>1. CASE PassFence(k) \in fences' <=> PassFence(k) \in fences
      <3>1. (Single(PassFence(k))' <=> Single(PassFence(k)))
            /\ (Marked(PassFence(k))' <=> Marked(PassFence(k)))
        BY <1>3, <2>1, SameMarks
      <3>2. CASE pass'[k].fence = pass[k].fence
        BY <1>11, <3>1, <3>2 DEF FenceInv, Marks
      <3>3. CASE pass'[k].fence # pass[k].fence
        <4>1. k = Slot /\ Quiet(Slot) /\ pass'[k].fence = "idle"
          BY <1>6, <1>11, <3>3
        <4>2. Queue(PassFence(k)) = {} /\ PassFence(k) \notin fences'
          BY <1>6, <1>8, <4>1
        <4> QED BY <1>3, <4>1, <4>2 DEF Single, Marked
      <3> QED BY <3>2, <3>3
    <2>2. CASE ~(PassFence(k) \in fences' <=> PassFence(k) \in fences)
      <3>1. k = Slot /\ pass'[k].fence = "idle" /\ Quiet(Slot)
        BY <1>4, <1>6, <1>7, <2>2, FencesApart
      <3>2. Queue(PassFence(k)) = {} /\ PassFence(k) \notin fences'
        BY <1>6, <1>8, <3>1
      <3> QED BY <1>3, <3>1, <3>2 DEF Single, Marked
    <2> QED BY <2>1, <2>2
  <1> QED BY <1>5, <1>9, <1>10, <1>11 DEF Marks

\* The copy resets the fence of its entry and opens a window of outputs.
LEMMA CopyMarks ==
    ASSUME Inv, FenceInv, NEW j \in Images, NEW n \in Batches, NEW refused \in BOOLEAN,
           Copy(j, n, refused)
    PROVE  Marks' /\ Window' /\ Armed'
  <1>1. PICK new :
        /\ pc = "idle" /\ pc' = "copied" /\ Quiet(Slot) /\ UNCHANGED <<frame, fifo>>
        /\ gpu' = Append(gpu, Submission(Slot, CopyWaits, new, {}, Ahead(j)))
        /\ fences' = fences \ ({PassFence(Slot)} \cup {OutputFence(i) : i \in Retired(n)})
        /\ outSubmitted' = outSubmitted \ Retired(n)
    BY DEF Copy
  <1> DEFINE o == Submission(Slot, CopyWaits, new, {}, Ahead(j))
  <1>2. o.fences = {}
    BY DEF Submission
  <1> HIDE DEF o
  <1>3. \A F : Queue(F)' = Queue(F)
    BY <1>1, <1>2, QueueAppend DEF Inv, o
  <1>4. Slot \in Slots /\ Slot' = Slot /\ (\A k \in Slots : ~Active(k)) /\ Active(Slot)'
    BY <1>1, SlotsInRange DEF Inv, Shape, Active, Slot
  <1>5. n \in Nat /\ MaxGenerated \in Nat
    BY PassRingAssumption
  <1>6. Window'
    <2> SUFFICES ASSUME fifo, NEW i \in Nat, 0 < i, i <= cycle'.n, i \in outSubmitted'
                 PROVE  FALSE
      <3>1. cycle'.queued = 0 /\ fifo' = fifo
        BY <1>1 DEF Copy, NoCycle
      <3> QED BY <3>1 DEF Window
    <2>1. cycle'.n = Admitted(n)
      BY DEF Copy, NoCycle
    <2>2. i \in outSubmitted /\ i \notin Retired(n)
      BY <1>1
    <2>3. i <= n
      BY <1>5, <2>1 DEF Admitted
    <2>4. Admitted(n) = 0
      BY <2>2, <2>3 DEF Admitted
    <2> QED BY <2>1, <2>4
  <1>7. \A k \in Slots :
          /\ pass'[k].fence = IF k = Slot THEN "idle" ELSE pass[k].fence
          /\ pass'[k].armed = IF k = Slot THEN FALSE ELSE pass[k].armed
          /\ pass'[k].acquired = IF k = Slot THEN {} ELSE pass[k].acquired
    BY CopyEntries
  <1>8. Armed'
    BY <1>4, <1>7 DEF FenceInv, Armed
  <1>9. Queue(PassFence(Slot)) = {}
    BY <1>1, <1>4, QuietIsIdle DEF Queue, Queued
  <1>10. ASSUME NEW k \in Slots, pass'[k].fence # "failed"
         PROVE  Single(PassFence(k))' /\ (pass'[k].fence = "submitted" <=> Marked(PassFence(k))')
    <2>1. CASE k = Slot
      <3>1. PassFence(Slot) \notin fences' /\ pass'[k].fence = "idle"
        BY <1>1, <1>7, <2>1
      <3> QED BY <1>3, <1>9, <2>1, <3>1 DEF Single, Marked
    <2>2. CASE k # Slot
      <3>1. \A i \in outSubmitted : i \in Nat => PassFence(k) # OutputFence(i)
        BY FencesApart
      <3>2. PassFence(k) \notin {OutputFence(i) : i \in Retired(n)}
        BY DEF PassFence, OutputFence
      <3>3. PassFence(k) \in fences' <=> PassFence(k) \in fences
        BY <1>1, <1>4, <2>2, <3>2, FencesApart
      <3>4. (Single(PassFence(k))' <=> Single(PassFence(k)))
            /\ (Marked(PassFence(k))' <=> Marked(PassFence(k)))
        BY <1>3, <3>3, SameMarks
      <3> QED BY <1>7, <1>10, <2>2, <3>4 DEF FenceInv, Marks
    <2> QED BY <2>1, <2>2
  <1>11. ASSUME NEW i \in Nat
         PROVE  Single(OutputFence(i))' /\ (i \in outSubmitted' <=> Marked(OutputFence(i))')
    <2>1. Single(OutputFence(i)) /\ (i \in outSubmitted <=> Marked(OutputFence(i)))
      BY DEF FenceInv, Marks
    <2>2. OutputFence(i) \in {OutputFence(h) : h \in Retired(n)} <=> i \in Retired(n)
      BY DEF OutputFence
    <2>3. OutputFence(i) # PassFence(Slot)
      BY DEF PassFence, OutputFence
    <2>4. CASE i \in Retired(n)
      <3>1. OutputFence(i) \in fences /\ OutputFence(i) \notin fences' /\ i \notin outSubmitted'
        BY <1>1, <2>2, <2>4 DEF Retired
      <3>2. Queue(OutputFence(i)) = {}
        BY <2>1, <3>1 DEF Single
      <3> QED BY <1>3, <3>1, <3>2 DEF Single, Marked
    <2>5. CASE i \notin Retired(n)
      <3>1. (OutputFence(i) \in fences' <=> OutputFence(i) \in fences)
            /\ (i \in outSubmitted' <=> i \in outSubmitted)
        BY <1>1, <2>2, <2>3, <2>5
      <3>2. (Single(OutputFence(i))' <=> Single(OutputFence(i)))
            /\ (Marked(OutputFence(i))' <=> Marked(OutputFence(i)))
        BY <1>3, <3>1, SameMarks
      <3> QED BY <2>1, <3>1, <3>2
    <2> QED BY <2>4, <2>5
  <1> QED BY <1>6, <1>8, <1>10, <1>11 DEF Marks

\* The end of a present queues the fence of its entry and marks it, or gives it up.
LEMMA ConcludeMarks ==
    ASSUME Inv, FenceInv, InUse, NEW then \in {"idle", "stale"}, NEW failed,
           Conclude(then, failed), UNCHANGED <<fences, outSubmitted>>
    PROVE  Marks' /\ Window' /\ Armed'
  <1>1. Slot \in Slots /\ Active(Slot)
    BY SlotsInRange DEF Inv, Shape, Active, InUse
  <1>2. pc' \in {"idle", "stale"} /\ \A k \in Slots : k # Slot => ~Active(k)
    BY DEF Conclude, Active
  <1>3. Window'
    BY <1>2 DEF Window, InUse
  <1>4. /\ \A k \in Slots :
             /\ pass'[k].acquired = pass[k].acquired
             /\ k # Slot => pass'[k].fence = pass[k].fence /\ pass'[k].armed = pass[k].armed
        /\ \/ /\ gpu' = Append(gpu, Submission(Slot, {}, {}, {PassFence(Slot)}, 0))
              /\ pass'[Slot].fence = "submitted" /\ pass'[Slot].armed
           \/ /\ UNCHANGED gpu /\ pass'[Slot].fence = "failed"
           \/ /\ UNCHANGED gpu /\ gpu = <<>>
              /\ pass'[Slot].fence = pass[Slot].fence /\ pass'[Slot].armed
    BY ConcludeEntries
  <1>5. Armed'
    BY <1>2, <1>4 DEF FenceInv, Armed
  <1>s. PICK s \in Slots : s = Slot
    BY <1>1
  <1>6. pass[s].fence = "idle" /\ Queue(PassFence(s)) = {} /\ PassFence(s) \notin fences
    BY <1>1, <1>s DEF Inv, Once, Queue, Queued
  <1>7. /\ \A F : F # PassFence(s) => Queue(F)' = Queue(F)
        /\ \/ pass'[s].fence = "submitted" /\ \E l : Queue(PassFence(s))' = {l}
           \/ pass'[s].fence = "failed"
           \/ pass'[s].fence = "idle" /\ Queue(PassFence(s))' = {}
    <2>1. CASE UNCHANGED gpu /\ pass'[s].fence \in {"failed", pass[s].fence}
      <3>1. \A F : Queue(F)' = Queue(F)
        BY <2>1 DEF Queue
      <3>2. Queue(PassFence(s))' = {}
        BY <1>6, <3>1
      <3> QED BY <1>6, <2>1, <3>1, <3>2
    <2>2. CASE /\ gpu' = Append(gpu, Submission(s, {}, {}, {PassFence(s)}, 0))
               /\ pass'[s].fence = "submitted"
      <3> DEFINE o == Submission(s, {}, {}, {PassFence(s)}, 0)
      <3>1. o.fences = {PassFence(s)}
        BY DEF Submission
      <3> HIDE DEF o
      <3>2. \A F : Queue(F)' = Queue(F) \cup (IF F \in o.fences THEN {Len(gpu) + 1} ELSE {})
        BY <2>2, QueueAppend DEF Inv, o
      <3>3. \A F : F # PassFence(s) => Queue(F)' = Queue(F)
        BY <3>1, <3>2
      <3>4. Queue(PassFence(s))' = {Len(gpu) + 1}
        BY <1>6, <3>1, <3>2
      <3> QED BY <2>2, <3>3, <3>4
    <2> QED BY <1>4, <1>s, <2>1, <2>2
  <1>8. ASSUME NEW i \in Nat
        PROVE  Single(OutputFence(i))' /\ (i \in outSubmitted' <=> Marked(OutputFence(i))')
    <2>1. Queue(OutputFence(i))' = Queue(OutputFence(i))
      BY <1>1, <1>7, FencesApart
    <2>2. (Single(OutputFence(i))' <=> Single(OutputFence(i)))
          /\ (Marked(OutputFence(i))' <=> Marked(OutputFence(i)))
      BY <2>1, SameMarks
    <2> QED BY <2>2 DEF FenceInv, Marks
  <1>9. ASSUME NEW k \in Slots, pass'[k].fence # "failed"
        PROVE  Single(PassFence(k))' /\ (pass'[k].fence = "submitted" <=> Marked(PassFence(k))')
    <2>1. CASE k = s
      <3>1. PassFence(k) \notin fences'
        BY <1>6, <2>1
      <3>2. ASSUME NEW l, Queue(PassFence(k))' = {l}
            PROVE  Single(PassFence(k))' /\ Marked(PassFence(k))'
        BY <3>1, <3>2 DEF Single, Marked
      <3>3. ASSUME Queue(PassFence(k))' = {}
            PROVE  Single(PassFence(k))' /\ ~Marked(PassFence(k))'
        BY <3>1, <3>3 DEF Single, Marked
      <3> QED BY <1>7, <1>9, <2>1, <3>2, <3>3
    <2>2. CASE k # s
      <3>1. Queue(PassFence(k))' = Queue(PassFence(k))
        BY <1>1, <1>7, <2>2, FencesApart
      <3>2. (Single(PassFence(k))' <=> Single(PassFence(k)))
            /\ (Marked(PassFence(k))' <=> Marked(PassFence(k)))
        BY <3>1, SameMarks
      <3> QED BY <1>4, <1>s, <1>9, <2>2, <3>2 DEF FenceInv, Marks
    <2> QED BY <2>1, <2>2
  <1> QED BY <1>3, <1>5, <1>8, <1>9 DEF Marks

\* Steps that leave the fences and what is known of them.
LEMMA QuietMarks ==
    ASSUME Inv, FenceInv, \A F : Queue(F)' = Queue(F),
           UNCHANGED <<fences, outSubmitted, frame, fifo>>,
           (UNCHANGED cycle.queued /\ UNCHANGED cycle.n) \/ ~InUse',
           InUse' <=> InUse,
           \A k \in Slots : /\ pass'[k].fence = pass[k].fence
                            /\ pass'[k].armed = pass[k].armed
                            /\ Active(k) \/ pass'[k].acquired = pass[k].acquired
    PROVE  Marks' /\ Window' /\ Armed'
  <1>1. \A k \in Slots : Active(k)' <=> Active(k)
    BY DEF Active, InUse, Slot
  <1>2. Armed'
    BY <1>1 DEF FenceInv, Armed
  <1>3. Window'
    BY DEF FenceInv, Window
  <1>4. \A F : (Single(F)' <=> Single(F)) /\ (Marked(F)' <=> Marked(F))
    BY SameMarks
  <1>5. Marks'
    BY <1>4 DEF FenceInv, Marks
  <1> QED BY <1>2, <1>3, <1>5

\* The copy of an output queues the fence of the output, which was reset before.
LEMMA GeneratedMarks ==
    ASSUME Inv, FenceInv, NEW j \in Images, PresentGenerated(j)
    PROVE  Marks' /\ Window' /\ Armed'
  <1>1. PICK w, s :
        /\ pc = "sent" /\ cycle.queued < cycle.n
        /\ gpu' = Append(gpu, Submission(Slot, w, s,
                     IF fifo THEN {OutputFence(cycle.queued + 1)} ELSE {}, Ahead(j)))
        /\ outSubmitted' = IF fifo THEN outSubmitted \cup {cycle.queued + 1} ELSE outSubmitted
        /\ cycle' = [cycle EXCEPT !.queued = cycle.queued + 1]
        /\ UNCHANGED <<fifo, frame, pc, fences>>
    BY DEF PresentGenerated
  <1> DEFINE o == Submission(Slot, w, s,
                     IF fifo THEN {OutputFence(cycle.queued + 1)} ELSE {}, Ahead(j))
             i == cycle.queued + 1
  <1>2. o.fences = IF fifo THEN {OutputFence(i)} ELSE {}
    BY DEF Submission
  <1> HIDE DEF o
  <1>3. \A F : Queue(F)' = Queue(F) \cup (IF F \in o.fences THEN {Len(gpu) + 1} ELSE {})
    BY <1>1, QueueAppend DEF Inv, o
  <1>4. IsCycle(cycle)
    BY DEF FenceInv, Rest
  <1>5. i \in Nat /\ cycle.queued \in Nat /\ cycle.n \in Nat
        /\ cycle'.queued = i /\ cycle'.n = cycle.n
    BY <1>1, <1>4 DEF IsCycle
  <1>6. \A k \in Slots : /\ pass'[k].fence = pass[k].fence /\ pass'[k].armed = pass[k].armed
                         /\ k # Slot => pass'[k].acquired = pass[k].acquired
    BY GeneratedEntries
  <1>7. Active(Slot) /\ \A k \in Slots : Active(k)' <=> Active(k)
    BY <1>1 DEF Active, Slot
  <1>8. Armed'
    BY <1>6, <1>7 DEF FenceInv, Armed
  <1>9. Window'
    <2> SUFFICES ASSUME fifo, NEW h \in Nat, i < h, h <= cycle.n
                 PROVE  h \notin outSubmitted'
      BY <1>1, <1>5 DEF Window
    <2>1. cycle.queued < h
      BY <1>5
    <2>2. h \notin outSubmitted
      BY <1>1, <2>1 DEF FenceInv, Window, InUse
    <2> QED BY <1>1, <1>5, <2>2
  <1>10. ASSUME NEW k \in Slots, pass'[k].fence # "failed"
         PROVE  Single(PassFence(k))' /\ (pass'[k].fence = "submitted" <=> Marked(PassFence(k))')
    <2>1. PassFence(k) \notin o.fences
      BY <1>2, <1>5, FencesApart
    <2>2. (Single(PassFence(k))' <=> Single(PassFence(k)))
            /\ (Marked(PassFence(k))' <=> Marked(PassFence(k)))
      BY <1>1, <1>3, <2>1, SameMarks
    <2> QED BY <1>6, <1>10, <2>2 DEF FenceInv, Marks
  <1>11. ASSUME NEW h \in Nat
         PROVE  Single(OutputFence(h))' /\ (h \in outSubmitted' <=> Marked(OutputFence(h))')
    <2>1. Single(OutputFence(h)) /\ (h \in outSubmitted <=> Marked(OutputFence(h)))
      BY DEF FenceInv, Marks
    <2>2. CASE fifo /\ h = i
      <3>1. h \notin outSubmitted
        BY <1>1, <1>5, <2>2 DEF FenceInv, Window, InUse
      <3>2. Queue(OutputFence(h)) = {} /\ OutputFence(h) \notin fences'
        BY <1>1, <2>1, <3>1 DEF Marked
      <3>3. Queue(OutputFence(h))' = {Len(gpu) + 1}
        BY <1>2, <1>3, <2>2, <3>2
      <3>4. h \in outSubmitted'
        BY <1>1, <2>2
      <3> QED BY <3>2, <3>3, <3>4 DEF Single, Marked
    <2>3. CASE ~(fifo /\ h = i)
      <3>1. OutputFence(h) \notin o.fences
        BY <1>2, <1>5, <2>3, FencesApart
      <3>2. (Single(OutputFence(h))' <=> Single(OutputFence(h)))
            /\ (Marked(OutputFence(h))' <=> Marked(OutputFence(h)))
        BY <1>1, <1>3, <3>1, SameMarks
      <3>3. h \in outSubmitted' <=> h \in outSubmitted
        BY <1>1, <2>3
      <3> QED BY <2>1, <3>2, <3>3
    <2> QED BY <2>2, <2>3
  <1> QED BY <1>8, <1>9, <1>10, <1>11 DEF Marks

\* The fences, over every step.
LEMMA FenceStep ==
    ASSUME Inv, FenceInv, [Next]_vars
    PROVE  FenceInv'
  <1> SUFFICES Marks' /\ Window' /\ Armed'
    BY RestKept DEF FenceInv
  <1>1. CASE UNCHANGED vars
    <2>1. \A F : Queue(F)' = Queue(F)
      BY <1>1 DEF vars, queues, Queue
    <2> QED BY <1>1, <2>1, QuietMarks DEF vars, owners, queues, InUse
  <1>2. CASE \E j \in Images : BusyPassthrough(j)
    BY <1>2, BusyMarks
  <1>3. CASE \E j \in Images, n \in Batches, refused \in BOOLEAN :
               Copy(j, n, refused)
    BY <1>3, CopyMarks
  <1>4. ASSUME NEW outcome, Dispatch(outcome) PROVE Marks' /\ Window' /\ Armed'
    <2>1. /\ pc = "copied" /\ pc' = "sent" /\ cycle' = [cycle EXCEPT !.wait = outcome]
          /\ UNCHANGED <<fifo, frame, outSubmitted, gpu, fences>>
      BY <1>4 DEF Dispatch
    <2>2. cycle'.n = cycle.n /\ cycle'.queued = cycle.queued
      BY <2>1 DEF FenceInv, Rest, IsCycle
    <2>3. \A F : Queue(F)' = Queue(F)
      BY <2>1 DEF Queue
    <2>4. \A k \in Slots : /\ pass'[k].fence = pass[k].fence
                           /\ pass'[k].armed = pass[k].armed
                           /\ pass'[k].acquired = pass[k].acquired
      BY <1>4, DispatchEntries
    <2> QED BY <2>1, <2>2, <2>3, <2>4, QuietMarks DEF InUse
  <1>5. CASE ExportFailed
    BY <1>5, ConcludeMarks DEF ExportFailed, InUse
  <1>6. CASE CompletionTimeout
    BY <1>6, ConcludeMarks DEF CompletionTimeout, InUse
  <1>7. CASE PresentSource
    BY <1>7, ConcludeMarks DEF PresentSource, InUse
  <1>8. CASE \E j \in Images : PresentGenerated(j)
    BY <1>8, GeneratedMarks
  <1>9. CASE GpuStep
    <2>1. /\ gpu # <<>> /\ gpu' = Tail(gpu) /\ fences' = fences \cup Head(gpu).fences
          /\ UNCHANGED <<fifo, frame, pc, cycle, outSubmitted, pass>>
      BY <1>9 DEF GpuStep, owners
    <2>2. \A F : Single(F) => Single(F)' /\ (Marked(F)' <=> Marked(F))
      BY <2>1, PopMarks DEF Inv
    <2>3. Marks'
      BY <2>1, <2>2 DEF FenceInv, Marks
    <2> QED BY <2>1, <2>3 DEF FenceInv, Window, Armed, InUse, Active, Slot
  <1>10. CASE WsiStep
    <2>1. /\ gpu' = [i \in DOMAIN gpu |->
                     [gpu[i] EXCEPT !.ahead = IF @ = 0 THEN 0 ELSE @ - 1]]
          /\ UNCHANGED <<fifo, frame, pc, cycle, outSubmitted, pass, fences>>
      BY <1>10 DEF WsiStep, owners
    <2>2. \A F : Queue(F)' = Queue(F)
      <3>1. DOMAIN gpu' = DOMAIN gpu /\ \A i \in DOMAIN gpu : gpu'[i].fences = gpu[i].fences
        BY <2>1 DEF Inv, GpuShape, IsSubmission
      <3> QED BY <3>1 DEF Queue
    <2> QED BY <2>1, <2>2, QuietMarks DEF InUse
  <1>11. CASE BackendStep
    <2>1. UNCHANGED <<fifo, frame, pc, cycle, outSubmitted, pass, fences, gpu>>
      BY <1>11 DEF BackendStep, owners
    <2>2. \A F : Queue(F)' = Queue(F)
      BY <2>1 DEF Queue
    <2> QED BY <2>1, <2>2, QuietMarks DEF InUse
  <1>12. CASE EnterSourceOnlyBypass
    <2>1. UNCHANGED <<fifo, frame, pc, cycle, outSubmitted, pass, fences, gpu>>
      BY <1>12 DEF EnterSourceOnlyBypass, owners, queues
    <2>2. \A F : Queue(F)' = Queue(F)
      BY <2>1 DEF Queue
    <2> QED BY <2>1, <2>2, QuietMarks DEF InUse
  <1>13. CASE Recreate
    <2>1. /\ gpu' = <<>> /\ pc' = "idle" /\ fences' = {} /\ outSubmitted' = {}
          /\ pass' = [k \in Slots |-> Unused]
      BY <1>13 DEF Recreate
    <2>2. \A F : Queue(F)' = {} /\ F \notin fences'
      BY <2>1 DEF Queue
    <2>3. Marks'
      BY <2>1, <2>2 DEF Marks, Single, Marked, Unused
    <2> QED BY <2>1, <2>3 DEF Window, Armed, InUse, Unused
  <1> QED BY <1>1, <1>2, <1>3, <1>4, <1>5, <1>6, <1>7, <1>8, <1>9, <1>10, <1>11,
             <1>12, <1>13 DEF Next, Present, Devices

-----------------------------------------------------------------------------
\* A mark that is true counts fences.
LEMMA Tandem ==
    ASSUME NEW F, Single(F), NEW mark \in BOOLEAN, mark <=> Marked(F)
    PROVE  Cardinality(Queue(F)) + (IF F \in fences THEN 1 ELSE 0) = (IF mark THEN 1 ELSE 0)
  <1>1. CASE Queue(F) = {}
    <2>1. Cardinality(Queue(F)) = 0
      BY <1>1, FS_EmptySet
    <2> QED BY <1>1, <2>1 DEF Marked
  <1>2. CASE Queue(F) # {}
    <2>1. PICK x : Queue(F) = {x}
      BY <1>2 DEF Single
    <2>2. Cardinality(Queue(F)) = 1
      BY <2>1, FS_Singleton
    <2> QED BY <1>2, <2>2 DEF Marked, Single
  <1> QED BY <1>1, <1>2

\* The marks are those of FencesInTandem,
LEMMA InvGivesTandem == FenceInv => FencesInTandem
  <1> SUFFICES ASSUME FenceInv PROVE FencesInTandem
    OBVIOUS
  <1>1. ASSUME NEW k \in Slots, pass[k].fence # "failed"
        PROVE  Cardinality(Queue(PassFence(k))) + (IF PassFence(k) \in fences THEN 1 ELSE 0)
                 = (IF pass[k].fence = "submitted" THEN 1 ELSE 0)
    BY <1>1, Tandem DEF FenceInv, Marks
  <1>2. ASSUME NEW i \in Outputs
        PROVE  Cardinality(Queue(OutputFence(i))) + (IF OutputFence(i) \in fences THEN 1 ELSE 0)
                 = (IF i \in outSubmitted THEN 1 ELSE 0)
    <2>1. i \in Nat
      BY PassRingAssumption DEF Outputs
    <2> QED BY <2>1, Tandem DEF FenceInv, Marks
  <1> QED BY <1>1, <1>2 DEF FencesInTandem, Queue

\* and on an idle queue the next entry can be recycled.
LEMMA InvGivesFreeRing == Inv /\ FenceInv => DrainedRingIsFree
  <1> SUFFICES ASSUME Inv, FenceInv, pc = "idle", gpu = <<>>, pass[Slot].fence # "failed"
               PROVE  Quiet(Slot) /\ ~Withheld(Slot)
    BY DEF DrainedRingIsFree
  <1>1. Slot \in Slots /\ IsPass(pass[Slot]) /\ ~Active(Slot)
    BY SlotsInRange DEF Inv, Shape, Active
  <1>2. Queue(PassFence(Slot)) = {}
    BY DEF Queue
  <1>3. Quiet(Slot)
    BY <1>1, <1>2 DEF FenceInv, Marks, Marked, Quiet, IsPass
  <1>4. ~Withheld(Slot)
    BY <1>1 DEF FenceInv, Armed, Withheld
  <1> QED BY <1>3, <1>4

\* A fence is marked as submitted exactly while it is on the queue or has signalled,
\* and it is on the queue once: no fence is queued again or waited for without
\* need, however the batches on FIFO overlap (context.cpp:5985-6060, 1635-1660).
THEOREM FenceMarksAreTrue == Spec => []FencesInTandem
  <1>1. Init => Inv /\ FenceInv
    BY InitInv, InitRest, InitFence DEF FenceInv
  <1>2. Inv /\ FenceInv /\ [Next]_vars => Inv' /\ FenceInv'
    BY Step, FenceStep
  <1>3. FenceInv => FencesInTandem
    BY InvGivesTandem
  <1> QED BY <1>1, <1>2, <1>3, PTL DEF Spec

\* When the queue is idle the next entry can be recycled, unless queueing its fence
\* has failed: nothing that the layer keeps for an entry withholds it for good
\* (context.cpp:1550-1660, submitPassCompletionFence and its callers).
THEOREM RingFreesItself == Spec => []DrainedRingIsFree
  <1>1. Init => Inv /\ FenceInv
    BY InitInv, InitRest, InitFence DEF FenceInv
  <1>2. Inv /\ FenceInv /\ [Next]_vars => Inv' /\ FenceInv'
    BY Step, FenceStep
  <1>3. Inv /\ FenceInv => DrainedRingIsFree
    BY InvGivesFreeRing
  <1> QED BY <1>1, <1>2, <1>3, PTL DEF Spec

-----------------------------------------------------------------------------
(* The consumers of the semaphores *)

\* What the entries of a queue wait for, and what they signal.
Used(q)  == UNION {o.waits : o \in Members(q)}
Given(q) == UNION {o.signals : o \in Members(q)}

\* A semaphore that no entry of a queue has waited for yet.
Fresh(s) ==
    /\ s[2] \in Nat /\ s[3] \in Nat
    /\ \/ /\ s[1] \in {"next", "batch", "render", "input", "ready", "prev", "post"}
          /\ s[2] > frame
       \/ s[1] \in {"next", "batch", "ready"} /\ s[2] = frame
       \/ s[1] \in {"next", "batch"} /\ s[2] = frame - 1 /\ ~InUse
       \/ s[1] \in {"render", "post"} /\ s[2] = frame /\ (InUse => s[3] > cycle.queued)
       \/ s[1] = "prev" /\ s[2] = frame /\ (InUse => s[3] >= cycle.queued)
       \/ s[1] = "input" /\ s[2] = frame /\ pc # "sent"

\* What the game device waits for, and what the presents do.
OnGpu     == {"next", "batch", "render"}
OnScreen  == {"ready", "prev", "post"}

\* The queues wait for different semaphores, each of its kind.
Waits ==
    /\ \A s \in Used(gpu) : s[1] \in OnGpu /\ ~Fresh(s)
    /\ \A s \in Used(wsi) : s \in GameSemaphores \/ (s[1] \in OnScreen /\ ~Fresh(s))
    /\ \A s \in Used(backend) : s[1] = "input" /\ ~Fresh(s)
    /\ Apart(gpu) /\ Apart(wsi) /\ Apart(backend)

\* What is still going to be waited for.
Due ==
    IF ~InUse
    THEN {s \in {<<"next", frame - 1, 0>>} : frame > 0 /\ chained}
           \cup {s \in {<<"batch", frame - 1, 0>>} : frame > 0 /\ pass[Before].batch}
    ELSE {s \in {<<"ready", frame, 0>>} : cycle.queued = 0}
           \cup {s \in {<<"prev", frame, cycle.queued>>} : cycle.queued # 0}
           \cup {s \in {<<"next", frame, 0>>} : chained}
           \cup {s \in {<<"input", frame, 0>>} : pc = "copied" /\ cycle.async}
           \cup {s \in {<<"batch", frame, 0>>} : pc = "sent" /\ pass[Slot].batch}
           \cup {s \in {<<"render", frame, i>> : i \in cycle.queued + 1 .. cycle.n} :
                   pc = "sent" /\ cycle.wait = "imported"}

\* Whatever is waited for or is going to be has a signal.
Supply == Used(gpu) \cup (Used(wsi) \ GameSemaphores) \cup Used(backend) \cup Due \subseteq Signals

\* The batch an entry signals a semaphore for is its last one.
OwnBatch ==
    /\ \A k \in Slots : \A s \in pass[k].own : s[1] = "batch" => s[3] = 0
    /\ ~InUse /\ frame > 0 /\ pass[Before].batch =>
         \A s \in pass[Before].own : s[1] = "batch" => s = <<"batch", frame - 1, 0>>
    /\ pc = "sent" /\ pass[Slot].batch =>
         \A s \in pass[Slot].own : s[1] = "batch" => s = <<"batch", frame, 0>>
    /\ pc = "copied" => ~pass[Slot].batch

\* The application's semaphore: nothing of its image is presented first.
GameOrder ==
    \A j \in Images, p \in DOMAIN wsi : Game(j) \in wsi[p].waits =>
      /\ wsi[p].image = j
      /\ \/ Game(j) \in signalled /\ \A q \in DOMAIN wsi : q < p => wsi[q].image # j
         \/ \E g \in DOMAIN gpu :
              /\ Game(j) \in gpu[g].signals
              /\ \A q \in DOMAIN wsi : gpu[g].ahead < q /\ q < p => wsi[q].image # j

\* The invariant about the consumers.
ConsumerInv == Waits /\ Supply /\ OwnBatch /\ GameOrder

-----------------------------------------------------------------------------
\* What a queue waits for grows with its entries,
LEMMA AppendUse ==
    ASSUME NEW q, q \in Seq(Members(q)), NEW x
    PROVE  /\ Used(Append(q, x)) = Used(q) \cup x.waits
           /\ Given(Append(q, x)) = Given(q) \cup x.signals
           /\ Apart(q) /\ x.waits \cap Used(q) \subseteq GameSemaphores => Apart(Append(q, x))
  <1> DEFINE r == Append(q, x)
  <1>1. /\ DOMAIN r = DOMAIN q \cup {Len(q) + 1} /\ Len(q) \in Nat
        /\ \A i \in DOMAIN q : i \in Nat /\ i < Len(q) + 1 /\ r[i] = q[i]
        /\ r[Len(q) + 1] = x
        /\ Members(r) = Members(q) \cup {x}
    BY Appended
  <1> HIDE DEF r
  <1>2. Used(r) = Used(q) \cup x.waits /\ Given(r) = Given(q) \cup x.signals
    BY <1>1 DEF Used, Given
  <1>3. ASSUME Apart(q), x.waits \cap Used(q) \subseteq GameSemaphores PROVE Apart(r)
    <2> SUFFICES ASSUME NEW i \in DOMAIN r, NEW h \in DOMAIN r, i < h
                 PROVE  r[i].waits \cap r[h].waits \subseteq GameSemaphores
      BY DEF Apart
    <2>1. i \in DOMAIN q
      BY <1>1
    <2>2. CASE h \in DOMAIN q
      BY <1>1, <1>3, <2>1, <2>2 DEF Apart
    <2>3. CASE h = Len(q) + 1
      <3>1. r[i].waits \subseteq Used(q)
        BY <1>1, <2>1 DEF Used, Members
      <3> QED BY <1>1, <1>3, <2>3, <3>1
    <2> QED BY <1>1, <2>2, <2>3
  <1> QED BY <1>2, <1>3 DEF r

\* and a finished entry waits for nothing.
LEMMA PopUse ==
    ASSUME NEW q, q \in Seq(Members(q)), q # <<>>
    PROVE  /\ Used(q) = Used(Tail(q)) \cup Head(q).waits
           /\ Given(q) = Given(Tail(q)) \cup Head(q).signals
           /\ Apart(q) => /\ Apart(Tail(q))
                          /\ Head(q).waits \cap Used(Tail(q)) \subseteq GameSemaphores
  <1> DEFINE r == Tail(q)
  <1>1. /\ 1 \in DOMAIN q /\ Head(q) = q[1]
        /\ \A i \in DOMAIN r : i \in Nat /\ i >= 1 /\ i + 1 \in DOMAIN q /\ r[i] = q[i + 1]
        /\ Members(q) = Members(r) \cup {Head(q)}
    BY Popped
  <1> HIDE DEF r
  <1>2. Used(q) = Used(r) \cup Head(q).waits /\ Given(q) = Given(r) \cup Head(q).signals
    BY <1>1 DEF Used, Given
  <1>3. ASSUME Apart(q) PROVE Apart(r) /\ Head(q).waits \cap Used(r) \subseteq GameSemaphores
    <2>1. Apart(r)
      <3> SUFFICES ASSUME NEW i \in DOMAIN r, NEW h \in DOMAIN r, i < h
                   PROVE  r[i].waits \cap r[h].waits \subseteq GameSemaphores
        BY DEF Apart
      <3>1. i + 1 < h + 1 /\ i + 1 \in DOMAIN q /\ h + 1 \in DOMAIN q
              /\ r[i] = q[i + 1] /\ r[h] = q[h + 1]
        BY <1>1
      <3> QED BY <1>3, <3>1 DEF Apart
    <2>2. ASSUME NEW s \in Head(q).waits, s \in Used(r) PROVE s \in GameSemaphores
      <3>1. PICK i \in DOMAIN r : s \in r[i].waits
        BY <2>2 DEF Used, Members
      <3>2. 1 < i + 1 /\ i + 1 \in DOMAIN q /\ r[i] = q[i + 1]
        BY <1>1
      <3> QED BY <1>1, <1>3, <2>2, <3>1, <3>2 DEF Apart
    <2> QED BY <2>1, <2>2
  <1> QED BY <1>2, <1>3 DEF r

\* Signals, by queues.
LEMMA SignalsAre ==
    /\ Signals = signalled \cup Given(gpu) \cup Given(backend)
    /\ Signals' = signalled' \cup Given(gpu') \cup Given(backend')
  BY DEF Signals, Given

\* The model's words for what the queues wait for.
LEMMA InPresentsAre == InPresents = Used(wsi) /\ InBatches = Used(backend)
                         /\ Used(gpu) \subseteq InSubmissions
  BY DEF InPresents, InBatches, InSubmissions, Used

\* What the game device, the presents and the backend wait for differs in kind.
LEMMA Kinds ==
    /\ \A s \in GameSemaphores : s[1] = "game"
    /\ OnGpu \cap OnScreen = {} /\ "game" \notin OnGpu \cup OnScreen
    /\ "input" \notin OnGpu \cup OnScreen \cup {"game"}
  BY DEF GameSemaphores, Game, OnGpu, OnScreen

\* The queues wait for different semaphores.
LEMMA Disjoint ==
    ASSUME Waits
    PROVE  /\ Used(gpu) \cap Used(wsi) = {} /\ Used(gpu) \cap Used(backend) = {}
           /\ Used(wsi) \cap Used(backend) = {}
           /\ Used(gpu) \cap GameSemaphores = {} /\ Used(backend) \cap GameSemaphores = {}
  BY Kinds DEF Waits

\* What is due has not been waited for.
LEMMA DueIsFresh ==
    ASSUME Inv, Rest, NEW s \in Due
    PROVE  Fresh(s) /\ s \notin GameSemaphores
  <1>1. frame \in Nat /\ cycle.queued \in Nat /\ cycle.n \in Nat
    BY DEF Inv, Shape, Rest, IsCycle
  <1>2. CASE ~InUse
    <2>1. \/ s = <<"next", frame - 1, 0>> /\ frame > 0
          \/ s = <<"batch", frame - 1, 0>> /\ frame > 0
      BY <1>2 DEF Due
    <2>2. frame - 1 \in Nat
      BY <1>1, <2>1
    <2> QED BY <1>2, <2>1, <2>2, Kinds DEF Fresh
  <1>3. CASE InUse
    <2> DEFINE renders == {<<"render", frame, i>> : i \in cycle.queued + 1 .. cycle.n}
               copy == {<<"ready", frame, 0>>, <<"prev", frame, cycle.queued>>,
                        <<"next", frame, 0>>, <<"batch", frame, 0>>}
    <2>1. s \in copy \/ (s \in {<<"input", frame, 0>>} /\ pc = "copied") \/ s \in renders
      <3> HIDE DEF renders
      <3> QED BY <1>3 DEF Due, renders
    <2>2. CASE s \in renders
      <3>1. PICK i \in cycle.queued + 1 .. cycle.n : s = <<"render", frame, i>>
        BY <2>2
      <3>2. i \in Nat /\ i > cycle.queued
        BY <1>1
      <3> QED BY <1>1, <3>1, <3>2, Kinds DEF Fresh
    <2>3. CASE s \in {<<"input", frame, 0>>} /\ pc = "copied"
      BY <1>1, <2>3, Kinds DEF Fresh
    <2>4. CASE s \in copy
      BY <1>1, <2>4, Kinds DEF Fresh
    <2> HIDE DEF renders, copy
    <2> QED BY <2>1, <2>2, <2>3, <2>4
  <1> QED BY <1>2, <1>3

-----------------------------------------------------------------------------
(* The steps of a queue. *)

\* At first nobody waits.
LEMMA InitConsumer == Init => ConsumerInv
  <1> SUFFICES ASSUME Init PROVE ConsumerInv
    OBVIOUS
  <1>1. /\ Members(gpu) = {} /\ Members(wsi) = {} /\ Members(backend) = {}
        /\ DOMAIN gpu = {} /\ DOMAIN wsi = {} /\ DOMAIN backend = {}
    BY DEF Init, Members
  <1>2. Used(gpu) = {} /\ Used(wsi) = {} /\ Used(backend) = {}
    BY <1>1 DEF Used
  <1>3. frame = 0 /\ ~InUse /\ pc = "idle" /\ \A k \in Slots : pass[k] = Unused
    BY DEF Init, InUse
  <1>4. Due = {}
    BY <1>3 DEF Due
  <1>5. Waits /\ GameOrder
    BY <1>1, <1>2 DEF Waits, Apart, GameOrder
  <1>6. OwnBatch
    BY <1>3 DEF OwnBatch, Unused
  <1> QED BY <1>2, <1>4, <1>5, <1>6 DEF ConsumerInv, Supply

\* Only the present moves on: what was used stays so.
LEMMA FreshSame ==
    ASSUME UNCHANGED <<frame, pc, cycle>>
    PROVE  \A s : Fresh(s)' <=> Fresh(s)
  BY DEF Fresh, InUse

\* A finished submission has signalled what others wait for.
LEMMA GpuStepConsumer ==
    ASSUME Inv, Rest, ConsumerInv, GpuStep
    PROVE  ConsumerInv'
  <1>1. /\ gpu # <<>> /\ Head(gpu).ahead = 0 /\ gpu' = Tail(gpu)
        /\ signalled' = (signalled \ Head(gpu).waits) \cup Head(gpu).signals
        /\ UNCHANGED <<frame, pc, cycle, chained, pass, wsi, backend>>
    BY DEF GpuStep, owners, flags
  <1>2. /\ Used(gpu) = Used(gpu') \cup Head(gpu).waits
        /\ Given(gpu) = Given(gpu') \cup Head(gpu).signals
        /\ Apart(gpu') /\ Head(gpu).waits \cap Used(gpu') \subseteq GameSemaphores
    BY <1>1, PopUse DEF Inv, GpuShape, ConsumerInv, Waits
  <1>3. \A s : Fresh(s)' <=> Fresh(s)
    BY <1>1, FreshSame
  <1>4. Waits'
    <2>1. \A s \in Used(gpu') : s[1] \in OnGpu /\ ~Fresh(s)'
      BY <1>2, <1>3 DEF ConsumerInv, Waits
    <2>2. Used(wsi') = Used(wsi) /\ Used(backend') = Used(backend)
            /\ Apart(wsi') /\ Apart(backend')
      BY <1>1 DEF ConsumerInv, Waits
    <2> QED BY <1>2, <1>3, <2>1, <2>2 DEF ConsumerInv, Waits
  <1>5. Supply'
    <2>1. Signals \ Head(gpu).waits \subseteq Signals'
      BY <1>1, <1>2, SignalsAre
    <2>2. Due' = Due
      BY <1>1 DEF Due, InUse, Before, Slot
    <2>3. \A s \in Due : s \notin Head(gpu).waits
      BY <1>2, DueIsFresh DEF ConsumerInv, Waits
    <2>4. Head(gpu).waits \cap (Used(gpu') \cup Used(wsi) \cup Used(backend)) = {}
      BY <1>2, Disjoint DEF ConsumerInv
    <2> QED BY <1>1, <1>2, <2>1, <2>2, <2>3, <2>4 DEF ConsumerInv, Supply
  <1>6. OwnBatch'
    BY <1>1 DEF ConsumerInv, OwnBatch, InUse, Before, Slot
  <1>7. GameOrder'
    <2> SUFFICES ASSUME NEW j \in Images, NEW p \in DOMAIN wsi, Game(j) \in wsi[p].waits
                 PROVE
      /\ wsi[p].image = j
      /\ \/ Game(j) \in signalled' /\ \A q \in DOMAIN wsi : q < p => wsi[q].image # j
         \/ \E g \in DOMAIN gpu' :
              /\ Game(j) \in gpu'[g].signals
              /\ \A q \in DOMAIN wsi : gpu'[g].ahead < q /\ q < p => wsi[q].image # j
      BY <1>1 DEF GameOrder
    <2>1. Game(j) \notin Head(gpu).waits
      BY <1>2, Disjoint DEF ConsumerInv, GameSemaphores
    <2>2. CASE Game(j) \in signalled /\ \A q \in DOMAIN wsi : q < p => wsi[q].image # j
      BY <1>1, <2>1, <2>2 DEF ConsumerInv, GameOrder
    <2>3. ASSUME NEW g \in DOMAIN gpu, Game(j) \in gpu[g].signals,
                 \A q \in DOMAIN wsi : gpu[g].ahead < q /\ q < p => wsi[q].image # j
          PROVE
             \/ Game(j) \in signalled' /\ \A q \in DOMAIN wsi : q < p => wsi[q].image # j
             \/ \E h \in DOMAIN gpu' :
                  /\ Game(j) \in gpu'[h].signals
                  /\ \A q \in DOMAIN wsi : gpu'[h].ahead < q /\ q < p => wsi[q].image # j
      <3>1. /\ Head(gpu) = gpu[1]
            /\ \A i \in DOMAIN gpu : i # 1 => i - 1 \in DOMAIN gpu' /\ gpu'[i - 1] = gpu[i]
        BY <1>1, Popped DEF Inv, GpuShape
      <3>2. CASE g = 1
        <4>1. \A q \in DOMAIN wsi : 0 < q
          BY LenProperties DEF Rest
        <4> QED BY <1>1, <2>3, <3>1, <3>2, <4>1
      <3>3. CASE g # 1
        BY <2>3, <3>1, <3>3
      <3> QED BY <3>2, <3>3
    <2> QED BY <2>2, <2>3 DEF ConsumerInv, GameOrder
  <1> QED BY <1>4, <1>5, <1>6, <1>7 DEF ConsumerInv

\* A finished present shortens every distance by one.
LEMMA WsiStepConsumer ==
    ASSUME Inv, Rest, ConsumerInv, WsiStep
    PROVE  ConsumerInv'
  <1>1. /\ wsi # <<>> /\ wsi' = Tail(wsi)
        /\ signalled' = signalled \ Head(wsi).waits
        /\ gpu' = [i \in DOMAIN gpu |->
                     [gpu[i] EXCEPT !.ahead = IF @ = 0 THEN 0 ELSE @ - 1]]
        /\ UNCHANGED <<frame, pc, cycle, chained, pass, backend>>
    BY DEF WsiStep, owners, flags
  <1>2. /\ Used(wsi) = Used(wsi') \cup Head(wsi).waits
        /\ Apart(wsi') /\ Head(wsi).waits \cap Used(wsi') \subseteq GameSemaphores
    BY <1>1, PopUse DEF Rest, ConsumerInv, Waits
  <1>3. \A s : Fresh(s)' <=> Fresh(s)
    BY <1>1, FreshSame
  <1>4. /\ DOMAIN gpu' = DOMAIN gpu
        /\ \A i \in DOMAIN gpu :
             /\ gpu'[i].waits = gpu[i].waits /\ gpu'[i].signals = gpu[i].signals
             /\ gpu'[i].ahead = IF gpu[i].ahead = 0 THEN 0 ELSE gpu[i].ahead - 1
    BY <1>1 DEF Inv, GpuShape, IsSubmission
  <1>5. Used(gpu') = Used(gpu) /\ Given(gpu') = Given(gpu)
    BY <1>4 DEF Used, Given, Members
  <1>6. Apart(gpu')
    BY <1>4 DEF Apart, ConsumerInv, Waits
  <1>7. Waits'
    <2>1. Used(backend') = Used(backend) /\ Apart(backend')
      BY <1>1 DEF ConsumerInv, Waits
    <2> QED BY <1>2, <1>3, <1>5, <1>6, <2>1 DEF ConsumerInv, Waits
  <1>8. Supply'
    <2>1. Signals \ Head(wsi).waits \subseteq Signals'
      BY <1>1, <1>5, SignalsAre
    <2>2. Due' = Due
      BY <1>1 DEF Due, InUse, Before, Slot
    <2>3. \A s \in Due : s \notin Head(wsi).waits
      BY <1>2, DueIsFresh DEF ConsumerInv, Waits
    <2>4. Head(wsi).waits \cap (Used(gpu) \cup (Used(wsi') \ GameSemaphores) \cup Used(backend)) = {}
      BY <1>2, Disjoint DEF ConsumerInv
    <2> QED BY <1>1, <1>2, <1>5, <2>1, <2>2, <2>3, <2>4 DEF ConsumerInv, Supply
  <1>9. OwnBatch'
    BY <1>1 DEF ConsumerInv, OwnBatch, InUse, Before, Slot
  <1>10. GameOrder'
    <2>1. /\ Head(wsi) = wsi[1] /\ 1 \in DOMAIN wsi
          /\ \A i \in DOMAIN wsi' : i \in Nat /\ i >= 1 /\ i + 1 \in DOMAIN wsi /\ wsi'[i] = wsi[i + 1]
      BY <1>1, Popped DEF Rest
    <2> SUFFICES ASSUME NEW j \in Images, NEW p \in DOMAIN wsi', Game(j) \in wsi'[p].waits
                 PROVE
      /\ wsi'[p].image = j
      /\ \/ Game(j) \in signalled' /\ \A q \in DOMAIN wsi' : q < p => wsi'[q].image # j
         \/ \E g \in DOMAIN gpu' :
              /\ Game(j) \in gpu'[g].signals
              /\ \A q \in DOMAIN wsi' : gpu'[g].ahead < q /\ q < p => wsi'[q].image # j
      BY DEF GameOrder
    <2>2. p + 1 \in DOMAIN wsi /\ wsi'[p] = wsi[p + 1] /\ p \in Nat /\ p >= 1
            /\ Game(j) \in wsi[p + 1].waits
      BY <2>1
    <2>3. wsi'[p].image = j
      BY <2>2 DEF ConsumerInv, GameOrder
    <2>4. CASE Game(j) \in signalled /\ \A q \in DOMAIN wsi : q < p + 1 => wsi[q].image # j
      <3>1. wsi[1].image # j
        BY <2>1, <2>2, <2>4
      <3>2. Game(j) \notin Head(wsi).waits
        BY <2>1, <3>1 DEF ConsumerInv, GameOrder
      <3>3. \A q \in DOMAIN wsi' : q < p => wsi'[q].image # j
        <4> SUFFICES ASSUME NEW q \in DOMAIN wsi', q < p PROVE wsi'[q].image # j
          OBVIOUS
        <4>1. q + 1 < p + 1 /\ q + 1 \in DOMAIN wsi /\ wsi'[q] = wsi[q + 1]
          BY <2>1, <2>2
        <4> QED BY <2>4, <4>1
      <3> QED BY <1>1, <2>3, <2>4, <3>2, <3>3
    <2>5. ASSUME NEW g \in DOMAIN gpu, Game(j) \in gpu[g].signals,
                 \A q \in DOMAIN wsi : gpu[g].ahead < q /\ q < p + 1 => wsi[q].image # j
          PROVE  /\ g \in DOMAIN gpu' /\ Game(j) \in gpu'[g].signals
                 /\ \A q \in DOMAIN wsi' : gpu'[g].ahead < q /\ q < p => wsi'[q].image # j
      <3> SUFFICES ASSUME NEW q \in DOMAIN wsi', gpu'[g].ahead < q, q < p
                   PROVE  wsi'[q].image # j
        BY <1>4, <2>5
      <3>1. q + 1 < p + 1 /\ q + 1 \in DOMAIN wsi /\ wsi'[q] = wsi[q + 1] /\ q \in Nat
        BY <2>1, <2>2
      <3>2. gpu[g].ahead < q + 1
        <4>1. gpu[g].ahead \in Nat
          BY DEF Rest
        <4>2. gpu'[g].ahead = IF gpu[g].ahead = 0 THEN 0 ELSE gpu[g].ahead - 1
          BY <1>4
        <4> QED BY <3>1, <4>1, <4>2
      <3> QED BY <2>5, <3>1, <3>2
    <2> QED BY <2>2, <2>3, <2>4, <2>5 DEF ConsumerInv, GameOrder
  <1> QED BY <1>7, <1>8, <1>9, <1>10 DEF ConsumerInv

\* A finished batch signals the semaphores of its outputs.
LEMMA BackendStepConsumer ==
    ASSUME Inv, Rest, ConsumerInv, BackendStep
    PROVE  ConsumerInv'
  <1>1. /\ backend # <<>> /\ backend' = Tail(backend)
        /\ signalled' = (signalled \ Head(backend).waits) \cup Head(backend).signals
        /\ UNCHANGED <<frame, pc, cycle, chained, pass, wsi, gpu>>
    BY DEF BackendStep, owners, flags
  <1>2. /\ Used(backend) = Used(backend') \cup Head(backend).waits
        /\ Given(backend) = Given(backend') \cup Head(backend).signals
        /\ Apart(backend') /\ Head(backend).waits \cap Used(backend') \subseteq GameSemaphores
    BY <1>1, PopUse DEF Rest, ConsumerInv, Waits
  <1>3. \A s : Fresh(s)' <=> Fresh(s)
    BY <1>1, FreshSame
  <1>4. Waits'
    <2>1. \A s \in Used(backend') : s[1] = "input" /\ ~Fresh(s)'
      BY <1>2, <1>3 DEF ConsumerInv, Waits
    <2>2. Used(wsi') = Used(wsi) /\ Used(gpu') = Used(gpu)
            /\ Apart(wsi') /\ Apart(gpu')
      BY <1>1 DEF ConsumerInv, Waits
    <2> QED BY <1>2, <1>3, <2>1, <2>2 DEF ConsumerInv, Waits
  <1>5. Supply'
    <2>1. Signals \ Head(backend).waits \subseteq Signals'
      BY <1>1, <1>2, SignalsAre
    <2>2. Due' = Due
      BY <1>1 DEF Due, InUse, Before, Slot
    <2>3. \A s \in Due : s \notin Head(backend).waits
      BY <1>2, DueIsFresh DEF ConsumerInv, Waits
    <2>4. Head(backend).waits \cap (Used(backend') \cup Used(wsi) \cup Used(gpu)) = {}
      BY <1>2, Disjoint DEF ConsumerInv
    <2> QED BY <1>1, <1>2, <2>1, <2>2, <2>3, <2>4 DEF ConsumerInv, Supply
  <1>6. OwnBatch'
    BY <1>1 DEF ConsumerInv, OwnBatch, InUse, Before, Slot
  <1>7. GameOrder'
    <2>1. ASSUME NEW j \in Images PROVE Game(j) \notin Head(backend).waits
      BY <1>2, Disjoint DEF ConsumerInv, GameSemaphores
    <2> QED BY <1>1, <2>1 DEF ConsumerInv, GameOrder
  <1> QED BY <1>4, <1>5, <1>6, <1>7 DEF ConsumerInv

-----------------------------------------------------------------------------
(* The steps of a present *)

\* The order of the presents of an image, when both queues grow.
LEMMA GameKept ==
    ASSUME Rest, GameOrder, NEW x,
           \A g \in DOMAIN gpu : g \in DOMAIN gpu' /\ gpu'[g] = gpu[g],
           UNCHANGED wsi \/ wsi' = Append(wsi, x),
           \A s \in GameSemaphores \cap Used(wsi) : s \in signalled => s \in signalled',
           \A j \in Images : Game(j) \in x.waits =>
             /\ x.image = j
             /\ \E g \in DOMAIN gpu' :
                  /\ Game(j) \in gpu'[g].signals
                  /\ \A q \in DOMAIN wsi : gpu'[g].ahead < q => wsi[q].image # j
    PROVE  GameOrder'
  <1>1. /\ DOMAIN wsi = 1 .. Len(wsi) /\ Len(wsi) \in Nat
        /\ \A p \in DOMAIN wsi : p \in Nat /\ p < Len(wsi) + 1 /\ wsi'[p] = wsi[p]
        /\ \/ DOMAIN wsi' = DOMAIN wsi
           \/ DOMAIN wsi' = DOMAIN wsi \cup {Len(wsi) + 1} /\ wsi'[Len(wsi) + 1] = x
    <2>1. /\ DOMAIN wsi = 1 .. Len(wsi) /\ Len(wsi) \in Nat
          /\ \A p \in DOMAIN wsi : p \in Nat /\ p < Len(wsi) + 1
      BY LenProperties DEF Rest
    <2>2. CASE UNCHANGED wsi
      BY <2>1, <2>2
    <2>3. CASE wsi' = Append(wsi, x)
      <3>1. /\ DOMAIN Append(wsi, x) = DOMAIN wsi \cup {Len(wsi) + 1}
            /\ \A p \in DOMAIN wsi : Append(wsi, x)[p] = wsi[p]
            /\ Append(wsi, x)[Len(wsi) + 1] = x
        BY Appended DEF Rest
      <3> QED BY <2>1, <2>3, <3>1
    <2> QED BY <2>2, <2>3
  <1> SUFFICES ASSUME NEW j \in Images, NEW p \in DOMAIN wsi', Game(j) \in wsi'[p].waits
               PROVE
      /\ wsi'[p].image = j
      /\ \/ Game(j) \in signalled' /\ \A q \in DOMAIN wsi' : q < p => wsi'[q].image # j
         \/ \E g \in DOMAIN gpu' :
              /\ Game(j) \in gpu'[g].signals
              /\ \A q \in DOMAIN wsi' : gpu'[g].ahead < q /\ q < p => wsi'[q].image # j
    BY DEF GameOrder
  <1>2. CASE p \in DOMAIN wsi
    <2>1. \A q \in DOMAIN wsi' : q < p => q \in DOMAIN wsi /\ wsi'[q] = wsi[q]
      BY <1>1, <1>2
    <2>2. wsi'[p] = wsi[p] /\ wsi[p].image = j
      BY <1>1, <1>2 DEF GameOrder
    <2>3. Game(j) \in GameSemaphores \cap Used(wsi)
      BY <1>2, <2>2 DEF GameSemaphores, Used, Members
    <2>4. CASE Game(j) \in signalled /\ \A q \in DOMAIN wsi : q < p => wsi[q].image # j
      BY <2>1, <2>2, <2>3, <2>4
    <2>5. ASSUME NEW g \in DOMAIN gpu, Game(j) \in gpu[g].signals,
                 \A q \in DOMAIN wsi : gpu[g].ahead < q /\ q < p => wsi[q].image # j
          PROVE  /\ g \in DOMAIN gpu' /\ Game(j) \in gpu'[g].signals
                 /\ \A q \in DOMAIN wsi' : gpu'[g].ahead < q /\ q < p => wsi'[q].image # j
      BY <2>1, <2>5
    <2> QED BY <1>2, <2>2, <2>4, <2>5 DEF GameOrder
  <1>3. CASE p \notin DOMAIN wsi
    <2>1. p = Len(wsi) + 1 /\ wsi'[p] = x
      BY <1>1, <1>3
    <2>2. \A q \in DOMAIN wsi' : q < p => q \in DOMAIN wsi /\ wsi'[q] = wsi[q]
      BY <1>1, <2>1
    <2> QED BY <2>1, <2>2
  <1> QED BY <1>2, <1>3

\* A submission more, or none.
LEMMA Grows ==
    ASSUME GpuShape, NEW o, UNCHANGED gpu \/ gpu' = Append(gpu, o)
    PROVE  \A g \in DOMAIN gpu : g \in DOMAIN gpu' /\ gpu'[g] = gpu[g]
  BY Appended DEF GpuShape

\* What is new for a queue may be waited for; what is old for it stays old.
LEMMA WaitsMore ==
    ASSUME Inv, Rest, Waits,
           \A s : Fresh(s)' => Fresh(s),
           NEW o, UNCHANGED gpu \/ gpu' = Append(gpu, o),
           NEW x, UNCHANGED wsi \/ wsi' = Append(wsi, x),
           NEW b, UNCHANGED backend \/ backend' = Append(backend, b),
           \A s \in o.waits : s[1] \in OnGpu /\ Fresh(s) /\ ~Fresh(s)',
           \A s \in x.waits : \/ s \in GameSemaphores
                              \/ s[1] \in OnScreen /\ Fresh(s) /\ ~Fresh(s)',
           \A s \in b.waits : s[1] = "input" /\ Fresh(s) /\ ~Fresh(s)'
    PROVE  Waits'
  <1>1. /\ \A s \in Used(gpu') : s[1] \in OnGpu /\ ~Fresh(s)'
        /\ Apart(gpu')
    <2>1. CASE UNCHANGED gpu
      BY <2>1 DEF Waits
    <2>2. CASE gpu' = Append(gpu, o)
      <3>1. o.waits \cap Used(gpu) \subseteq GameSemaphores
        BY DEF Waits
      <3>2. Used(gpu') = Used(gpu) \cup o.waits /\ Apart(gpu')
        BY <2>2, <3>1, AppendUse DEF Waits, Inv, GpuShape
      <3> QED BY <3>2 DEF Waits
    <2> QED BY <2>1, <2>2
  <1>2. /\ \A s \in Used(wsi') : s \in GameSemaphores \/ (s[1] \in OnScreen /\ ~Fresh(s)')
        /\ Apart(wsi')
    <2>1. CASE UNCHANGED wsi
      BY <2>1 DEF Waits
    <2>2. CASE wsi' = Append(wsi, x)
      <3>1. x.waits \cap Used(wsi) \subseteq GameSemaphores
        BY DEF Waits
      <3>2. Used(wsi') = Used(wsi) \cup x.waits /\ Apart(wsi')
        BY <2>2, <3>1, AppendUse DEF Waits, Rest
      <3>3. ASSUME NEW s \in Used(wsi')
            PROVE  s \in GameSemaphores \/ (s[1] \in OnScreen /\ ~Fresh(s)')
        <4>1. CASE s \in Used(wsi)
          BY <4>1 DEF Waits
        <4>2. CASE s \in x.waits
          BY <4>2
        <4> QED BY <3>2, <4>1, <4>2
      <3> QED BY <3>2, <3>3
    <2> QED BY <2>1, <2>2
  <1>3. /\ \A s \in Used(backend') : s[1] = "input" /\ ~Fresh(s)'
        /\ Apart(backend')
    <2>1. CASE UNCHANGED backend
      BY <2>1 DEF Waits
    <2>2. CASE backend' = Append(backend, b)
      <3>1. b.waits \cap Used(backend) \subseteq GameSemaphores
        BY DEF Waits
      <3>2. Used(backend') = Used(backend) \cup b.waits /\ Apart(backend')
        BY <2>2, <3>1, AppendUse DEF Waits, Rest
      <3>3. \A s \in Used(backend) : s[1] = "input" /\ ~Fresh(s)
        BY DEF Waits
      <3>4. ASSUME NEW s \in Used(backend') PROVE s[1] = "input" /\ ~Fresh(s)'
        BY <3>2, <3>3
      <3> QED BY <3>2, <3>4
    <2> QED BY <2>1, <2>2
  <1> QED BY <1>1, <1>2, <1>3 DEF Waits

\* What a step adds to the queues.
LEMMA SupplyMore ==
    ASSUME Inv, Rest,
           NEW o, gpu' = Append(gpu, o) \/ (UNCHANGED gpu /\ o.waits = {} /\ o.signals = {}),
           NEW b, backend' = Append(backend, b)
                    \/ (UNCHANGED backend /\ b.waits = {} /\ b.signals = {})
    PROVE  /\ Used(gpu') = Used(gpu) \cup o.waits
           /\ Used(backend') = Used(backend) \cup b.waits
           /\ Given(gpu') = Given(gpu) \cup o.signals
           /\ Given(backend') = Given(backend) \cup b.signals
  <1>1. Used(gpu') = Used(gpu) \cup o.waits /\ Given(gpu') = Given(gpu) \cup o.signals
    BY AppendUse DEF Inv, GpuShape
  <1>2. Used(backend') = Used(backend) \cup b.waits
          /\ Given(backend') = Given(backend) \cup b.signals
    BY AppendUse DEF Rest
  <1> QED BY <1>1, <1>2

\* A present without a sample consumes only what it made itself.
LEMMA BusyConsumer ==
    ASSUME Inv, Rest, ConsumerInv, NEW j \in Images, BusyPassthrough(j)
    PROVE  ConsumerInv'
  <1> DEFINE o == Submission(None, {}, {Game(j)}, {}, Ahead(j))
             x == [image |-> j, waits |-> {Game(j)}]
             b == Submission(None, {}, {}, {}, 0)
  <1>1. /\ gpu' = Append(gpu, o) /\ wsi' = Append(wsi, x) /\ chained' = FALSE /\ pc = "idle"
        /\ UNCHANGED <<frame, pc, cycle, backend, signalled>> /\ Acquirable(j)
    BY DEF BusyPassthrough
  <1>2. /\ o.waits = {} /\ o.signals = {Game(j)} /\ o.ahead = Ahead(j)
        /\ x.image = j /\ x.waits = {Game(j)}
        /\ b.waits = {} /\ b.signals = {}
    BY DEF Submission
  <1>3. Game(j) \in GameSemaphores /\ \A h \in Images : Game(h) = Game(j) => h = j
    BY DEF GameSemaphores, Game
  <1> HIDE DEF o, x, b
  <1>4. \A s : Fresh(s)' <=> Fresh(s)
    BY <1>1, FreshSame
  <1>5. Waits'
    BY <1>1, <1>2, <1>3, <1>4, WaitsMore DEF ConsumerInv
  <1>6. /\ Used(gpu') = Used(gpu) /\ Used(wsi') = Used(wsi) \cup {Game(j)}
        /\ Used(backend') = Used(backend)
        /\ Given(gpu') = Given(gpu) \cup {Game(j)}
        /\ Given(backend') = Given(backend)
    <2>1. /\ Used(gpu') = Used(gpu)
          /\ Used(backend') = Used(backend)
          /\ Given(gpu') = Given(gpu) \cup {Game(j)}
          /\ Given(backend') = Given(backend)
      BY <1>1, <1>2, SupplyMore
    <2>2. Used(wsi') = Used(wsi) \cup {Game(j)}
      BY <1>1, <1>2, AppendUse DEF Rest
    <2> QED BY <2>1, <2>2
  <1>7. \A k \in Slots : pass'[k].own = pass[k].own /\ pass'[k].batch = pass[k].batch
    BY BusyEntries
  <1>8. Slot \in Slots /\ Before \in Slots /\ Slot' = Slot /\ Before' = Before /\ ~InUse /\ ~InUse'
    BY <1>1, SlotsInRange DEF Inv, Shape, Slot, Before, InUse
  <1>9. Due' \subseteq Due
    BY <1>1, <1>7, <1>8 DEF Due
  <1>10. Supply'
    BY <1>1, <1>3, <1>6, <1>9, SignalsAre DEF ConsumerInv, Supply
  <1>11. OwnBatch'
    BY <1>1, <1>7, <1>8 DEF ConsumerInv, OwnBatch
  <1>12. GameOrder'
    <2>1. \A g \in DOMAIN gpu : g \in DOMAIN gpu' /\ gpu'[g] = gpu[g]
      BY <1>1, Grows DEF Inv
    <2>2. \E g \in DOMAIN gpu' :
                  /\ Game(j) \in gpu'[g].signals
                  /\ \A q \in DOMAIN wsi : gpu'[g].ahead < q => wsi[q].image # j
      <3>1. Len(gpu) + 1 \in DOMAIN gpu' /\ gpu'[Len(gpu) + 1] = o
        BY <1>1, Appended DEF Inv, GpuShape
      <3>2. ASSUME NEW q \in DOMAIN wsi, Ahead(j) < q PROVE wsi[q].image # j
        <4>1. Ahead(j) \in Nat /\ \A h \in PresentsOf(j) : h <= Ahead(j)
          BY <1>1, AheadIs DEF Rest
        <4>2. q \in Nat
          BY LenProperties DEF Rest
        <4> QED BY <3>2, <4>1, <4>2 DEF PresentsOf
      <3> QED BY <1>2, <3>1, <3>2
    <2>3. \A h \in Images : Game(h) \in x.waits => h = j
      BY <1>2, <1>3
    <2>4. /\ GameOrder /\ (UNCHANGED wsi \/ wsi' = Append(wsi, x))
          /\ \A s \in GameSemaphores \cap Used(wsi) : s \in signalled => s \in signalled'
      BY <1>1 DEF ConsumerInv
    <2>5. \A h \in Images : Game(h) \in x.waits =>
            /\ x.image = h
            /\ \E g \in DOMAIN gpu' :
                 /\ Game(h) \in gpu'[g].signals
                 /\ \A q \in DOMAIN wsi : gpu'[g].ahead < q => wsi[q].image # h
      BY <1>2, <2>2, <2>3
    <2> QED BY <2>1, <2>4, <2>5, GameKept
  <1> QED BY <1>5, <1>10, <1>11, <1>12 DEF ConsumerInv

\* The copy of a source consumes the last present's next and batch.
LEMMA CopyConsumer ==
    ASSUME Inv, Rest, ConsumerInv, NEW j \in Images, NEW n \in Batches, NEW refused \in BOOLEAN,
           Copy(j, n, refused)
    PROVE  ConsumerInv'
  <1> DEFINE new == New(handoff')
             o == Submission(Slot, CopyWaits, new, {}, Ahead(j))
             b == Submission(None, {}, {}, {}, 0)
  <1>1. /\ pc = "idle" /\ pc' = "copied" /\ gpu' = Append(gpu, o)
        /\ chained' = TRUE /\ UNCHANGED <<frame, wsi, backend>>
        /\ signalled' = signalled \cap (Owned' \cup InSubmissions \cup InPresents \cup InBatches)
        /\ cycle'.queued = 0 /\ cycle'.async = handoff'
    BY DEF Copy, New, NoCycle
  <1>2. /\ o.waits = CopyWaits /\ o.signals = new /\ b.waits = {} /\ b.signals = {}
    BY DEF Submission
  <1> HIDE DEF o, b
  <1>3. /\ Slot \in Slots /\ Before \in Slots /\ Slot' = Slot /\ Before' = Before
        /\ ~InUse /\ InUse' /\ frame \in Nat
    BY <1>1, SlotsInRange DEF Inv, Shape, Slot, Before, InUse
  <1>4. \A k \in Slots :
             /\ pass'[k].own = IF k = Slot THEN Assigned(pass[k].own, new)
                               ELSE pass[k].own
             /\ pass'[k].batch = IF k \in {Slot, Before} THEN FALSE ELSE pass[k].batch
             /\ pass'[k].crossFrame = IF k = Slot THEN CopyWaits ELSE pass[k].crossFrame
    BY CopyEntries
  <1>5. CopyWaits \subseteq Due
    <2> SUFFICES ASSUME NEW s \in CopyWaits PROVE s \in Due
      OBVIOUS
    <2>1. CASE s \in {<<"next", frame - 1, 0>>} /\ chained /\ frame > 0
      BY <1>3, <2>1 DEF Due
    <2>2. CASE s \in pass[Before].own /\ s[1] = "batch" /\ frame > 0 /\ pass[Before].batch
      <3>1. s = <<"batch", frame - 1, 0>>
        BY <1>3, <2>2 DEF ConsumerInv, OwnBatch
      <3> QED BY <1>3, <2>2, <3>1 DEF Due
    <2> QED BY <2>1, <2>2 DEF CopyWaits
  <1>6. \A s : Fresh(s)' => Fresh(s)
    BY <1>1, <1>3 DEF Fresh
  <1>7. ASSUME NEW s \in CopyWaits
        PROVE  s[1] \in OnGpu /\ Fresh(s) /\ ~Fresh(s)'
    <2>1. \/ s = <<"next", frame - 1, 0>> /\ frame > 0
          \/ s = <<"batch", frame - 1, 0>> /\ frame > 0
      BY <1>3, <1>5 DEF Due
    <2>2. Fresh(s)
      BY <1>5, DueIsFresh
    <2> QED BY <1>1, <1>3, <2>1, <2>2 DEF Fresh, OnGpu
  <1>8. Waits'
    BY <1>1, <1>2, <1>6, <1>7, WaitsMore DEF ConsumerInv
  <1>9. /\ Used(gpu') = Used(gpu) \cup CopyWaits /\ Used(wsi') = Used(wsi)
        /\ Used(backend') = Used(backend)
        /\ Given(gpu') = Given(gpu) \cup new
        /\ Given(backend') = Given(backend)
    <2>1. /\ Used(gpu') = Used(gpu) \cup CopyWaits
          /\ Used(backend') = Used(backend)
          /\ Given(gpu') = Given(gpu) \cup new
          /\ Given(backend') = Given(backend)
      BY <1>1, <1>2, SupplyMore
    <2>2. Used(wsi') = Used(wsi)
      BY <1>1
    <2> QED BY <2>1, <2>2
  <1>10. Due' \subseteq new
    <2> SUFFICES ASSUME NEW s \in Due' PROVE s \in new
      OBVIOUS
    <2>1. \/ s = <<"ready", frame, 0>> \/ s = <<"next", frame, 0>>
          \/ s = <<"input", frame, 0>> /\ handoff'
      BY <1>1, <1>3 DEF Due
    <2> QED BY <2>1 DEF New, Sem
  <1>11. CopyWaits \subseteq Owned'
    <2> SUFFICES ASSUME NEW s \in CopyWaits PROVE s \in Owned'
      OBVIOUS
    <2>1. s \in pass'[Slot].own \cup pass'[Slot].crossFrame \cup pass'[Slot].acquired
      BY <1>3, <1>4
    <2> QED BY <1>3, <2>1 DEF Owned
  <1>12. Supply'
    <2>1. Signals' = signalled' \cup Given(gpu) \cup new \cup Given(backend)
      BY <1>1, <1>9, SignalsAre
    <2>2. \A s \in Used(gpu) \cup (Used(wsi) \ GameSemaphores) \cup Used(backend) \cup CopyWaits :
             s \in Signals'
      <3>1. \A s \in Used(gpu) \cup Used(wsi) \cup Used(backend) \cup CopyWaits :
                s \in signalled => s \in signalled'
        BY <1>1, <1>11, InPresentsAre
      <3>2. \A s \in Used(gpu) \cup (Used(wsi) \ GameSemaphores) \cup Used(backend) \cup CopyWaits :
                s \in Signals
        BY <1>5 DEF ConsumerInv, Supply
      <3> QED BY <2>1, <3>1, <3>2, SignalsAre
    <2> QED BY <1>9, <1>10, <2>1, <2>2 DEF Supply
  <1>13. OwnBatch'
    <2>1. \A s \in new : s[1] # "batch"
      BY DEF New, Sem
    <2>2. \A k \in Slots : \A s \in pass'[k].own : s[1] = "batch" => s \in pass[k].own
      BY <1>4, <2>1 DEF Assigned
    <2> QED BY <1>1, <1>3, <1>4, <2>2 DEF ConsumerInv, OwnBatch
  <1>14. GameOrder'
    <2>1. \A g \in DOMAIN gpu : g \in DOMAIN gpu' /\ gpu'[g] = gpu[g]
      BY <1>1, Grows DEF Inv
    <2>2. \A s \in GameSemaphores \cap Used(wsi) : s \in signalled => s \in signalled'
      BY <1>1, InPresentsAre
    <2> QED BY <1>1, <1>2, <2>1, <2>2, GameKept DEF ConsumerInv
  <1> QED BY <1>8, <1>12, <1>13, <1>14 DEF ConsumerInv

\* The end of a present consumes ready, or the last prev.
LEMMA ConcludeConsumer ==
    ASSUME Inv, Rest, ConsumerInv, InUse, NEW then \in {"idle", "stale"}, NEW failed,
           Conclude(then, failed), UNCHANGED <<backend, signalled, chained>>
    PROVE  ConsumerInv'
  <1> DEFINE o == Submission(Slot, {}, {}, {PassFence(Slot)}, 0)
             x == [image |-> cycle.image, waits |-> SourceWaits]
             b == Submission(None, {}, {}, {}, 0)
  <1>1. /\ UNCHANGED gpu \/ gpu' = Append(gpu, o)
        /\ wsi' = Append(wsi, x)
        /\ frame' = frame + 1 /\ pc' = then
    BY DEF Conclude, Fenced, Drained, Unfenced
  <1>2. /\ o.waits = {} /\ o.signals = {} /\ b.waits = {} /\ b.signals = {}
        /\ x.waits = SourceWaits
    BY DEF Submission
  <1> HIDE DEF o, x, b
  <1>3. /\ Slot \in Slots /\ Before' = Slot /\ ~InUse' /\ frame \in Nat /\ frame' = frame + 1
        /\ frame + 1 > 0 /\ pc' # "sent" /\ pc' # "copied"
    BY <1>1, SlotsInRange DEF Inv, Shape, Slot, Before, InUse
  <1>4. \A k \in Slots : pass'[k].own = pass[k].own /\ pass'[k].batch = pass[k].batch
    BY ConcludeEntries
  <1>5. SourceWaits \subseteq Due
    BY DEF SourceWaits, Due, Sem, Out
  <1>6. ASSUME NEW s, Fresh(s)' PROVE Fresh(s)
    BY <1>3, <1>6 DEF Fresh
  <1>7. ASSUME NEW s \in SourceWaits
        PROVE  s[1] \in OnScreen /\ Fresh(s) /\ ~Fresh(s)'
    <2>1. s = <<"ready", frame, 0>> \/ s = <<"prev", frame, cycle.queued>>
      BY DEF SourceWaits, Sem, Out
    <2>2. Fresh(s)
      BY <1>5, DueIsFresh
    <2> QED BY <1>3, <2>1, <2>2 DEF Fresh, OnScreen
  <1>8. Waits'
    BY <1>1, <1>2, <1>6, <1>7, WaitsMore DEF ConsumerInv
  <1>9. /\ Used(gpu') = Used(gpu) /\ Used(wsi') = Used(wsi) \cup SourceWaits
        /\ Used(backend') = Used(backend)
        /\ Given(gpu') = Given(gpu)
        /\ Given(backend') = Given(backend)
    <2>1. /\ Used(gpu') = Used(gpu)
          /\ Used(backend') = Used(backend)
          /\ Given(gpu') = Given(gpu)
          /\ Given(backend') = Given(backend)
      BY <1>1, <1>2, SupplyMore
    <2>2. Used(wsi') = Used(wsi) \cup SourceWaits
      BY <1>1, <1>2, AppendUse DEF Rest
    <2> QED BY <2>1, <2>2
  <1>10. Due' \subseteq Due
    <2> SUFFICES ASSUME NEW s \in Due' PROVE s \in Due
      OBVIOUS
    <2>1. \/ s = <<"next", frame, 0>> /\ chained
          \/ s = <<"batch", frame, 0>> /\ pass[Slot].batch
      BY <1>3, <1>4 DEF Due
    <2>2. pass[Slot].batch => pc = "sent"
      BY DEF ConsumerInv, OwnBatch, InUse
    <2> QED BY <2>1, <2>2 DEF Due
  <1>11. Supply'
    <2>1. Signals' = Signals
      BY <1>9, SignalsAre
    <2> QED BY <1>5, <1>9, <1>10, <2>1 DEF ConsumerInv, Supply
  <1>12. OwnBatch'
    <2>1. pass[Slot].batch => pc = "sent"
      BY DEF ConsumerInv, OwnBatch, InUse
    <2>2. frame' - 1 = frame
      BY <1>3
    <2>3. \A k \in Slots : \A s \in pass'[k].own : s[1] = "batch" => s[3] = 0
      BY <1>4 DEF ConsumerInv, OwnBatch
    <2>4. pass'[Slot].batch => \A s \in pass'[Slot].own : s[1] = "batch" => s = <<"batch", frame, 0>>
      BY <1>3, <1>4, <2>1 DEF ConsumerInv, OwnBatch
    <2> QED BY <1>3, <2>2, <2>3, <2>4 DEF OwnBatch
  <1>13. GameOrder'
    <2>1. \A g \in DOMAIN gpu : g \in DOMAIN gpu' /\ gpu'[g] = gpu[g]
      BY <1>1, Grows DEF Inv
    <2>2. \A h \in Images : Game(h) \notin x.waits
      BY <1>2, <1>5, DueIsFresh DEF GameSemaphores
    <2> QED BY <1>1, <2>1, <2>2, GameKept DEF ConsumerInv
  <1> QED BY <1>8, <1>11, <1>12, <1>13 DEF ConsumerInv

\* A dispatch consumes the input of its copy.
LEMMA DispatchConsumer ==
    ASSUME Inv, FenceInv, ConsumerInv, NEW outcome, Dispatch(outcome)
    PROVE  ConsumerInv'
  <1> DEFINE gives == Gives(outcome)
             b == [waits |-> IF cycle.async THEN {Sem("input")} ELSE {}, signals |-> gives]
             o == Submission(None, {}, {}, {}, 0)
  <1>1. /\ pc = "copied" /\ pc' = "sent" /\ backend' = Append(backend, b)
        /\ cycle' = [cycle EXCEPT !.wait = outcome]
        /\ UNCHANGED <<frame, chained, gpu, wsi, signalled>>
    BY DEF Dispatch, Gives
  <1>2. /\ o.waits = {} /\ o.signals = {} /\ b.signals = gives
        /\ b.waits = IF cycle.async THEN {Sem("input")} ELSE {}
    BY DEF Submission
  <1> HIDE DEF o, b, gives
  <1>3. /\ Slot \in Slots /\ Slot' = Slot /\ InUse /\ InUse' /\ frame \in Nat
    BY <1>1, SlotsInRange DEF Inv, Shape, Slot, InUse
  <1>4. /\ cycle'.n = cycle.n /\ cycle'.queued = cycle.queued /\ cycle'.wait = outcome
        /\ cycle'.async = cycle.async
        /\ cycle.queued \in Nat /\ cycle.n \in Nat
    BY <1>1 DEF FenceInv, Rest, IsCycle
  <1>5. \A k \in Slots :
             /\ pass'[k].own = IF k = Slot THEN Assigned(pass[k].own, gives)
                               ELSE pass[k].own
             /\ pass'[k].batch = IF k = Slot THEN outcome = "imported" ELSE pass[k].batch
    BY DispatchEntries DEF gives
  <1>6. \A s : Fresh(s)' => Fresh(s)
    BY <1>1, <1>3, <1>4 DEF Fresh
  <1>7. \A s \in b.waits : s[1] = "input" /\ Fresh(s) /\ ~Fresh(s)' /\ s \in Due
    BY <1>1, <1>2, <1>3 DEF Fresh, Due, Sem
  <1>8. Waits'
    BY <1>1, <1>2, <1>6, <1>7, WaitsMore DEF ConsumerInv, FenceInv
  <1>9. /\ Used(gpu') = Used(gpu) /\ Used(wsi') = Used(wsi)
        /\ Used(backend') = Used(backend) \cup b.waits
        /\ Given(gpu') = Given(gpu)
        /\ Given(backend') = Given(backend) \cup gives
    <2>1. /\ Used(gpu') = Used(gpu)
          /\ Used(backend') = Used(backend) \cup b.waits
          /\ Given(gpu') = Given(gpu)
          /\ Given(backend') = Given(backend) \cup gives
      BY <1>1, <1>2, SupplyMore DEF FenceInv
    <2>2. Used(wsi') = Used(wsi)
      BY <1>1
    <2> QED BY <2>1, <2>2
  <1>10. Due' \subseteq Due \cup gives
    <2> DEFINE renders == {<<"render", frame, i>> : i \in cycle.queued + 1 .. cycle.n}
    <2> SUFFICES ASSUME NEW s \in Due', s \notin Due PROVE s \in gives
      OBVIOUS
    <2>1. \/ s \in {<<"batch", frame, 0>>} /\ pass'[Slot].batch
          \/ s \in renders /\ outcome = "imported"
      <3> HIDE DEF renders
      <3> QED BY <1>1, <1>3, <1>4 DEF Due, renders
    <2>2. pass'[Slot].batch => outcome = "imported"
      BY <1>3, <1>5
    <2>3. CASE s \in {<<"batch", frame, 0>>} /\ outcome = "imported"
      BY <2>3 DEF gives, Gives, Sem
    <2>4. CASE s \in renders /\ outcome = "imported"
      <3>1. PICK i \in cycle.queued + 1 .. cycle.n : s = <<"render", frame, i>>
        BY <2>4
      <3>2. i \in 1 .. cycle.n
        BY <1>4
      <3> QED BY <2>4, <3>1, <3>2 DEF gives, Gives, Out
    <2> HIDE DEF renders
    <2> QED BY <2>1, <2>2, <2>3, <2>4
  <1>11. Supply'
    <2>1. Signals' = Signals \cup gives
      BY <1>1, <1>9, SignalsAre
    <2> QED BY <1>7, <1>9, <1>10, <2>1 DEF ConsumerInv, Supply
  <1>12. OwnBatch'
    <2>1. \A s \in gives : s[1] = "batch" => s = <<"batch", frame, 0>>
      BY DEF gives, Gives, Out, Sem
    <2>2. outcome = "imported" => <<"batch", frame, 0>> \in gives
      BY DEF gives, Gives, Sem
    <2>3. ASSUME outcome = "imported", NEW s \in pass'[Slot].own, s[1] = "batch"
          PROVE  s = <<"batch", frame, 0>>
      <3>1. s \in gives \/ (s \in pass[Slot].own /\ <<s[1], s[3]>> # <<"batch", 0>>)
        <4>1. s \in Assigned(pass[Slot].own, gives)
          BY <1>3, <1>5, <2>3
        <4>2. CASE s \notin gives
          <5>1. s \in pass[Slot].own /\ \A t \in gives : <<s[1], s[3]>> # <<t[1], t[3]>>
            BY <4>1, <4>2 DEF Assigned
          <5>2. <<s[1], s[3]>> # <<<<"batch", frame, 0>>[1], <<"batch", frame, 0>>[3]>>
            BY <2>2, <2>3, <5>1
          <5> QED BY <5>1, <5>2
        <4> QED BY <4>2
      <3>2. s \in pass[Slot].own => s[3] = 0
        BY <1>3, <2>3 DEF ConsumerInv, OwnBatch
      <3> QED BY <2>1, <2>3, <3>1, <3>2
    <2>4. \A k \in Slots : \A s \in pass'[k].own : s[1] = "batch" => s[3] = 0
      <3> SUFFICES ASSUME NEW k \in Slots, NEW s \in pass'[k].own, s[1] = "batch"
                   PROVE  s[3] = 0
        OBVIOUS
      <3>1. s \in pass[k].own \/ s \in gives
        BY <1>5 DEF Assigned
      <3>2. s \in gives => s[3] = 0
        BY <2>1
      <3> QED BY <3>1, <3>2 DEF ConsumerInv, OwnBatch
    <2> QED BY <1>1, <1>3, <1>5, <2>3, <2>4 DEF OwnBatch
  <1>13. GameOrder'
    BY <1>1 DEF ConsumerInv, GameOrder
  <1> QED BY <1>8, <1>11, <1>12, <1>13 DEF ConsumerInv

\* Presenting an output consumes its render and prev.
LEMMA GeneratedConsumer ==
    ASSUME Inv, FenceInv, ConsumerInv, NEW j \in Images, PresentGenerated(j)
    PROVE  ConsumerInv'
  <1> DEFINE i == cycle.queued + 1
             new == {Out("post", i), Out("prev", i)}
             rendered == IF cycle.wait = "imported" THEN {Out("render", i)} ELSE {}
             waits == {Out("post", i)} \cup (IF i > 1 THEN {Out("prev", i - 1)} ELSE {})
             o == Submission(Slot, rendered, new, IF fifo THEN {OutputFence(i)} ELSE {}, Ahead(j))
             x == [image |-> j, waits |-> waits]
             b == Submission(None, {}, {}, {}, 0)
  <1>1. /\ pc = "sent" /\ gpu' = Append(gpu, o) /\ wsi' = Append(wsi, x)
        /\ cycle.queued < cycle.n
        /\ cycle' = [cycle EXCEPT !.queued = i]
        /\ UNCHANGED <<frame, pc, chained, backend, signalled>>
    BY DEF PresentGenerated, flags
  <1>2. /\ o.waits = rendered /\ o.signals = new /\ x.waits = waits
        /\ b.waits = {} /\ b.signals = {}
    BY DEF Submission
  <1> HIDE DEF o, x, b
  <1>3. /\ Slot \in Slots /\ Slot' = Slot /\ InUse /\ InUse' /\ frame \in Nat
    BY <1>1, SlotsInRange DEF Inv, Shape, Slot, InUse
  <1>4. /\ cycle'.n = cycle.n /\ cycle'.queued = i /\ cycle'.wait = cycle.wait
        /\ cycle.queued \in Nat /\ cycle.n \in Nat
    BY <1>1 DEF FenceInv, Rest, IsCycle
  <1>5. \A k \in Slots :
             /\ pass'[k].own = IF k = Slot THEN Assigned(pass[k].own, new)
                               ELSE pass[k].own
             /\ pass'[k].batch = pass[k].batch
    BY GeneratedEntries
  <1>6. \A s : Fresh(s)' => Fresh(s)
    BY <1>1, <1>3, <1>4 DEF Fresh
  <1>7. \A s \in rendered : s[1] \in OnGpu /\ Fresh(s) /\ ~Fresh(s)' /\ s \in Due
    <2> SUFFICES ASSUME NEW s \in rendered
                 PROVE  s[1] \in OnGpu /\ Fresh(s) /\ ~Fresh(s)' /\ s \in Due
      OBVIOUS
    <2>1. s = <<"render", frame, i>> /\ cycle.wait = "imported"
      BY DEF Out
    <2>2. s \in Due
      <3>1. i \in cycle.queued + 1 .. cycle.n
        BY <1>1, <1>4
      <3> QED BY <1>1, <1>3, <2>1, <3>1 DEF Due
    <2>3. Fresh(s)
      BY <2>2, DueIsFresh DEF FenceInv
    <2> QED BY <1>1, <1>3, <1>4, <2>1, <2>2, <2>3 DEF Fresh, OnGpu
  <1>8. \A s \in waits : /\ s[1] \in OnScreen /\ Fresh(s) /\ ~Fresh(s)'
                         /\ s \in Due \cup new
    <2> SUFFICES ASSUME NEW s \in waits
                 PROVE  s[1] \in OnScreen /\ Fresh(s) /\ ~Fresh(s)' /\ s \in Due \cup new
      OBVIOUS
    <2>1. CASE s = Out("post", i)
      BY <1>1, <1>3, <1>4, <2>1 DEF Fresh, OnScreen, Out
    <2>2. CASE s = <<"prev", frame, cycle.queued>> /\ cycle.queued # 0
      <3>1. s \in Due
        BY <1>3, <2>2 DEF Due
      <3> QED BY <1>1, <1>3, <1>4, <2>2, <3>1 DEF Fresh, OnScreen
    <2>3. i - 1 = cycle.queued /\ (i > 1 => cycle.queued # 0)
      BY <1>4
    <2> QED BY <2>1, <2>2, <2>3 DEF Out
  <1>9. Waits'
    BY <1>1, <1>2, <1>6, <1>7, <1>8, WaitsMore DEF ConsumerInv, FenceInv
  <1>10. /\ Used(gpu') = Used(gpu) \cup rendered /\ Used(wsi') = Used(wsi) \cup waits
         /\ Used(backend') = Used(backend)
         /\ Given(gpu') = Given(gpu) \cup new
         /\ Given(backend') = Given(backend)
    <2>1. /\ Used(gpu') = Used(gpu) \cup rendered
           /\ Used(backend') = Used(backend)
           /\ Given(gpu') = Given(gpu) \cup new
           /\ Given(backend') = Given(backend)
      BY <1>1, <1>2, SupplyMore DEF FenceInv
    <2>2. Used(wsi') = Used(wsi) \cup waits
      BY <1>1, <1>2, AppendUse DEF Rest, FenceInv
    <2> QED BY <2>1, <2>2
  <1>11. Due' \subseteq Due \cup new
    <2> DEFINE renders == {<<"render", frame, h>> : h \in cycle.queued + 1 .. cycle.n}
               later   == {<<"render", frame, h>> : h \in i + 1 .. cycle.n}
    <2>1. later \subseteq renders
      <3>1. i + 1 .. cycle.n \subseteq cycle.queued + 1 .. cycle.n
        BY <1>4
      <3> QED BY <3>1
    <2> SUFFICES ASSUME NEW s \in Due', s \notin Due PROVE s \in new
      OBVIOUS
    <2>2. i # 0 /\ pass'[Slot].batch = pass[Slot].batch
      BY <1>3, <1>4, <1>5
    <2>3. s \in {<<"prev", frame, i>>}
      <3> HIDE DEF renders, later
      <3> QED BY <1>1, <1>3, <1>4, <2>1, <2>2 DEF Due, renders, later
    <2> QED BY <2>3 DEF Out
  <1>12. Supply'
    <2>1. Signals' = Signals \cup new
      BY <1>1, <1>10, SignalsAre
    <2> QED BY <1>7, <1>8, <1>10, <1>11, <2>1 DEF ConsumerInv, Supply
  <1>13. OwnBatch'
    <2>1. \A s \in new : s[1] # "batch"
      BY DEF Out
    <2>2. \A k \in Slots : \A s \in pass'[k].own : s[1] = "batch" => s \in pass[k].own
      BY <1>5, <2>1 DEF Assigned
    <2> QED BY <1>1, <1>3, <1>5, <2>2 DEF ConsumerInv, OwnBatch
  <1>14. GameOrder'
    <2>1. \A g \in DOMAIN gpu : g \in DOMAIN gpu' /\ gpu'[g] = gpu[g]
      BY <1>1, Grows DEF Inv
    <2>2. \A h \in Images : Game(h) \notin x.waits
      BY <1>2 DEF Game, Out
    <2> QED BY <1>1, <2>1, <2>2, GameKept DEF ConsumerInv, FenceInv
  <1> QED BY <1>9, <1>12, <1>13, <1>14 DEF ConsumerInv

\* The consumers, over every step.
LEMMA ConsumerStep ==
    ASSUME Inv, FenceInv, ConsumerInv, [Next]_vars
    PROVE  ConsumerInv'
  <1>0. Rest
    BY DEF FenceInv
  <1>1. ASSUME UNCHANGED <<frame, pc, cycle, pass, gpu, wsi, backend, signalled>>,
               chained' => chained
        PROVE  ConsumerInv'
    <2>1. \A s : Fresh(s)' <=> Fresh(s)
      BY <1>1, FreshSame
    <2>2. Waits' /\ OwnBatch' /\ GameOrder'
      BY <1>1, <2>1 DEF ConsumerInv, Waits, OwnBatch, GameOrder, InUse, Slot, Before
    <2>3. Due' \subseteq Due
      BY <1>1 DEF Due, InUse, Slot, Before
    <2>4. Supply'
      BY <1>1, <2>3, SignalsAre DEF ConsumerInv, Supply
    <2> QED BY <2>2, <2>4 DEF ConsumerInv
  <1>2. CASE \E j \in Images : BusyPassthrough(j)
    BY <1>0, <1>2, BusyConsumer
  <1>3. CASE \E j \in Images, n \in Batches, refused \in BOOLEAN :
               Copy(j, n, refused)
    BY <1>0, <1>3, CopyConsumer
  <1>4. CASE \E outcome \in Outcomes : Dispatch(outcome)
    BY <1>4, DispatchConsumer
  <1>5. CASE ExportFailed
    BY <1>0, <1>5, ConcludeConsumer DEF ExportFailed, InUse
  <1>6. CASE CompletionTimeout
    BY <1>0, <1>6, ConcludeConsumer DEF CompletionTimeout, InUse, flags
  <1>7. CASE PresentSource
    BY <1>0, <1>7, ConcludeConsumer DEF PresentSource, InUse, flags
  <1>8. CASE \E j \in Images : PresentGenerated(j)
    BY <1>8, GeneratedConsumer
  <1>9. CASE GpuStep
    BY <1>0, <1>9, GpuStepConsumer
  <1>10. CASE WsiStep
    BY <1>0, <1>10, WsiStepConsumer
  <1>11. CASE BackendStep
    BY <1>0, <1>11, BackendStepConsumer
  <1>12. CASE EnterSourceOnlyBypass
    BY <1>1, <1>12 DEF EnterSourceOnlyBypass, owners, queues
  <1>13. CASE Recreate
    <2>1. /\ gpu' = <<>> /\ wsi' = <<>> /\ backend' = <<>> /\ pc' = "idle" /\ frame' = 0
          /\ pass' = [k \in Slots |-> Unused]
      BY <1>13 DEF Recreate
    <2>2. /\ Members(gpu') = {} /\ Members(wsi') = {} /\ Members(backend') = {}
          /\ DOMAIN gpu' = {} /\ DOMAIN wsi' = {} /\ DOMAIN backend' = {}
      BY <2>1 DEF Members
    <2>3. Used(gpu') = {} /\ Used(wsi') = {} /\ Used(backend') = {}
      BY <2>2 DEF Used
    <2>4. ~InUse' /\ \A k \in Slots : pass'[k] = Unused
      BY <2>1 DEF InUse
    <2>5. Due' = {}
      BY <2>1, <2>4 DEF Due
    <2>6. Waits' /\ GameOrder'
      BY <2>2, <2>3 DEF Waits, Apart, GameOrder
    <2>7. OwnBatch'
      BY <2>1, <2>4 DEF OwnBatch, Unused
    <2> QED BY <2>3, <2>5, <2>6, <2>7 DEF ConsumerInv, Supply
  <1>14. CASE UNCHANGED vars
    BY <1>1, <1>14 DEF vars, owners, queues, flags
  <1> QED BY <1>2, <1>3, <1>4, <1>5, <1>6, <1>7, <1>8, <1>9, <1>10, <1>11,
             <1>12, <1>13, <1>14 DEF Next, Present, Devices

\* The invariant says that every semaphore has one consumer.
LEMMA InvGivesConsumer == Inv /\ ConsumerInv => OneConsumer
  <1> SUFFICES ASSUME Inv, ConsumerInv PROVE OneConsumer
    OBVIOUS
  <1>1. InPresents = Used(wsi) /\ InBatches = Used(backend)
    BY InPresentsAre
  <1>2. ASSUME NEW s \in Used(wsi), s \in GameSemaphores PROVE s \in Signals
    <2>1. PICK j \in Images : s = Game(j)
      BY <1>2 DEF GameSemaphores
    <2>2. PICK p \in DOMAIN wsi : s \in wsi[p].waits
      BY <1>2 DEF Used, Members
    <2>3. Game(j) \in signalled \/ \E g \in DOMAIN gpu : Game(j) \in gpu[g].signals
      BY <2>1, <2>2 DEF ConsumerInv, GameOrder
    <2> QED BY <2>1, <2>3, SignalsAre DEF Given, Members
  <1>3. Used(gpu) \cup Used(wsi) \cup Used(backend) \subseteq Signals
    BY <1>2 DEF ConsumerInv, Supply
  <1>4. Used(gpu) \cap Used(wsi) = {}
    BY Disjoint DEF ConsumerInv
  <1> QED BY <1>1, <1>3, <1>4 DEF OneConsumer, ConsumerInv, Waits, Used

\* Whatever a submission, a batch or a present waits for is waited for by it alone,
\* and has been signalled or is going to be, after any sequence of drops in a
\* batch, of bypasses and of failing calls (context.cpp:6080-6260).
THEOREM SemaphoresHaveOneConsumer == Spec => []OneConsumer
  <1>1. Init => Inv /\ FenceInv /\ ConsumerInv
    BY InitInv, InitRest, InitFence, InitConsumer DEF FenceInv
  <1>2. Inv /\ FenceInv /\ ConsumerInv /\ [Next]_vars => Inv' /\ FenceInv' /\ ConsumerInv'
    BY Step, FenceStep, ConsumerStep
  <1>3. Inv /\ ConsumerInv => OneConsumer
    BY InvGivesConsumer
  <1> QED BY <1>1, <1>2, <1>3, PTL DEF Spec

-----------------------------------------------------------------------------
(* The owners of the semaphores *)

\* A semaphore of an entry.
IsSem(s) == s = <<s[1], s[2], s[3]>>

\* What entries and images keep: nothing of the application's; what a present
\* waits for has been waited for.
Kept ==
    /\ \A k \in Slots :
         /\ \A s \in pass[k].own : IsSem(s) /\ s[1] # "game"
         /\ \A s \in pass[k].crossFrame : s[1] # "game"
         /\ \A s \in pass[k].acquired : s[1] \in OnScreen /\ ~Fresh(s)
    /\ \A j \in Images : \A s \in retirements[j] : s[1] \in OnScreen /\ ~Fresh(s)

\* What a submission uses belongs to its entry.
InSub ==
    \A i \in DOMAIN gpu : \A s \in gpu[i].waits \cup gpu[i].signals :
        /\ gpu[i].slot = None => s \in GameSemaphores
        /\ \A k \in Slots : gpu[i].slot = k =>
             \/ s \in pass[k].crossFrame
             \/ s \in pass[k].own /\ (Active(k) => s[2] = frame)

\* An entry owns the semaphores of the outputs that its batch imports.
OwnRender ==
    pc = "sent" /\ cycle.wait = "imported" =>
        \A i \in 1 .. cycle.n : <<"render", frame, i>> \in pass[Slot].own

\* An image keeps what its own presents wait for.
ImageOf ==
    \A j \in Images, p \in DOMAIN wsi :
        retirements[j] \cap wsi[p].waits # {} => wsi[p].image = j

\* A present waits for what an entry took over from an image: the copy into that
\* image has not started.
Acq ==
    \A k \in Slots, p \in DOMAIN wsi :
        pass[k].acquired \cap wsi[p].waits # {} =>
            \E g \in DOMAIN gpu : gpu[g].slot = k /\ gpu[g].ahead >= p

\* The invariant about the owners.
OwnerInv == Kept /\ InSub /\ OwnRender /\ ImageOf /\ Acq

-----------------------------------------------------------------------------
\* A member keeps a semaphore of this present.
LEMMA AssignedKeeps ==
    ASSUME NEW own, NEW new, NEW s \in own, IsSem(s), s[2] = frame,
           \A t \in new : IsSem(t) /\ t[2] = frame
    PROVE  s \in Assigned(own, new)
  <1>1. CASE \A t \in new : <<s[1], s[3]>> # <<t[1], t[3]>>
    BY <1>1 DEF Assigned
  <1>2. ASSUME NEW t \in new, <<s[1], s[3]>> = <<t[1], t[3]>>
        PROVE  s \in new
    <2>1. s[1] = t[1] /\ s[3] = t[3] /\ s[2] = t[2]
      BY <1>2
    <2>2. s = <<s[1], s[2], s[3]>> /\ t = <<t[1], t[2], t[3]>>
      BY DEF IsSem
    <2>3. s = t
      BY <2>1, <2>2
    <2> QED BY <2>3
  <1> QED BY <1>1, <1>2 DEF Assigned

\* Where what a member keeps comes from.
LEMMA AssignedIs ==
    ASSUME NEW own, NEW new
    PROVE  /\ new \subseteq Assigned(own, new)
           /\ Assigned(own, new) \subseteq own \cup new
  BY DEF Assigned

\* At first nothing is kept.
LEMMA InitOwner == Init => OwnerInv
  <1> SUFFICES ASSUME Init PROVE OwnerInv
    OBVIOUS
  <1>1. DOMAIN gpu = {} /\ DOMAIN wsi = {} /\ pc = "idle"
        /\ (\A k \in Slots : pass[k] = Unused) /\ \A j \in Images : retirements[j] = {}
    BY DEF Init
  <1>2. Kept
    BY <1>1 DEF Kept, Unused
  <1> QED BY <1>1, <1>2 DEF OwnerInv, InSub, OwnRender, ImageOf, Acq

\* A finished submission uses nothing any more.
LEMMA GpuStepOwner ==
    ASSUME Inv, Rest, OwnerInv, GpuStep
    PROVE  OwnerInv'
  <1>1. /\ gpu # <<>> /\ Head(gpu).ahead = 0 /\ gpu' = Tail(gpu)
        /\ UNCHANGED <<frame, pc, cycle, pass, retirements, wsi>>
    BY DEF GpuStep, owners
  <1>2. /\ Head(gpu) = gpu[1]
        /\ \A i \in DOMAIN gpu' : i + 1 \in DOMAIN gpu /\ gpu'[i] = gpu[i + 1]
        /\ \A i \in DOMAIN gpu : i # 1 => i - 1 \in DOMAIN gpu' /\ gpu'[i - 1] = gpu[i]
    BY <1>1, Popped DEF Inv, GpuShape
  <1>3. Kept' /\ OwnRender' /\ ImageOf'
    <2>1. \A s : Fresh(s)' <=> Fresh(s)
      BY <1>1, FreshSame
    <2> QED BY <1>1, <2>1 DEF OwnerInv, Kept, OwnRender, ImageOf, Slot
  <1>4. InSub'
    <2> SUFFICES ASSUME NEW i \in DOMAIN gpu', NEW s \in gpu'[i].waits \cup gpu'[i].signals
                 PROVE  /\ gpu'[i].slot = None => s \in GameSemaphores
                        /\ \A k \in Slots : gpu'[i].slot = k =>
                             \/ s \in pass[k].crossFrame
                             \/ s \in pass[k].own /\ (Active(k) => s[2] = frame)
      BY <1>1 DEF InSub, Active, Slot
    <2>1. i + 1 \in DOMAIN gpu /\ gpu'[i] = gpu[i + 1]
      BY <1>2
    <2> QED BY <2>1 DEF OwnerInv, InSub
  <1>5. Acq'
    <2> SUFFICES ASSUME NEW k \in Slots, NEW p \in DOMAIN wsi,
                        pass[k].acquired \cap wsi[p].waits # {}
                 PROVE  \E g \in DOMAIN gpu' : gpu'[g].slot = k /\ gpu'[g].ahead >= p
      BY <1>1 DEF Acq
    <2>1. PICK g \in DOMAIN gpu : gpu[g].slot = k /\ gpu[g].ahead >= p
      BY DEF OwnerInv, Acq
    <2>2. p \in Nat /\ p >= 1
      BY LenProperties DEF Rest
    <2>3. g # 1
      BY <1>1, <1>2, <2>1, <2>2
    <2> QED BY <1>2, <2>1, <2>3
  <1> QED BY <1>3, <1>4, <1>5 DEF OwnerInv

\* A finished present moves the others up, and the distances with them.
LEMMA WsiStepOwner ==
    ASSUME Inv, Rest, OwnerInv, WsiStep
    PROVE  OwnerInv'
  <1>1. /\ wsi # <<>> /\ wsi' = Tail(wsi)
        /\ gpu' = [i \in DOMAIN gpu |->
                     [gpu[i] EXCEPT !.ahead = IF @ = 0 THEN 0 ELSE @ - 1]]
        /\ UNCHANGED <<frame, pc, cycle, pass, retirements>>
    BY DEF WsiStep, owners
  <1>2. /\ DOMAIN gpu' = DOMAIN gpu
        /\ \A i \in DOMAIN gpu :
             /\ gpu'[i].waits = gpu[i].waits /\ gpu'[i].signals = gpu[i].signals
             /\ gpu'[i].slot = gpu[i].slot
             /\ gpu'[i].ahead = IF gpu[i].ahead = 0 THEN 0 ELSE gpu[i].ahead - 1
    BY <1>1 DEF Inv, GpuShape, IsSubmission
  <1>3. \A i \in DOMAIN wsi' : i \in Nat /\ i >= 1 /\ i + 1 \in DOMAIN wsi /\ wsi'[i] = wsi[i + 1]
    BY <1>1, Popped DEF Rest
  <1>4. Kept' /\ OwnRender'
    <2>1. \A s : Fresh(s)' <=> Fresh(s)
      BY <1>1, FreshSame
    <2> QED BY <1>1, <2>1 DEF OwnerInv, Kept, OwnRender, Slot
  <1>5. InSub'
    <2> SUFFICES ASSUME NEW i \in DOMAIN gpu', NEW s \in gpu'[i].waits \cup gpu'[i].signals
                 PROVE  /\ gpu'[i].slot = None => s \in GameSemaphores
                        /\ \A k \in Slots : gpu'[i].slot = k =>
                             \/ s \in pass'[k].crossFrame
                             \/ s \in pass'[k].own /\ (Active(k)' => s[2] = frame')
      BY DEF InSub
    <2>1. /\ i \in DOMAIN gpu /\ gpu'[i].slot = gpu[i].slot
          /\ s \in gpu[i].waits \cup gpu[i].signals
      BY <1>2
    <2>2. /\ gpu[i].slot = None => s \in GameSemaphores
          /\ \A k \in Slots : gpu[i].slot = k =>
               \/ s \in pass[k].crossFrame
               \/ s \in pass[k].own /\ (Active(k) => s[2] = frame)
      BY <2>1 DEF OwnerInv, InSub
    <2>3. \A k \in Slots : (Active(k)' <=> Active(k)) /\ pass'[k] = pass[k]
      BY <1>1 DEF Active, Slot
    <2> QED BY <1>1, <2>1, <2>2, <2>3
  <1>6. ImageOf'
    BY <1>1, <1>3 DEF OwnerInv, ImageOf
  <1>7. Acq'
    <2> SUFFICES ASSUME NEW k \in Slots, NEW p \in DOMAIN wsi',
                        pass[k].acquired \cap wsi'[p].waits # {}
                 PROVE  \E g \in DOMAIN gpu' : gpu'[g].slot = k /\ gpu'[g].ahead >= p
      BY <1>1 DEF Acq
    <2>1. p \in Nat /\ p >= 1 /\ p + 1 \in DOMAIN wsi /\ pass[k].acquired \cap wsi[p + 1].waits # {}
      BY <1>3
    <2>2. PICK g \in DOMAIN gpu : gpu[g].slot = k /\ gpu[g].ahead >= p + 1
      BY <2>1 DEF OwnerInv, Acq
    <2>3. gpu[g].ahead \in Nat
      BY DEF Rest
    <2>4. gpu'[g].ahead = gpu[g].ahead - 1
      BY <1>2, <2>1, <2>2, <2>3
    <2>5. gpu'[g].ahead >= p
      BY <2>1, <2>2, <2>3, <2>4
    <2> QED BY <1>2, <2>2, <2>5
  <1> QED BY <1>4, <1>5, <1>6, <1>7 DEF OwnerInv

\* A new present waits for nothing that is kept.
LEMMA PresentsMore ==
    ASSUME Rest, ImageOf, NEW x, UNCHANGED wsi \/ wsi' = Append(wsi, x)
    PROVE  \A p \in DOMAIN wsi' :
              \/ p \in DOMAIN wsi /\ wsi'[p] = wsi[p]
              \/ wsi'[p] = x /\ wsi' = Append(wsi, x)
  <1>1. CASE UNCHANGED wsi
    BY <1>1
  <1>2. CASE wsi' = Append(wsi, x)
    <2>1. /\ DOMAIN Append(wsi, x) = DOMAIN wsi \cup {Len(wsi) + 1}
          /\ \A i \in DOMAIN wsi : Append(wsi, x)[i] = wsi[i]
          /\ Append(wsi, x)[Len(wsi) + 1] = x
      BY Appended DEF Rest
    <2> QED BY <1>2, <2>1
  <1> QED BY <1>1, <1>2

\* The other submissions of an entry, when the entry lets go of nothing they use.
LEMMA InSubMore ==
    ASSUME Inv, InSub, NEW o, UNCHANGED gpu \/ gpu' = Append(gpu, o),
           \A s \in o.waits \cup o.signals :
             /\ o.slot = None => s \in GameSemaphores
             /\ \A k \in Slots : o.slot = k =>
                  \/ s \in pass'[k].crossFrame
                  \/ s \in pass'[k].own /\ (Active(k)' => s[2] = frame'),
           \A k \in Slots : (\E i \in DOMAIN gpu : gpu[i].slot = k) =>
              /\ pass[k].crossFrame \subseteq pass'[k].crossFrame
              /\ \A s \in pass[k].own :
                    (Active(k) => s[2] = frame) =>
                        s \in pass'[k].own /\ (Active(k)' => s[2] = frame')
    PROVE  InSub'
  <1> SUFFICES ASSUME NEW i \in DOMAIN gpu', NEW s \in gpu'[i].waits \cup gpu'[i].signals
               PROVE  /\ gpu'[i].slot = None => s \in GameSemaphores
                      /\ \A k \in Slots : gpu'[i].slot = k =>
                           \/ s \in pass'[k].crossFrame
                           \/ s \in pass'[k].own /\ (Active(k)' => s[2] = frame')
    BY DEF InSub
  <1>1. (i \in DOMAIN gpu /\ gpu'[i] = gpu[i]) \/ gpu'[i] = o
    <2>1. CASE UNCHANGED gpu
      BY <2>1
    <2>2. CASE gpu' = Append(gpu, o)
      <3>1. /\ DOMAIN Append(gpu, o) = DOMAIN gpu \cup {Len(gpu) + 1}
            /\ \A h \in DOMAIN gpu : Append(gpu, o)[h] = gpu[h]
            /\ Append(gpu, o)[Len(gpu) + 1] = o
        BY Appended DEF Inv, GpuShape
      <3> QED BY <2>2, <3>1
    <2> QED BY <2>1, <2>2
  <1>2. CASE gpu'[i] = o
    BY <1>2
  <1>3. CASE i \in DOMAIN gpu /\ gpu'[i] = gpu[i]
    <2>1. /\ gpu[i].slot = None => s \in GameSemaphores
          /\ \A k \in Slots : gpu[i].slot = k =>
               \/ s \in pass[k].crossFrame
               \/ s \in pass[k].own /\ (Active(k) => s[2] = frame)
      BY <1>3 DEF InSub
    <2> QED BY <1>3, <2>1
  <1> QED BY <1>1, <1>2, <1>3

\* A present without a sample moves what its image kept to itself.
LEMMA BusyOwner ==
    ASSUME Inv, Rest, OwnerInv, NEW j \in Images, BusyPassthrough(j)
    PROVE  OwnerInv'
  <1> DEFINE o == Submission(None, {}, {Game(j)}, {}, Ahead(j))
             x == [image |-> j, waits |-> {Game(j)}]
  <1>1. /\ gpu' = Append(gpu, o) /\ wsi' = Append(wsi, x) /\ pc = "idle"
        /\ retirements' = [retirements EXCEPT ![j] = {}]
        /\ UNCHANGED <<frame, pc, cycle>>
    BY DEF BusyPassthrough, Released
  <1>2. /\ o.waits = {} /\ o.signals = {Game(j)} /\ o.slot = None
        /\ x.waits = {Game(j)} /\ x.image = j
    BY DEF Submission
  <1> HIDE DEF o, x
  <1>3. \A k \in Slots : /\ pass'[k].own = pass[k].own
                         /\ pass'[k].crossFrame = pass[k].crossFrame
                         /\ pass'[k].acquired = pass[k].acquired
                         /\ ~Active(k)' /\ ~Active(k)
    BY <1>1, BusyEntries DEF Active
  <1>4. \A h \in Images : retirements'[h] \subseteq retirements[h]
    BY <1>1 DEF Rest
  <1>5. Kept'
    <2>1. \A s : Fresh(s)' <=> Fresh(s)
      BY <1>1, FreshSame
    <2> QED BY <1>3, <1>4, <2>1 DEF OwnerInv, Kept
  <1>6. InSub'
    <2>1. Game(j) \in GameSemaphores /\ \A k \in Slots : k # None
      BY DEF GameSemaphores, Slots, None
    <2> QED BY <1>1, <1>2, <1>3, <2>1, InSubMore DEF OwnerInv
  <1>7. OwnRender'
    BY <1>1 DEF OwnRender
  <1>8. \A p \in DOMAIN wsi' : \/ p \in DOMAIN wsi /\ wsi'[p] = wsi[p]
                               \/ wsi'[p].waits = {Game(j)}
    BY <1>1, <1>2, PresentsMore DEF OwnerInv
  <1>9. Game(j)[1] \notin OnScreen
    BY DEF Game, OnScreen
  <1>10. ImageOf'
    <2> SUFFICES ASSUME NEW h \in Images, NEW p \in DOMAIN wsi',
                        retirements'[h] \cap wsi'[p].waits # {}
                 PROVE  wsi'[p].image = h
      BY DEF ImageOf
    <2>1. Game(j) \notin retirements[h]
      BY <1>9 DEF OwnerInv, Kept
    <2>2. p \in DOMAIN wsi /\ wsi'[p] = wsi[p]
      BY <1>4, <1>8, <2>1
    <2> QED BY <1>4, <2>2 DEF OwnerInv, ImageOf
  <1>11. Acq'
    <2> SUFFICES ASSUME NEW k \in Slots, NEW p \in DOMAIN wsi',
                        pass'[k].acquired \cap wsi'[p].waits # {}
                 PROVE  \E g \in DOMAIN gpu' : gpu'[g].slot = k /\ gpu'[g].ahead >= p
      BY DEF Acq
    <2>1. Game(j) \notin pass[k].acquired
      BY <1>9 DEF OwnerInv, Kept
    <2>2. p \in DOMAIN wsi /\ wsi'[p] = wsi[p]
      BY <1>3, <1>8, <2>1
    <2>3. PICK g \in DOMAIN gpu : gpu[g].slot = k /\ gpu[g].ahead >= p
      BY <1>3, <2>2 DEF OwnerInv, Acq
    <2> QED BY <1>1, <2>3, Grows DEF Inv
  <1> QED BY <1>5, <1>6, <1>7, <1>10, <1>11 DEF OwnerInv

\* The copy takes an entry of which nothing is queued.
LEMMA CopyOwner ==
    ASSUME Inv, Rest, OwnerInv, NEW j \in Images, NEW n \in Batches, NEW refused \in BOOLEAN,
           Copy(j, n, refused)
    PROVE  OwnerInv'
  <1> DEFINE new == New(handoff')
             o == Submission(Slot, CopyWaits, new, {}, Ahead(j))
  <1>1. /\ pc = "idle" /\ pc' = "copied" /\ gpu' = Append(gpu, o) /\ Quiet(Slot)
        /\ retirements' = [retirements EXCEPT ![j] = {}]
        /\ cycle'.queued = 0 /\ UNCHANGED <<frame, wsi>>
    BY DEF Copy, New, NoCycle, Released
  <1>2. o.waits = CopyWaits /\ o.signals = new /\ o.slot = Slot
    BY DEF Submission
  <1>3. \A s \in new : IsSem(s) /\ s[2] = frame /\ s[1] # "game"
    BY DEF New, Sem, IsSem
  <1> HIDE DEF o, new
  <1>4. /\ Slot \in Slots /\ Slot' = Slot /\ ~InUse /\ InUse' /\ frame \in Nat
        /\ \A k \in Slots : ~Active(k) /\ (Active(k)' <=> k = Slot)
    BY <1>1, SlotsInRange DEF Inv, Shape, Slot, InUse, Active
  <1>5. \A k \in Slots :
             /\ pass'[k].own = IF k = Slot THEN Assigned(pass[k].own, new)
                               ELSE pass[k].own
             /\ pass'[k].crossFrame = IF k = Slot THEN CopyWaits ELSE pass[k].crossFrame
             /\ pass'[k].acquired = IF k = Slot THEN {} ELSE pass[k].acquired
    BY CopyEntries DEF new
  <1>6. \A i \in DOMAIN gpu : gpu[i].slot # Slot
    BY <1>1, <1>4, QuietIsIdle
  <1>7. \A h \in Images : retirements'[h] \subseteq retirements[h]
    BY <1>1 DEF Rest
  <1>8. \A s : Fresh(s)' => Fresh(s)
    BY <1>1, <1>4 DEF Fresh
  <1>9. Kept'
    <2>1. \A s \in CopyWaits : s[1] # "game"
      BY DEF CopyWaits
    <2>2. \A k \in Slots : pass'[k].own \subseteq pass[k].own \cup new
      BY <1>5, AssignedIs
    <2>3. \A k \in Slots :
            /\ \A s \in pass'[k].own : IsSem(s) /\ s[1] # "game"
            /\ \A s \in pass'[k].crossFrame : s[1] # "game"
            /\ \A s \in pass'[k].acquired : s[1] \in OnScreen /\ ~Fresh(s)'
      BY <1>3, <1>5, <1>8, <2>1, <2>2 DEF OwnerInv, Kept
    <2> QED BY <1>7, <1>8, <2>3 DEF OwnerInv, Kept
  <1>10. InSub'
    <2>1. Slot # None
      BY <1>4 DEF Slots, None
    <2>2. \A s \in o.waits \cup o.signals :
             s \in pass'[Slot].crossFrame \/ (s \in pass'[Slot].own /\ s[2] = frame')
      BY <1>1, <1>2, <1>3, <1>4, <1>5, AssignedIs
    <2>3. \A k \in Slots : (\E i \in DOMAIN gpu : gpu[i].slot = k) =>
              /\ pass[k].crossFrame \subseteq pass'[k].crossFrame
              /\ \A s \in pass[k].own :
                    (Active(k) => s[2] = frame) =>
                        s \in pass'[k].own /\ (Active(k)' => s[2] = frame')
      BY <1>4, <1>5, <1>6
    <2>4. \A s \in o.waits \cup o.signals :
             /\ o.slot = None => s \in GameSemaphores
             /\ \A k \in Slots : o.slot = k =>
                  \/ s \in pass'[k].crossFrame
                  \/ s \in pass'[k].own /\ (Active(k)' => s[2] = frame')
      BY <1>2, <2>1, <2>2
    <2> QED BY <1>1, <2>3, <2>4, InSubMore DEF OwnerInv
  <1>11. OwnRender'
    BY <1>1 DEF OwnRender
  <1>12. ImageOf'
    BY <1>1, <1>7 DEF OwnerInv, ImageOf
  <1>13. Acq'
    <2> SUFFICES ASSUME NEW k \in Slots, NEW p \in DOMAIN wsi,
                        pass'[k].acquired \cap wsi[p].waits # {}
                 PROVE  \E g \in DOMAIN gpu' : gpu'[g].slot = k /\ gpu'[g].ahead >= p
      BY <1>1 DEF Acq
    <2>1. PICK g \in DOMAIN gpu : gpu[g].slot = k /\ gpu[g].ahead >= p
      BY <1>5 DEF OwnerInv, Acq
    <2> QED BY <1>1, <2>1, Grows DEF Inv
  <1> QED BY <1>9, <1>10, <1>11, <1>12, <1>13 DEF OwnerInv

\* What the present of a source waits for.
LEMMA SourceWaitsAre ==
    ASSUME Inv, Rest, InUse, frame' = frame + 1, ~InUse'
    PROVE  \A s \in SourceWaits : s[1] \in OnScreen /\ Fresh(s) /\ ~Fresh(s)'
  <1> SUFFICES ASSUME NEW s \in SourceWaits
               PROVE  s[1] \in OnScreen /\ Fresh(s) /\ ~Fresh(s)'
    OBVIOUS
  <1>1. frame \in Nat /\ cycle.queued \in Nat
    BY DEF Inv, Shape, Rest, IsCycle
  <1>2. s = <<"ready", frame, 0>> \/ s = <<"prev", frame, cycle.queued>>
    BY DEF SourceWaits, Sem, Out
  <1> QED BY <1>1, <1>2 DEF Fresh, OnScreen

\* The end of a present keeps what its image waits for.
LEMMA ConcludeOwner ==
    ASSUME Inv, Rest, Waits, OwnerInv, InUse, NEW then \in {"idle", "stale"}, NEW failed,
           Conclude(then, failed)
    PROVE  OwnerInv'
  <1> DEFINE o == Submission(Slot, {}, {}, {PassFence(Slot)}, 0)
             x == [image |-> cycle.image, waits |-> SourceWaits]
  <1>1. /\ UNCHANGED gpu \/ gpu' = Append(gpu, o)
        /\ wsi' = Append(wsi, x)
        /\ retirements' = [retirements EXCEPT
                             ![cycle.image] = retirements[cycle.image] \cup SourceWaits]
        /\ frame' = frame + 1 /\ pc' = then
    BY DEF Conclude, Fenced, Drained, Unfenced
  <1>2. /\ o.waits = {} /\ o.signals = {} /\ x.waits = SourceWaits /\ x.image = cycle.image
    BY DEF Submission
  <1> HIDE DEF o, x
  <1>3. /\ ~InUse' /\ frame \in Nat /\ cycle.image \in Images
        /\ \A k \in Slots : ~Active(k)'
    BY <1>1 DEF Inv, Shape, Rest, InUse, Active
  <1>4. \A k \in Slots : /\ pass'[k].own = pass[k].own
                         /\ pass'[k].crossFrame = pass[k].crossFrame
                         /\ pass'[k].acquired = pass[k].acquired
    BY ConcludeEntries
  <1>5. \A s \in SourceWaits : s[1] \in OnScreen /\ Fresh(s) /\ ~Fresh(s)'
    BY <1>1, <1>3, SourceWaitsAre
  <1>6. ASSUME NEW s, Fresh(s)' PROVE Fresh(s)
    BY <1>1, <1>3, <1>6 DEF Fresh
  <1>7. \A h \in Images : retirements'[h] = IF h = cycle.image THEN retirements[h] \cup SourceWaits
                                            ELSE retirements[h]
    BY <1>1 DEF Rest
  <1>8. Kept'
    <2>1. \A h \in Images : \A s \in retirements'[h] : s[1] \in OnScreen /\ ~Fresh(s)'
      BY <1>5, <1>6, <1>7 DEF OwnerInv, Kept
    <2> QED BY <1>4, <1>6, <2>1 DEF OwnerInv, Kept
  <1>9. InSub'
    BY <1>1, <1>2, <1>3, <1>4, InSubMore DEF OwnerInv
  <1>10. OwnRender'
    BY <1>1 DEF OwnRender
  <1>11. \A p \in DOMAIN wsi' : \/ p \in DOMAIN wsi /\ wsi'[p] = wsi[p]
                                \/ wsi'[p] = x
    BY <1>1, PresentsMore DEF OwnerInv
  <1>12. \A p \in DOMAIN wsi : SourceWaits \cap wsi[p].waits = {}
    <2> SUFFICES ASSUME NEW p \in DOMAIN wsi, NEW s \in SourceWaits, s \in wsi[p].waits
                 PROVE  FALSE
      OBVIOUS
    <2>1. s \in Used(wsi)
      BY DEF Used, Members
    <2>2. s \in GameSemaphores
      BY <1>5, <2>1 DEF Waits
    <2> QED BY <1>5, <2>2, Kinds
  <1>13. ImageOf'
    <2> SUFFICES ASSUME NEW h \in Images, NEW p \in DOMAIN wsi',
                        retirements'[h] \cap wsi'[p].waits # {}
                 PROVE  wsi'[p].image = h
      BY DEF ImageOf
    <2>1. CASE p \in DOMAIN wsi /\ wsi'[p] = wsi[p]
      <3>1. retirements[h] \cap wsi[p].waits # {}
        BY <1>7, <1>12, <2>1
      <3> QED BY <2>1, <3>1 DEF OwnerInv, ImageOf
    <2>2. CASE wsi'[p] = x
      <3>1. retirements[h] \cap SourceWaits = {}
        BY <1>5 DEF OwnerInv, Kept
      <3>2. h = cycle.image
        BY <1>2, <1>7, <2>2, <3>1
      <3> QED BY <1>2, <2>2, <3>2
    <2> QED BY <1>11, <2>1, <2>2
  <1>14. Acq'
    <2> SUFFICES ASSUME NEW k \in Slots, NEW p \in DOMAIN wsi',
                        pass'[k].acquired \cap wsi'[p].waits # {}
                 PROVE  \E g \in DOMAIN gpu' : gpu'[g].slot = k /\ gpu'[g].ahead >= p
      BY DEF Acq
    <2>1. pass[k].acquired \cap SourceWaits = {}
      BY <1>5 DEF OwnerInv, Kept
    <2>2. p \in DOMAIN wsi /\ wsi'[p] = wsi[p]
      BY <1>2, <1>4, <1>11, <2>1
    <2>3. PICK g \in DOMAIN gpu : gpu[g].slot = k /\ gpu[g].ahead >= p
      BY <1>4, <2>2 DEF OwnerInv, Acq
    <2> QED BY <1>1, <2>3, Grows DEF Inv
  <1> QED BY <1>8, <1>9, <1>10, <1>13, <1>14 DEF OwnerInv

\* A dispatch adds to what its entry owns.
LEMMA DispatchOwner ==
    ASSUME Inv, Rest, OwnerInv, NEW outcome, Dispatch(outcome)
    PROVE  OwnerInv'
  <1> DEFINE gives == Gives(outcome)
  <1>1. /\ pc = "copied" /\ pc' = "sent"
        /\ cycle' = [cycle EXCEPT !.wait = outcome]
        /\ UNCHANGED <<frame, gpu, wsi, retirements>>
    BY DEF Dispatch
  <1>2. \A s \in gives : IsSem(s) /\ s[2] = frame /\ s[1] # "game"
    BY DEF Gives, Sem, Out, IsSem
  <1>3. outcome = "imported" => \A i \in 1 .. cycle.n : <<"render", frame, i>> \in gives
    BY DEF Gives, Out
  <1> HIDE DEF gives
  <1>4. /\ Slot \in Slots /\ Slot' = Slot /\ InUse /\ InUse' /\ frame \in Nat
        /\ \A k \in Slots : (Active(k) <=> k = Slot) /\ (Active(k)' <=> k = Slot)
    BY <1>1, SlotsInRange DEF Inv, Shape, Slot, InUse, Active
  <1>5. /\ cycle'.n = cycle.n /\ cycle'.queued = cycle.queued /\ cycle'.wait = outcome
    BY <1>1 DEF Rest, IsCycle
  <1>6. \A k \in Slots :
             /\ pass'[k].own = IF k = Slot THEN Assigned(pass[k].own, gives)
                               ELSE pass[k].own
             /\ pass'[k].crossFrame = pass[k].crossFrame
             /\ pass'[k].acquired = pass[k].acquired
    BY DispatchEntries DEF gives
  <1>7. \A s : Fresh(s)' => Fresh(s)
    BY <1>1, <1>4, <1>5 DEF Fresh
  <1>8. Kept'
    <2>1. \A k \in Slots : pass'[k].own \subseteq pass[k].own \cup gives
      BY <1>6, AssignedIs
    <2> QED BY <1>1, <1>2, <1>6, <1>7, <2>1 DEF OwnerInv, Kept
  <1>9. \A s \in pass[Slot].own : s[2] = frame => s \in pass'[Slot].own
    BY <1>2, <1>4, <1>6, AssignedKeeps DEF OwnerInv, Kept
  <1>10. InSub'
    <2>1. \A k \in Slots : \A s \in pass[k].own :
            (Active(k) => s[2] = frame) => s \in pass'[k].own /\ (Active(k)' => s[2] = frame')
      BY <1>1, <1>4, <1>6, <1>9
    <2> SUFFICES ASSUME NEW i \in DOMAIN gpu, NEW s \in gpu[i].waits \cup gpu[i].signals
                 PROVE  /\ gpu[i].slot = None => s \in GameSemaphores
                        /\ \A k \in Slots : gpu[i].slot = k =>
                             \/ s \in pass'[k].crossFrame
                             \/ s \in pass'[k].own /\ (Active(k)' => s[2] = frame')
      BY <1>1 DEF InSub
    <2>2. /\ gpu[i].slot = None => s \in GameSemaphores
          /\ \A k \in Slots : gpu[i].slot = k =>
               \/ s \in pass[k].crossFrame
               \/ s \in pass[k].own /\ (Active(k) => s[2] = frame)
      BY DEF OwnerInv, InSub
    <2> QED BY <1>6, <2>1, <2>2
  <1>11. OwnRender'
    <2>1. gives \subseteq pass'[Slot].own
      BY <1>4, <1>6, AssignedIs
    <2> QED BY <1>1, <1>3, <1>4, <1>5, <2>1 DEF OwnRender
  <1>12. ImageOf' /\ Acq'
    BY <1>1, <1>6 DEF OwnerInv, ImageOf, Acq
  <1> QED BY <1>8, <1>10, <1>11, <1>12 DEF OwnerInv

\* The copy of an output waits behind the presents that the entry keeps for.
LEMMA GeneratedOwner ==
    ASSUME Inv, Rest, Waits, OwnerInv, NEW j \in Images, PresentGenerated(j)
    PROVE  OwnerInv'
  <1> DEFINE i == cycle.queued + 1
             new == {Out("post", i), Out("prev", i)}
             rendered == IF cycle.wait = "imported" THEN {Out("render", i)} ELSE {}
             waits == {Out("post", i)} \cup (IF i > 1 THEN {Out("prev", i - 1)} ELSE {})
             o == Submission(Slot, rendered, new, IF fifo THEN {OutputFence(i)} ELSE {}, Ahead(j))
             x == [image |-> j, waits |-> waits]
  <1>1. /\ pc = "sent" /\ gpu' = Append(gpu, o) /\ wsi' = Append(wsi, x)
        /\ cycle.queued < cycle.n /\ Acquirable(j)
        /\ retirements' = [retirements EXCEPT ![j] = waits]
        /\ cycle' = [cycle EXCEPT !.queued = i]
        /\ UNCHANGED <<frame, pc>>
    BY DEF PresentGenerated
  <1>2. /\ o.waits = rendered /\ o.signals = new /\ x.waits = waits /\ x.image = j
        /\ o.slot = Slot /\ o.ahead = Ahead(j)
    BY DEF Submission
  <1>3. \A s \in new : IsSem(s) /\ s[2] = frame /\ s[1] # "game"
    BY DEF Out, IsSem
  <1> HIDE DEF o, x
  <1>4. /\ Slot \in Slots /\ Slot' = Slot /\ InUse /\ InUse' /\ frame \in Nat
        /\ \A k \in Slots : (Active(k) <=> k = Slot) /\ (Active(k)' <=> k = Slot)
    BY <1>1, SlotsInRange DEF Inv, Shape, Slot, InUse, Active
  <1>5. /\ cycle'.n = cycle.n /\ cycle'.queued = i /\ cycle'.wait = cycle.wait
        /\ cycle.queued \in Nat /\ cycle.n \in Nat
    BY <1>1 DEF Rest, IsCycle
  <1>6. \A s \in waits : s[1] \in OnScreen /\ Fresh(s) /\ ~Fresh(s)'
    <2> SUFFICES ASSUME NEW s \in waits
                 PROVE  s[1] \in OnScreen /\ Fresh(s) /\ ~Fresh(s)'
      OBVIOUS
    <2>1. CASE s = Out("post", i)
      BY <1>1, <1>4, <1>5, <2>1 DEF Fresh, OnScreen, Out
    <2>2. CASE s = <<"prev", frame, cycle.queued>>
      BY <1>1, <1>4, <1>5, <2>2 DEF Fresh, OnScreen
    <2>3. i - 1 = cycle.queued
      BY <1>5
    <2> QED BY <2>1, <2>2, <2>3 DEF Out
  <1>7. \A s \in rendered : s[2] = frame /\ s \in pass[Slot].own
    <2>1. i \in 1 .. cycle.n
      BY <1>1, <1>5
    <2> QED BY <1>1, <2>1 DEF OwnerInv, OwnRender, Out
  <1> HIDE DEF new, rendered, waits
  <1>8. \A k \in Slots :
             /\ pass'[k].own = IF k = Slot THEN Assigned(pass[k].own, new) ELSE pass[k].own
             /\ pass'[k].crossFrame = pass[k].crossFrame
             /\ pass'[k].acquired = IF k = Slot THEN pass[k].acquired \cup retirements[j]
                                    ELSE pass[k].acquired
    BY GeneratedEntries DEF new
  <1>9. \A s : Fresh(s)' => Fresh(s)
    BY <1>1, <1>4, <1>5 DEF Fresh
  <1>10. \A h \in Images : retirements'[h] = IF h = j THEN waits ELSE retirements[h]
    BY <1>1 DEF Rest
  <1>11. Kept'
    <2>1. \A k \in Slots : pass'[k].own \subseteq pass[k].own \cup new
      <3>1. ASSUME NEW k \in Slots PROVE pass'[k].own \subseteq pass[k].own \cup new
        <4>1. Assigned(pass[k].own, new) \subseteq pass[k].own \cup new
          BY AssignedIs
        <4>2. pass'[k].own = Assigned(pass[k].own, new) \/ pass'[k].own = pass[k].own
          BY <1>8
        <4> QED BY <4>1, <4>2
      <3> QED BY <3>1
    <2>2. \A k \in Slots :
            /\ \A s \in pass'[k].own : IsSem(s) /\ s[1] # "game"
            /\ \A s \in pass'[k].crossFrame : s[1] # "game"
      BY <1>3, <1>8, <2>1 DEF OwnerInv, Kept
    <2>3. \A k \in Slots : \A s \in pass'[k].acquired : s[1] \in OnScreen /\ ~Fresh(s)'
      BY <1>8, <1>9 DEF OwnerInv, Kept
    <2>4. \A h \in Images : \A s \in retirements'[h] : s[1] \in OnScreen /\ ~Fresh(s)'
      BY <1>6, <1>9, <1>10 DEF OwnerInv, Kept
    <2> QED BY <2>2, <2>3, <2>4 DEF Kept
  <1>12. \A s \in pass[Slot].own : s[2] = frame => s \in pass'[Slot].own
    <2> SUFFICES ASSUME NEW s \in pass[Slot].own, s[2] = frame PROVE s \in pass'[Slot].own
      OBVIOUS
    <2>1. IsSem(s)
      BY <1>4 DEF OwnerInv, Kept
    <2>2. \A t \in new : IsSem(t) /\ t[2] = frame
      BY <1>3
    <2>3. s \in Assigned(pass[Slot].own, new)
      BY <2>1, <2>2, AssignedKeeps
    <2>4. pass'[Slot].own = Assigned(pass[Slot].own, new)
      BY <1>4, <1>8
    <2> QED BY <2>3, <2>4
  <1>13. InSub'
    <2>1. Slot # None
      BY <1>4 DEF Slots, None
    <2>2. new \subseteq pass'[Slot].own
      BY <1>4, <1>8, AssignedIs
    <2>3. \A s \in o.waits \cup o.signals :
             /\ o.slot = None => s \in GameSemaphores
             /\ \A k \in Slots : o.slot = k =>
                  \/ s \in pass'[k].crossFrame
                  \/ s \in pass'[k].own /\ (Active(k)' => s[2] = frame')
      BY <1>1, <1>2, <1>3, <1>7, <1>12, <2>1, <2>2
    <2>4. \A k \in Slots :
              /\ pass[k].crossFrame \subseteq pass'[k].crossFrame
              /\ \A s \in pass[k].own :
                    (Active(k) => s[2] = frame) =>
                        s \in pass'[k].own /\ (Active(k)' => s[2] = frame')
      BY <1>1, <1>4, <1>8, <1>12
    <2> QED BY <1>1, <2>3, <2>4, InSubMore DEF OwnerInv
  <1>14. OwnRender'
    BY <1>1, <1>4, <1>5, <1>12 DEF OwnerInv, OwnRender
  <1>15. \A p \in DOMAIN wsi' : \/ p \in DOMAIN wsi /\ wsi'[p] = wsi[p]
                                \/ wsi'[p] = x
    BY <1>1, PresentsMore DEF OwnerInv
  <1>16. \A p \in DOMAIN wsi : waits \cap wsi[p].waits = {}
    <2> SUFFICES ASSUME NEW p \in DOMAIN wsi, NEW s \in waits, s \in wsi[p].waits
                 PROVE  FALSE
      OBVIOUS
    <2>1. s \in Used(wsi)
      BY DEF Used, Members
    <2>2. s \in GameSemaphores
      BY <1>6, <2>1 DEF Waits
    <2> QED BY <1>6, <2>2, Kinds
  <1>17. ImageOf'
    <2> SUFFICES ASSUME NEW h \in Images, NEW p \in DOMAIN wsi',
                        retirements'[h] \cap wsi'[p].waits # {}
                 PROVE  wsi'[p].image = h
      BY DEF ImageOf
    <2>1. CASE p \in DOMAIN wsi /\ wsi'[p] = wsi[p]
      <3>1. h # j /\ retirements[h] \cap wsi[p].waits # {}
        BY <1>10, <1>16, <2>1
      <3> QED BY <2>1, <3>1 DEF OwnerInv, ImageOf
    <2>2. CASE wsi'[p] = x
      <3>1. retirements[h] \cap waits = {}
        BY <1>6 DEF OwnerInv, Kept
      <3>2. h = j
        BY <1>2, <1>10, <2>2, <3>1
      <3> QED BY <1>2, <2>2, <3>2
    <2> QED BY <1>15, <2>1, <2>2
  <1>18. Acq'
    <2> SUFFICES ASSUME NEW k \in Slots, NEW p \in DOMAIN wsi',
                        pass'[k].acquired \cap wsi'[p].waits # {}
                 PROVE  \E g \in DOMAIN gpu' : gpu'[g].slot = k /\ gpu'[g].ahead >= p
      BY DEF Acq
    <2>1. (pass[k].acquired \cup retirements[j]) \cap waits = {}
      BY <1>6 DEF OwnerInv, Kept
    <2>2. p \in DOMAIN wsi /\ wsi'[p] = wsi[p]
      BY <1>2, <1>8, <1>15, <2>1
    <2>3. CASE pass[k].acquired \cap wsi[p].waits # {}
      <3>1. PICK g \in DOMAIN gpu : gpu[g].slot = k /\ gpu[g].ahead >= p
        BY <2>2, <2>3 DEF OwnerInv, Acq
      <3> QED BY <1>1, <3>1, Grows DEF Inv
    <2>4. CASE pass[k].acquired \cap wsi[p].waits = {}
      <3>1. k = Slot /\ retirements[j] \cap wsi[p].waits # {}
        BY <1>8, <2>2, <2>4
      <3>2. p \in PresentsOf(j)
        BY <2>2, <3>1 DEF OwnerInv, ImageOf, PresentsOf
      <3>3. Ahead(j) \in Nat /\ p <= Ahead(j)
        BY <1>1, <3>2, AheadIs DEF Rest
      <3>4. p \in Nat
        BY <2>2, LenProperties DEF Rest
      <3>5. Ahead(j) >= p
        BY <3>3, <3>4
      <3>6. Len(gpu) + 1 \in DOMAIN gpu' /\ gpu'[Len(gpu) + 1] = o
        BY <1>1, Appended DEF Inv, GpuShape
      <3> QED BY <1>2, <3>1, <3>5, <3>6
    <2> QED BY <2>3, <2>4
  <1> QED BY <1>11, <1>13, <1>14, <1>17, <1>18 DEF OwnerInv

\* The owners, over every step.
LEMMA OwnerStep ==
    ASSUME Inv, FenceInv, ConsumerInv, OwnerInv, [Next]_vars
    PROVE  OwnerInv'
  <1>0. Rest /\ Waits
    BY DEF FenceInv, ConsumerInv
  <1>1. ASSUME UNCHANGED <<frame, pc, cycle, pass, retirements, gpu, wsi>>
        PROVE  OwnerInv'
    <2>1. \A s : Fresh(s)' <=> Fresh(s)
      BY <1>1, FreshSame
    <2>2. Kept' /\ OwnRender' /\ ImageOf' /\ Acq'
      BY <1>1, <2>1 DEF OwnerInv, Kept, OwnRender, ImageOf, Acq, Slot
    <2>3. InSub'
      BY <1>1 DEF OwnerInv, InSub, Active, Slot
    <2> QED BY <2>2, <2>3 DEF OwnerInv
  <1>2. CASE \E j \in Images : BusyPassthrough(j)
    BY <1>0, <1>2, BusyOwner
  <1>3. CASE \E j \in Images, n \in Batches, refused \in BOOLEAN :
               Copy(j, n, refused)
    BY <1>0, <1>3, CopyOwner
  <1>4. CASE \E outcome \in Outcomes : Dispatch(outcome)
    BY <1>0, <1>4, DispatchOwner
  <1>5. CASE ExportFailed
    BY <1>0, <1>5, ConcludeOwner DEF ExportFailed, InUse
  <1>6. CASE CompletionTimeout
    BY <1>0, <1>6, ConcludeOwner DEF CompletionTimeout, InUse
  <1>7. CASE PresentSource
    BY <1>0, <1>7, ConcludeOwner DEF PresentSource, InUse
  <1>8. CASE \E j \in Images : PresentGenerated(j)
    BY <1>0, <1>8, GeneratedOwner
  <1>9. CASE GpuStep
    BY <1>0, <1>9, GpuStepOwner
  <1>10. CASE WsiStep
    BY <1>0, <1>10, WsiStepOwner
  <1>11. CASE BackendStep
    BY <1>1, <1>11 DEF BackendStep, owners
  <1>12. CASE EnterSourceOnlyBypass
    BY <1>1, <1>12 DEF EnterSourceOnlyBypass, owners, queues
  <1>13. CASE Recreate
    <2>1. /\ gpu' = <<>> /\ wsi' = <<>> /\ pc' = "idle"
          /\ pass' = [k \in Slots |-> Unused]
          /\ retirements' = [j \in Images |-> {}]
      BY <1>13 DEF Recreate
    <2>2. DOMAIN gpu' = {} /\ DOMAIN wsi' = {}
          /\ (\A k \in Slots : pass'[k] = Unused) /\ \A j \in Images : retirements'[j] = {}
      BY <2>1
    <2>3. Kept'
      BY <2>2 DEF Kept, Unused
    <2> QED BY <2>1, <2>2, <2>3 DEF OwnerInv, InSub, OwnRender, ImageOf, Acq
  <1>14. CASE UNCHANGED vars
    BY <1>1, <1>14 DEF vars, owners, queues
  <1> QED BY <1>2, <1>3, <1>4, <1>5, <1>6, <1>7, <1>8, <1>9, <1>10, <1>11,
             <1>12, <1>13, <1>14 DEF Next, Present, Devices

-----------------------------------------------------------------------------
\* What PassesLetGoSafely says of one step.
LetGo ==
    LET gone == Owned \ Owned' IN
    gone # {} =>
      \A k \in Slots :
        /\ gone \cap (pass[k].own \cup pass[k].crossFrame) \cap InSubmissions = {}
        /\ gone \cap pass[k].acquired \cap (InSubmissions \cup InPresents) = {}

\* What entries keep is owned.
LEMMA OwnedByEntry ==
    ASSUME NEW k \in Slots
    PROVE  /\ pass[k].own \cup pass[k].crossFrame \cup pass[k].acquired \subseteq Owned
           /\ pass'[k].own \cup pass'[k].crossFrame \cup pass'[k].acquired \subseteq Owned'
  BY DEF Owned

\* A step by which an entry in use assigns members, and no other lets go.
LEMMA LetsGoOfOwn ==
    ASSUME Inv, OwnerInv,
           \A k \in Slots :
              /\ (\E i \in DOMAIN gpu : gpu[i].slot = k) =>
                    /\ pass[k].crossFrame \subseteq pass'[k].crossFrame
                    /\ \A s \in pass[k].own :
                          (Active(k) => s[2] = frame) => s \in pass'[k].own
                    /\ pass[k].acquired \subseteq pass'[k].acquired
    PROVE  LetGo
  <1> DEFINE gone == Owned \ Owned'
  <1>1. ASSUME NEW k \in Slots, NEW s \in gone,
               s \in pass[k].own \cup pass[k].crossFrame \cup pass[k].acquired
        PROVE  s \notin InSubmissions
    <2> SUFFICES ASSUME s \in InSubmissions PROVE FALSE
      OBVIOUS
    <2>1. PICK i \in DOMAIN gpu : s \in gpu[i].waits \cup gpu[i].signals
      BY DEF InSubmissions, Members
    <2>2. s[1] # "game"
      BY <1>1, Kinds DEF OwnerInv, Kept
    <2>3. gpu[i].slot # None
      BY <2>1, <2>2, Kinds DEF OwnerInv, InSub
    <2>4. PICK h \in Slots : gpu[i].slot = h
      BY <2>3 DEF Inv, GpuShape, IsSubmission
    <2>5. \/ s \in pass[h].crossFrame
          \/ s \in pass[h].own /\ (Active(h) => s[2] = frame)
      BY <2>1, <2>4 DEF OwnerInv, InSub
    <2>6. s \in pass'[h].own \cup pass'[h].crossFrame
      BY <2>4, <2>5
    <2> QED BY <2>6, OwnedByEntry
  <1>2. ASSUME NEW k \in Slots, NEW s \in gone, s \in pass[k].acquired
        PROVE  s \notin InPresents
    <2> SUFFICES ASSUME s \in InPresents PROVE FALSE
      OBVIOUS
    <2>1. PICK p \in DOMAIN wsi : s \in wsi[p].waits
      BY DEF InPresents, Members
    <2>2. PICK g \in DOMAIN gpu : gpu[g].slot = k
      BY <1>2, <2>1 DEF OwnerInv, Acq
    <2>3. s \in pass'[k].acquired
      BY <1>2, <2>2
    <2> QED BY <2>3, OwnedByEntry
  <1> QED BY <1>1, <1>2 DEF LetGo

\* No step lets go of what is in use.
LEMMA LetGoStep ==
    ASSUME Inv, Rest, OwnerInv, [Next]_vars
    PROVE  [LetGo]_owners
  <1> SUFFICES ASSUME ~UNCHANGED owners PROVE LetGo
    OBVIOUS
  <1>1. ASSUME \A k \in Slots : /\ pass'[k].own = pass[k].own
                                /\ pass'[k].crossFrame = pass[k].crossFrame
                                /\ pass'[k].acquired = pass[k].acquired
        PROVE  LetGo
    BY <1>1, LetsGoOfOwn
  <1>2. CASE \E j \in Images : BusyPassthrough(j)
    BY <1>1, <1>2, BusyEntries
  <1>3. ASSUME NEW j \in Images, NEW n \in Batches, NEW refused \in BOOLEAN,
               Copy(j, n, refused)
        PROVE  LetGo
    <2>1. Slot \in Slots /\ Quiet(Slot) /\ ~Active(Slot)
      BY <1>3, SlotsInRange DEF Inv, Shape, Copy, Active
    <2>2. \A i \in DOMAIN gpu : gpu[i].slot # Slot
      BY <2>1, QuietIsIdle
    <2>3. \A k \in Slots : k # Slot => /\ pass'[k].own = pass[k].own
                                       /\ pass'[k].crossFrame = pass[k].crossFrame
                                       /\ pass'[k].acquired = pass[k].acquired
      BY <1>3, CopyEntries
    <2> QED BY <2>2, <2>3, LetsGoOfOwn
  <1>4. ASSUME NEW outcome, Dispatch(outcome) PROVE LetGo
    <2>1. pc = "copied" /\ Slot \in Slots /\ Active(Slot)
      BY <1>4, SlotsInRange DEF Inv, Shape, Dispatch, Active
    <2>2. \A k \in Slots :
             /\ pass'[k].own = IF k = Slot THEN Assigned(pass[k].own, Gives(outcome))
                               ELSE pass[k].own
             /\ pass'[k].crossFrame = pass[k].crossFrame
             /\ pass'[k].acquired = pass[k].acquired
      BY <1>4, DispatchEntries
    <2>3. \A t \in Gives(outcome) : IsSem(t) /\ t[2] = frame
      BY DEF Gives, Sem, Out, IsSem
    <2>4. ASSUME NEW s \in pass[Slot].own, s[2] = frame PROVE s \in pass'[Slot].own
      <3>1. IsSem(s)
        BY <2>1 DEF OwnerInv, Kept
      <3>2. s \in Assigned(pass[Slot].own, Gives(outcome))
        BY <2>3, <2>4, <3>1, AssignedKeeps
      <3> QED BY <2>1, <2>2, <3>2
    <2>5. \A k \in Slots : \A s \in pass[k].own :
             (Active(k) => s[2] = frame) => s \in pass'[k].own
      BY <2>1, <2>2, <2>4
    <2> QED BY <2>2, <2>5, LetsGoOfOwn
  <1>5. CASE ExportFailed
    BY <1>1, <1>5, ConcludeEntries DEF ExportFailed
  <1>6. CASE CompletionTimeout
    BY <1>1, <1>6, ConcludeEntries DEF CompletionTimeout
  <1>7. CASE PresentSource
    BY <1>1, <1>7, ConcludeEntries DEF PresentSource
  <1>8. ASSUME NEW j \in Images, PresentGenerated(j) PROVE LetGo
    <2> DEFINE new == {Out("post", cycle.queued + 1), Out("prev", cycle.queued + 1)}
    <2>1. pc = "sent" /\ Slot \in Slots /\ Active(Slot)
      BY <1>8, SlotsInRange DEF Inv, Shape, PresentGenerated, Active
    <2>2. \A t \in new : IsSem(t) /\ t[2] = frame
      BY DEF Out, IsSem
    <2> HIDE DEF new
    <2>3. \A k \in Slots :
             /\ pass'[k].own = IF k = Slot THEN Assigned(pass[k].own, new)
                               ELSE pass[k].own
             /\ pass'[k].crossFrame = pass[k].crossFrame
             /\ pass[k].acquired \subseteq pass'[k].acquired
      BY <1>8, GeneratedEntries DEF new
    <2>4. ASSUME NEW s \in pass[Slot].own, s[2] = frame PROVE s \in pass'[Slot].own
      <3>1. IsSem(s)
        BY <2>1 DEF OwnerInv, Kept
      <3>2. s \in Assigned(pass[Slot].own, new)
        BY <2>2, <2>4, <3>1, AssignedKeeps
      <3> QED BY <2>1, <2>3, <3>2
    <2>5. \A k \in Slots : \A s \in pass[k].own :
             (Active(k) => s[2] = frame) => s \in pass'[k].own
      BY <2>1, <2>3, <2>4
    <2> QED BY <2>3, <2>5, LetsGoOfOwn
  <1>9. CASE Recreate
    <2>1. InSubmissions = {} /\ InPresents = {}
      BY <1>9 DEF Recreate, InSubmissions, InPresents, Members
    <2> QED BY <2>1 DEF LetGo
  <1> QED BY <1>2, <1>3, <1>4, <1>5, <1>6, <1>7, <1>8, <1>9
             DEF Next, Present, Devices, GpuStep, WsiStep, BackendStep,
                 EnterSourceOnlyBypass, vars

\* When the layer lets go of a semaphore nothing on the game's queue uses it, and
\* no present waits for it if it was taken over from an image: a fence behind the
\* copy into an image vouches for the presents of that image before it
\* (context.cpp:1550-1660, 2120-2140).
THEOREM PassesKeepWhatIsUsed == Spec => PassesLetGoSafely
  <1>1. Init => Inv /\ FenceInv /\ ConsumerInv /\ OwnerInv
    BY InitInv, InitRest, InitFence, InitConsumer, InitOwner DEF FenceInv
  <1>2. Inv /\ FenceInv /\ ConsumerInv /\ OwnerInv /\ [Next]_vars
          => Inv' /\ FenceInv' /\ ConsumerInv' /\ OwnerInv' /\ [LetGo]_owners
    BY Step, FenceStep, ConsumerStep, OwnerStep, LetGoStep DEF FenceInv
  <1> QED BY <1>1, <1>2, PTL DEF Spec, PassesLetGoSafely, LetGo

=============================================================================
