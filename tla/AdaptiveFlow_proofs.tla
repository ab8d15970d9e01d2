------------------------- MODULE AdaptiveFlow_proofs -------------------------
(***************************************************************************)
(* Theorems about AdaptiveFlow, for every preset, every set of time        *)
(* constants that meets the assumptions, and every ring and warm-up.       *)
(***************************************************************************)
EXTENDS AdaptiveFlow, SequenceTheorems, TLAPS

\* EvaluatesItsStep of a controller c.
Coherent(c) ==
    /\ c.down.on   => c.down.prev = c.index - 1
    /\ c.pacing.on => c.pacing.prev = c.index + 1
    /\ ~(c.down.on /\ c.pacing.on)

Sound(c) == c \in Controllers /\ Coherent(c)

\* The time constants are positive, and the assumed ones are in order.
LEMMA Times ==
    /\ States \in Nat /\ States > 0 /\ MaxElapsed \in Nat
    /\ Settle \in Nat /\ Settle > 0 /\ SchedulerHold \in Nat
    /\ Cooldown \in Nat /\ OutputCooldown \in Nat /\ NoBenefitHold \in Nat
    /\ RevertHold \in Nat /\ DownConfirm \in Nat /\ ThermalConfirm \in Nat
    /\ OutputConfirm \in Nat /\ UpConfirm \in Nat /\ UpConfirm > 0
    /\ DownEvaluation \in Nat /\ DownEvaluation > 0 /\ OutputEvaluation \in Nat
    /\ PacingEvaluation \in Nat /\ PacingEvaluation > 0
    /\ RegressionConfirm \in Nat /\ RegressionConfirm > 0
    /\ ThermalConfirm <= DownConfirm /\ OutputConfirm <= DownConfirm
    /\ OutputEvaluation <= DownEvaluation
    /\ OutputCooldown <= Cooldown /\ Cooldown <= NoBenefitHold
BY FlowControllerAssumption DEF Durations

USE Times DEF Indices, Elapsed, Drivers

-----------------------------------------------------------------------------
(* The results of an observation are sound. *)

\* Every count starts at zero.
LEMMA Zeros ==
    /\ 0 \in 0 .. DownConfirm /\ 0 \in 0 .. UpConfirm - 1
    /\ 0 \in 0 .. DownEvaluation - 1 /\ 0 \in 0 .. PacingEvaluation - 1
    /\ 0 \in 0 .. RegressionConfirm - 1 /\ 0 \in Indices
OBVIOUS

\* Every hold starts at its full time.
LEMMA Bounds ==
    /\ Cooldown \in 0 .. NoBenefitHold /\ OutputCooldown \in 0 .. NoBenefitHold
    /\ NoBenefitHold \in 0 .. NoBenefitHold /\ RevertHold \in 0 .. RevertHold
    /\ SchedulerHold \in 0 .. SchedulerHold
OBVIOUS

\* Time that has passed keeps a hold within its bound.
LEMMA LessShrinks ==
    ASSUME NEW x \in Nat, NEW bound \in Nat, x <= bound, NEW dt \in Elapsed
    PROVE  Less(x, dt) \in 0 .. bound
BY DEF Less

\* The passage of time touches neither the scale nor a trial.
LEMMA AgedSound ==
    ASSUME Sound(ctl), NEW dt \in Elapsed
    PROVE  /\ Sound(Aged(dt)) /\ Aged(dt).index = ctl.index
           /\ Aged(dt).down = ctl.down /\ Aged(dt).pacing = ctl.pacing
<1>0. ctl \in Controllers /\ Coherent(ctl)
  BY DEF Sound
<1>1. /\ Less(ctl.settle, dt) \in 0 .. Settle
      /\ Less(ctl.schedHold, dt) \in 0 .. SchedulerHold
      /\ Less(ctl.cooldown, dt) \in 0 .. NoBenefitHold
      /\ Less(ctl.blocked, dt) \in 0 .. RevertHold
  BY <1>0, LessShrinks DEF Controllers
<1>2. Aged(dt) \in Controllers
  BY <1>0, <1>1 DEF Aged, Controllers
<1>3. /\ Aged(dt).index = ctl.index
      /\ Aged(dt).down = ctl.down /\ Aged(dt).pacing = ctl.pacing
  BY <1>0 DEF Aged, Controllers
<1> QED BY <1>0, <1>2, <1>3 DEF Sound, Coherent

\* Forgetting the evidence touches neither the scale nor a trial.
LEMMA NoEvidenceSound ==
    ASSUME NEW c, Sound(c)
    PROVE  Sound(NoEvidence(c)) /\ NoEvidence(c).index = c.index
<1>0. c \in Controllers /\ Coherent(c)
  BY DEF Sound
<1>2. NoEvidence(c) \in Controllers
  BY <1>0, Zeros DEF NoEvidence, Controllers
<1>3. /\ NoEvidence(c).index = c.index
      /\ NoEvidence(c).down = c.down /\ NoEvidence(c).pacing = c.pacing
  BY <1>0 DEF NoEvidence, Controllers
<1> QED BY <1>0, <1>2, <1>3 DEF Sound, Coherent

\* A discontinuity restarts the clocks of the trials and keeps the scale.
LEMMA RestartedSound ==
    ASSUME NEW c, Sound(c)
    PROVE  Sound(Restarted(c)) /\ Restarted(c).index = c.index
<1> DEFINE n == NoEvidence(c)
<1>0. n \in Controllers /\ Coherent(n) /\ n.index = c.index
  BY NoEvidenceSound DEF Sound
<1> HIDE DEF n
<1>1. n.down \in DownEvaluations /\ n.pacing \in PacingEvaluations
  BY <1>0 DEF Controllers
<1> DEFINE d == [n.down EXCEPT !.age = 0, !.benefit = FALSE]
           p == [n.pacing EXCEPT !.age = 0, !.regress = 0]
<1>2. d \in DownEvaluations /\ d.on = n.down.on /\ d.prev = n.down.prev
  BY <1>1, Zeros DEF DownEvaluations
<1>3. p \in PacingEvaluations /\ p.on = n.pacing.on /\ p.prev = n.pacing.prev
  BY <1>1, Zeros DEF PacingEvaluations
<1>4. Restarted(c) = [n EXCEPT !.down = d, !.pacing = p]
  BY <1>0, <1>1 DEF Restarted, n, Controllers
<1> HIDE DEF d, p
<1>5. Restarted(c) \in Controllers
  BY <1>0, <1>2, <1>3, <1>4 DEF Controllers
<1>6. /\ Restarted(c).index = c.index
      /\ Restarted(c).down = d /\ Restarted(c).pacing = p
  BY <1>0, <1>4 DEF Controllers
<1> QED BY <1>0, <1>2, <1>3, <1>5, <1>6 DEF Sound, Coherent

\* Only what an operator changes is looked at: the two trials are not.
Frame(c, d) == d.index = c.index /\ d.down = c.down /\ d.pacing = c.pacing

\* What keeps the scale and the trials keeps them coherent.
LEMMA FrameCoherent ==
    ASSUME NEW c, NEW d, Coherent(c), Frame(c, d)
    PROVE  Coherent(d)
BY DEF Coherent, Frame

\* So does a hold, which is remembered besides.
LEMMA HeldSound ==
    ASSUME NEW c, Sound(c), NEW moving \in BOOLEAN
    PROVE  Sound(Held(c, moving)) /\ Held(c, moving).index = c.index
<1> DEFINE n == Restarted(c)
           s == IF moving THEN Settle ELSE n.settle
<1>0. n \in Controllers /\ Coherent(n) /\ n.index = c.index
  BY RestartedSound DEF Sound
<1>1. Held(c, moving) = [n EXCEPT !.holding = moving, !.settle = s]
  BY <1>0 DEF Held, Controllers
<1> HIDE DEF n
<1>2. s \in 0 .. Settle
  BY <1>0 DEF Controllers
<1> HIDE DEF s
<1>3. Held(c, moving) \in Controllers /\ Frame(n, Held(c, moving))
  BY <1>0, <1>1, <1>2 DEF Controllers, Frame
<1> QED BY <1>0, <1>3, FrameCoherent DEF Sound, Frame

\* The exploration timer touches neither the scale nor a trial.
LEMMA ExploredSound ==
    ASSUME NEW c, Sound(c), NEW fresh \in BOOLEAN, NEW r
    PROVE  Sound(Explored(c, r, fresh)) /\ Frame(c, Explored(c, r, fresh))
<1>0. c \in Controllers /\ Coherent(c)
  BY DEF Sound
<1>1. CASE mode = "adaptive" \/ r.target
  <2>1. Explored(c, r, fresh) = [c EXCEPT !.ref = FALSE, !.probe = FALSE]
    BY <1>1 DEF Explored
  <2> QED BY <1>0, <2>1, FrameCoherent DEF Controllers, Frame, Sound
<1>2. CASE ~(mode = "adaptive" \/ r.target)
  <2> DEFINE explored ==
        [c EXCEPT !.ref = TRUE,
                  !.probe = c.probe \/ ~c.ref \/ r.source = "short"]
  <2>1. Explored(c, r, fresh) \in {explored, c}
    BY <1>2 DEF Explored
  <2>2. (c.probe \/ ~c.ref \/ r.source = "short") \in BOOLEAN
    OBVIOUS
  <2>3. explored \in Controllers /\ Frame(c, explored)
    BY <1>0, <2>2 DEF Controllers, Frame
  <2> QED BY <1>0, <2>1, <2>3, FrameCoherent DEF Sound, Frame
<1> QED BY <1>1, <1>2

\* A raise on trial: it goes back one state, or the trial ends.
LEMMA PacedSound ==
    ASSUME NEW c, Sound(c), c.pacing.on, NEW dt \in Elapsed, NEW regress \in BOOLEAN
    PROVE  Sound(Paced(c, dt, regress))
<1> DEFINE n         == NoEvidence(c)
           regressed == IF regress THEN c.pacing.regress + dt ELSE 0
           age       == c.pacing.age + dt
<1>0. /\ n \in Controllers /\ Coherent(n) /\ n.index = c.index
      /\ n.pacing = c.pacing /\ n.down = c.down
      /\ c \in Controllers /\ Coherent(c)
  BY NoEvidenceSound DEF Sound, NoEvidence, Controllers
<1>1. /\ c.pacing \in PacingEvaluations /\ c.pacing.prev \in Indices
      /\ NoPacing \in PacingEvaluations /\ ~NoPacing.on /\ ~c.down.on
  BY <1>0, Zeros DEF Controllers, PacingEvaluations, NoPacing, Coherent
<1>2. regressed \in Nat /\ age \in Nat
  BY <1>1 DEF PacingEvaluations
<1> HIDE DEF n
<1>3. CASE regressed >= RegressionConfirm
  <2> DEFINE d == [n EXCEPT !.index = c.pacing.prev, !.pacing = NoPacing,
                            !.blocked = RevertHold, !.cooldown = Cooldown]
  <2>1. Paced(c, dt, regress) = d
    BY <1>2, <1>3 DEF Paced, n
  <2>2. d \in Controllers
    BY <1>0, <1>1, Bounds DEF Controllers
  <2>3. d.pacing = NoPacing /\ d.down = c.down
    BY <1>0 DEF Controllers
  <2> QED BY <1>1, <2>1, <2>2, <2>3 DEF Sound, Coherent
<1>4. CASE regressed < RegressionConfirm /\ age < PacingEvaluation
  <2> DEFINE q == [c.pacing EXCEPT !.age = age, !.regress = regressed]
             d == [n EXCEPT !.pacing = q]
  <2>0. Paced(c, dt, regress) =
          [n EXCEPT !.pacing.age = age, !.pacing.regress = regressed]
    BY <1>2, <1>4 DEF Paced, n
  <2> HIDE DEF age, regressed
  <2>1. Paced(c, dt, regress) = d
    BY <1>0, <1>1, <2>0 DEF Controllers, PacingEvaluations
  <2>5. age \in 0 .. PacingEvaluation - 1 /\ regressed \in 0 .. RegressionConfirm - 1
    BY <1>2, <1>4
  <2>2. q \in PacingEvaluations /\ q.on = c.pacing.on /\ q.prev = c.pacing.prev
    BY <1>1, <2>5 DEF PacingEvaluations
  <2>3. d \in Controllers
    BY <1>0, <2>2 DEF Controllers
  <2>4. d.pacing = q /\ d.down = c.down /\ d.index = c.index
    BY <1>0 DEF Controllers
  <2> QED BY <1>0, <2>1, <2>2, <2>3, <2>4 DEF Sound, Coherent
<1>5. CASE regressed < RegressionConfirm /\ ~(age < PacingEvaluation)
  <2> DEFINE d == [n EXCEPT !.pacing = NoPacing]
  <2>1. Paced(c, dt, regress) = d
    BY <1>2, <1>5 DEF Paced, n
  <2>2. d \in Controllers
    BY <1>0, <1>1 DEF Controllers
  <2>3. d.pacing = NoPacing /\ d.down = c.down
    BY <1>0 DEF Controllers
  <2> QED BY <1>1, <2>1, <2>2, <2>3 DEF Sound, Coherent
<1> QED BY <1>2, <1>3, <1>4, <1>5

\* A suppressed observation counts pressure only.
LEMMA SuppressedSound ==
    ASSUME NEW c, Sound(c), NEW dt \in Elapsed, NEW r
    PROVE  Sound(Suppressed(c, dt, r))
<1> DEFINE p == IF r.global THEN Upto(c.pressure + dt, DownConfirm) ELSE 0
<1>0. c \in Controllers /\ Coherent(c)
  BY DEF Sound
<1>1. p \in 0 .. DownConfirm
  BY <1>0 DEF Controllers, Upto
<1>2. Suppressed(c, dt, r) = [c EXCEPT !.headroom = 0, !.pressure = p]
  BY <1>0 DEF Suppressed, Controllers
<1> HIDE DEF p
<1>3. Suppressed(c, dt, r) \in Controllers /\ Frame(c, Suppressed(c, dt, r))
  BY <1>0, <1>1, <1>2, Zeros DEF Controllers, Frame
<1> QED BY <1>0, <1>3, FrameCoherent DEF Sound

\* A lowering on trial: it goes back one state, or the trial ends.
LEMMA EvaluatedSound ==
    ASSUME NEW c, Sound(c), c.down.on, NEW dt \in Elapsed, NEW r,
           NEW benefit \in BOOLEAN
    PROVE  Sound(Evaluated(c, dt, r, benefit))
<1> DEFINE n       == NoEvidence(c)
           age     == c.down.age + dt
           seen    == c.down.benefit \/ benefit \/ TargetRemains(c, r)
           explore == c.down.driver = "explore"
<1>0. /\ n \in Controllers /\ Coherent(n) /\ n.index = c.index
      /\ n.pacing = c.pacing /\ n.down = c.down
      /\ c \in Controllers /\ Coherent(c)
  BY NoEvidenceSound DEF Sound, NoEvidence, Controllers
<1>1. /\ c.down \in DownEvaluations /\ c.down.prev \in Indices
      /\ NoDown \in DownEvaluations /\ ~NoDown.on /\ ~c.pacing.on
  BY <1>0, Zeros DEF Controllers, DownEvaluations, NoDown, Coherent
<1>2. age \in Nat /\ EvaluationTime(c) \in Nat /\ EvaluationTime(c) <= DownEvaluation
  BY <1>1 DEF DownEvaluations, EvaluationTime
<1>3. seen \in BOOLEAN /\ explore \in BOOLEAN
  OBVIOUS
<1>4. CASE age < EvaluationTime(c)
  <2> DEFINE q == [c.down EXCEPT !.age = age, !.benefit = seen]
             d == [n EXCEPT !.down = q]
  <2>0. Evaluated(c, dt, r, benefit) =
          [n EXCEPT !.down.age = age, !.down.benefit = seen]
    BY <1>2, <1>4 DEF Evaluated
  <2>1. age \in 0 .. DownEvaluation - 1
    BY <1>2, <1>4
  <2> HIDE DEF age, seen, n
  <2>2. Evaluated(c, dt, r, benefit) = d
    BY <1>0, <1>1, <2>0 DEF Controllers, DownEvaluations
  <2>3. q \in DownEvaluations /\ q.on = c.down.on /\ q.prev = c.down.prev
    BY <1>1, <1>3, <2>1 DEF DownEvaluations
  <2> HIDE DEF q
  <2>4. d \in Controllers
    BY <1>0, <2>3 DEF Controllers
  <2>5. d.down = q /\ d.pacing = c.pacing /\ d.index = c.index
    BY <1>0 DEF Controllers
  <2> QED BY <1>0, <2>2, <2>3, <2>4, <2>5 DEF Sound, Coherent
<1>5. CASE ~(age < EvaluationTime(c)) /\ seen
  <2> DEFINE ref   == n.ref \/ explore
             probe == IF explore THEN c.index + 1 < States ELSE n.probe
             d     == [n EXCEPT !.down = NoDown, !.ref = ref, !.probe = probe]
  <2>1. Evaluated(c, dt, r, benefit) =
          [n EXCEPT !.down = NoDown, !.ref = @ \/ explore,
                    !.probe = IF explore THEN c.index + 1 < States ELSE @]
    BY <1>2, <1>5 DEF Evaluated
  <2>6. n.probe \in BOOLEAN
    BY <1>0 DEF Controllers
  <2> HIDE DEF n, explore
  <2>7. ref \in BOOLEAN
    OBVIOUS
  <2>8. (c.index + 1 < States) \in BOOLEAN
    OBVIOUS
  <2>2. ref \in BOOLEAN /\ probe \in BOOLEAN
    BY <2>6, <2>7, <2>8, Zenon
  <2>3. Evaluated(c, dt, r, benefit) = d
    BY <2>1
  <2> HIDE DEF ref, probe
  <2>4. d \in Controllers
    BY <1>0, <1>1, <2>2 DEF Controllers
  <2>5. d.down = NoDown /\ d.pacing = c.pacing
    BY <1>0 DEF Controllers
  <2> QED BY <1>1, <2>3, <2>4, <2>5 DEF Sound, Coherent
<1>6. CASE ~(age < EvaluationTime(c)) /\ ~seen
  <2> DEFINE probe == n.probe /\ ~explore
             d == [n EXCEPT !.down = NoDown, !.index = c.down.prev,
                            !.cooldown = NoBenefitHold, !.probe = probe]
  <2>1. Evaluated(c, dt, r, benefit) =
          [n EXCEPT !.down = NoDown, !.index = c.down.prev,
                    !.cooldown = NoBenefitHold, !.probe = @ /\ ~explore]
    BY <1>2, <1>6 DEF Evaluated
  <2>2. probe \in BOOLEAN
    BY <1>0 DEF Controllers
  <2> HIDE DEF n, explore
  <2>3. Evaluated(c, dt, r, benefit) = d
    BY <2>1
  <2> HIDE DEF probe
  <2>4. d \in Controllers
    BY <1>0, <1>1, <2>2, Bounds DEF Controllers
  <2>5. d.down = NoDown /\ d.pacing = c.pacing
    BY <1>0 DEF Controllers
  <2> QED BY <1>1, <2>3, <2>4, <2>5 DEF Sound, Coherent
<1> QED BY <1>4, <1>5, <1>6

\* Pressure lowers the scale by one state, and puts that on trial.
LEMMA PressedSound ==
    ASSUME NEW c, Sound(c), ~c.down.on, ~c.pacing.on, c.index + 1 < States,
           NEW dt \in Elapsed, NEW confirm \in {DownConfirm, ThermalConfirm, OutputConfirm},
           NEW driver \in Drivers, NEW fast \in BOOLEAN
    PROVE  Sound(Pressed(c, dt, confirm, driver, fast))
<1>0. c \in Controllers /\ Coherent(c) /\ c.index \in Indices
  BY DEF Sound, Controllers
<1>1. c.pressure \in Nat /\ confirm \in Nat /\ confirm <= DownConfirm
  BY <1>0 DEF Controllers
<1>2. CASE c.pressure + dt < confirm
  <2> DEFINE d == [c EXCEPT !.pressure = @ + dt, !.headroom = 0]
  <2>1. Pressed(c, dt, confirm, driver, fast) = d
    BY <1>2 DEF Pressed
  <2>2. c.pressure + dt \in 0 .. DownConfirm
    BY <1>1, <1>2
  <2>3. d \in Controllers /\ Frame(c, d)
    BY <1>0, <2>2, Zeros DEF Controllers, Frame
  <2> QED BY <1>0, <2>1, <2>3, FrameCoherent DEF Sound
<1>3. CASE ~(c.pressure + dt < confirm)
  <2> DEFINE n     == NoEvidence(c)
             trial == [on |-> TRUE, prev |-> c.index, age |-> 0,
                       benefit |-> FALSE, driver |-> driver]
             probe == n.probe /\ driver # "explore"
             cool  == IF fast THEN OutputCooldown ELSE Cooldown
             i     == n.index + 1
             d == [n EXCEPT !.index = i, !.down = trial, !.probe = probe,
                            !.cooldown = cool]
  <2>0. /\ n \in Controllers /\ n.index = c.index
        /\ n.pacing = c.pacing /\ n.down = c.down
    BY NoEvidenceSound, <1>0 DEF Sound, NoEvidence, Controllers
  <2>1. Pressed(c, dt, confirm, driver, fast) = d
    BY <1>3 DEF Pressed
  <2> HIDE DEF n
  <2>2. trial \in DownEvaluations
    BY <1>0, Zeros DEF DownEvaluations
  <2>3. trial.on /\ trial.prev = c.index
    OBVIOUS
  <2>4. probe \in BOOLEAN /\ cool \in 0 .. NoBenefitHold
    BY Bounds
  <2>5. i \in Indices /\ c.index = i - 1
    BY <1>0, <2>0
  <2> HIDE DEF trial, probe, cool, i
  <2>6. d \in Controllers
    BY <2>0, <2>2, <2>4, <2>5 DEF Controllers
  <2>7. d.index = i /\ d.down = trial /\ d.pacing = c.pacing
    BY <2>0 DEF Controllers
  <2> QED BY <2>1, <2>3, <2>5, <2>6, <2>7 DEF Sound, Coherent
<1> QED BY <1>2, <1>3

\* Headroom raises the scale by one state, and puts that on trial.
LEMMA RelievedSound ==
    ASSUME NEW c, Sound(c), ~c.down.on, ~c.pacing.on, c.index > 0,
           NEW dt \in Elapsed, NEW r
    PROVE  Sound(Relieved(c, dt, r))
<1>0. c \in Controllers /\ Coherent(c) /\ c.index \in Indices
  BY DEF Sound, Controllers
<1>1. c.headroom \in Nat
  BY <1>0 DEF Controllers
<1>2. CASE c.headroom + dt < UpConfirm
  <2> DEFINE d == [c EXCEPT !.pressure = 0, !.headroom = @ + dt]
  <2>1. Relieved(c, dt, r) = d
    BY <1>2 DEF Relieved
  <2>2. c.headroom + dt \in 0 .. UpConfirm - 1
    BY <1>1, <1>2
  <2>3. d \in Controllers /\ Frame(c, d)
    BY <1>0, <2>2, Zeros DEF Controllers, Frame
  <2> QED BY <1>0, <2>1, <2>3, FrameCoherent DEF Sound
<1>3. CASE ~(c.headroom + dt < UpConfirm)
  <2> DEFINE n     == NoEvidence(c)
             trial == [on |-> TRUE, prev |-> c.index, age |-> 0, regress |-> 0]
             pac   == IF mode = "adaptive" /\ r.source # "unknown"
                      THEN trial ELSE n.pacing
             probe == n.probe /\ ~(mode = "fixed" /\ ~r.target)
             i     == n.index - 1
             d == [n EXCEPT !.index = i, !.pacing = pac, !.probe = probe,
                            !.cooldown = Cooldown]
  <2>0. /\ n \in Controllers /\ n.index = c.index
        /\ n.pacing = c.pacing /\ n.down = c.down
    BY NoEvidenceSound, <1>0 DEF Sound, NoEvidence, Controllers
  <2>1. Relieved(c, dt, r) = d
    BY <1>3 DEF Relieved
  <2> HIDE DEF n
  <2>2. trial \in PacingEvaluations /\ trial.prev = c.index
    BY <1>0, Zeros DEF PacingEvaluations
  <2>3. /\ pac \in PacingEvaluations
        /\ pac.on => pac.prev = c.index
    BY <2>0, <2>2 DEF Controllers
  <2>4. probe \in BOOLEAN
    OBVIOUS
  <2>5. i \in Indices /\ c.index = i + 1
    BY <1>0, <2>0
  <2> HIDE DEF trial, pac, probe, i
  <2>6. d \in Controllers
    BY <2>0, <2>3, <2>4, <2>5, Bounds DEF Controllers
  <2>7. d.index = i /\ d.down = c.down /\ d.pacing = pac
    BY <2>0 DEF Controllers
  <2> QED BY <2>1, <2>3, <2>5, <2>6, <2>7 DEF Sound, Coherent
<1> QED BY <1>2, <1>3

-----------------------------------------------------------------------------
(* An observation as a whole. *)

\* Pressure, headroom or neither, when no trial is under way.
LEMMA SteadySound ==
    ASSUME NEW c, Sound(c), ~c.down.on, ~c.pacing.on, NEW dt \in Elapsed,
           NEW fresh \in BOOLEAN, NEW r, r.output \in BOOLEAN,
           Steady(c, dt, fresh, r)
    PROVE  Sound(ctl')
<1>0. c \in Controllers /\ c.index \in Indices
  BY DEF Sound, Controllers
<1>1. \/ ctl' = NoEvidence(c)
      \/ c.index > 0 /\ ctl' = Relieved(c, dt, r)
      \/ /\ c.index + 1 < States
         /\ \E t \in {DownConfirm, ThermalConfirm, OutputConfirm}, d \in Drivers,
               fast \in BOOLEAN : ctl' = Pressed(c, dt, t, d, fast)
  <2> DEFINE explore  == Explores(c, r, fresh)
             target   == r.output \/ SourceShort(r)
             fast     == target \/ explore
             pressure == r.compute \/ fast
             driver   == CASE r.output           -> {"output", "outputWsi"}
                           [] SourceShort(r)     -> {"source"}
                           [] explore /\ ~target -> {"explore"}
                           [] OTHER              -> {"other"}
             confirm  == IF fast THEN {OutputConfirm} ELSE {DownConfirm, ThermalConfirm}
  <2>1. fast \in BOOLEAN
    OBVIOUS
  <2>2. \A t \in confirm : t \in {DownConfirm, ThermalConfirm, OutputConfirm}
    OBVIOUS
  <2>3. CASE pressure /\ c.index + 1 < States
    <3>1. \/ ctl' = NoEvidence(c)
          \/ \E d \in driver, t \in confirm : ctl' = Pressed(c, dt, t, d, fast)
      BY <2>3 DEF Steady
    <3>2. \A d \in driver : d \in Drivers
      OBVIOUS
    <3> QED BY <2>1, <2>2, <2>3, <3>1, <3>2
  <2>4. CASE ~(pressure /\ c.index + 1 < States)
    BY <2>4 DEF Steady, CanRecover
  <2> QED BY <2>3, <2>4
<1>2. CASE ctl' = NoEvidence(c)
  BY <1>2, NoEvidenceSound
<1>3. CASE c.index > 0 /\ ctl' = Relieved(c, dt, r)
  BY <1>3, RelievedSound
<1>4. CASE /\ c.index + 1 < States
           /\ \E t \in {DownConfirm, ThermalConfirm, OutputConfirm}, d \in Drivers,
                 fast \in BOOLEAN : ctl' = Pressed(c, dt, t, d, fast)
  BY <1>4, PressedSound
<1> QED BY <1>1, <1>2, <1>3, <1>4

\* One observation with evidence.
LEMMA JudgeSound ==
    ASSUME NEW c, Sound(c), ~c.pacing.on, NEW dt \in Elapsed,
           NEW fresh \in BOOLEAN, NEW r, r.output \in BOOLEAN,
           Judge(c, dt, fresh, r)
    PROVE  Sound(ctl')
<1>0. c \in Controllers /\ Coherent(c)
  BY DEF Sound
<1> DEFINE held == [c EXCEPT !.schedHold = SchedulerHold, !.headroom = 0]
<1>1. Sound(held) /\ Frame(c, held)
  <2>1. held \in Controllers /\ Frame(c, held)
    BY <1>0, Zeros, Bounds DEF Controllers, Frame
  <2> QED BY <1>0, <2>1, FrameCoherent DEF Sound
<1>2. PICK transition \in BOOLEAN :
        LET d == IF transition THEN held ELSE c
            suppressed == d.schedHold > 0 /\ ~r.severe
        IN
        \/ suppressed /\ ctl' = Suppressed(d, dt, r)
        \/ /\ ~suppressed /\ d.down.on
           /\ \E benefit \in BOOLEAN :
                ctl' = Evaluated(d, IF transition THEN 0 ELSE dt, r, benefit)
        \/ ~suppressed /\ ~d.down.on /\ d.cooldown > 0 /\ ctl' = NoEvidence(d)
        \/ ~suppressed /\ ~d.down.on /\ d.cooldown = 0 /\ Steady(d, dt, fresh, r)
  BY DEF Judge
<1> DEFINE d == IF transition THEN held ELSE c
           e == IF transition THEN 0 ELSE dt
<1>3. Sound(d) /\ ~d.pacing.on /\ e \in Elapsed
  BY <1>1 DEF Frame
<1> HIDE DEF held
<1>4. \/ ctl' = Suppressed(d, dt, r)
      \/ d.down.on /\ \E benefit \in BOOLEAN : ctl' = Evaluated(d, e, r, benefit)
      \/ ctl' = NoEvidence(d)
      \/ ~d.down.on /\ Steady(d, dt, fresh, r)
  BY <1>2
<1> HIDE DEF d, e
<1> QED BY <1>3, <1>4, SuppressedSound, EvaluatedSound, NoEvidenceSound, SteadySound

\* What is observed leaves the controller sound.
LEMMA ObserveSound ==
    ASSUME Sound(ctl), NEW dt \in Elapsed, NEW moving \in BOOLEAN,
           NEW fresh \in BOOLEAN, NEW usable \in BOOLEAN,
           Observe(dt, moving, fresh, usable)
    PROVE  Sound(ctl')
<1> DEFINE c == Aged(dt)
<1>1. Sound(c)
  BY AgedSound
<1>2. \/ ctl' = Held(c, moving)
      \/ ctl' = Restarted(c)
      \/ ctl' = NoEvidence(c)
      \/ c.pacing.on /\ \E regress \in BOOLEAN : ctl' = Paced(c, dt, regress)
      \/ /\ ~c.pacing.on
         /\ \E r \in Readings(fresh) : Judge(Explored(c, r, fresh), dt, fresh, r)
  BY DEF Observe
<1> HIDE DEF c
<1>3. CASE /\ ~c.pacing.on
           /\ \E r \in Readings(fresh) : Judge(Explored(c, r, fresh), dt, fresh, r)
  <2>1. PICK r \in Readings(fresh) : Judge(Explored(c, r, fresh), dt, fresh, r)
    BY <1>3
  <2>2. r.output \in BOOLEAN
    BY DEF Readings
  <2>3. Sound(Explored(c, r, fresh)) /\ ~Explored(c, r, fresh).pacing.on
    BY <1>1, <1>3, ExploredSound DEF Frame
  <2> QED BY <2>1, <2>2, <2>3, JudgeSound
<1> QED BY <1>1, <1>2, <1>3, HeldSound, RestartedSound, NoEvidenceSound, PacedSound

\* Without a usable timing no other scale is selected.
LEMMA ObserveBlind ==
    ASSUME Sound(ctl), NEW dt \in Elapsed, NEW moving \in BOOLEAN,
           NEW fresh, Observe(dt, moving, fresh, FALSE)
    PROVE  ctl'.index = ctl.index
<1>1. Sound(Aged(dt)) /\ Aged(dt).index = ctl.index
  BY AgedSound
<1>2. \/ ctl' = Held(Aged(dt), moving)
      \/ ctl' = Restarted(Aged(dt))
      \/ ctl' = NoEvidence(Aged(dt))
  BY DEF Observe
<1> QED BY <1>1, <1>2, HeldSound, RestartedSound, NoEvidenceSound

\* A reset controller has no trial.
LEMMA ResetSound == \A i \in Indices : Sound(ResetTo(i))
<1> SUFFICES ASSUME NEW i \in Indices PROVE Sound(ResetTo(i))
  OBVIOUS
<1>1. NoDown \in DownEvaluations /\ NoPacing \in PacingEvaluations
  BY Zeros DEF NoDown, NoPacing, DownEvaluations, PacingEvaluations
<1>2. /\ 0 \in 0 .. Settle /\ 0 \in 0 .. SchedulerHold
      /\ 0 \in 0 .. NoBenefitHold /\ 0 \in 0 .. RevertHold
  OBVIOUS
<1>3. ResetTo(i) \in Controllers
  BY <1>1, <1>2, Zeros DEF ResetTo, Controllers
<1>4. ~ResetTo(i).down.on /\ ~ResetTo(i).pacing.on
  BY DEF ResetTo, NoDown, NoPacing
<1> QED BY <1>3, <1>4 DEF Sound, Coherent

-----------------------------------------------------------------------------
(* The inductive invariant.  A step while the backend has a graph pending    *)
(* needs a usable timing; the only present whose governor can see a pending  *)
(* graph is one that dispatched nothing, the warm-up of protected Adreno,    *)
(* and in a warm-up there is no timing.                                      *)

SentIsBlind == pc = "sent" /\ graph.pending # None => Blind

IInv == TypeOK /\ EvaluatesItsStep /\ WarmIsBlind /\ SentIsBlind

USE AdaptiveFlowAssumption DEF None, Stale, Samples

\* A request names one of the scales.
LEMMA RequestedType ==
    ASSUME NEW g \in Graphs, NEW i \in Indices
    PROVE  Requested(g, i) \in Graphs
BY DEF Requested, Graphs

\* So does what is reported of a graph.
LEMMA StateOfType ==
    ASSUME NEW g \in Graphs
    PROVE  StateOf(g) \in Caches
BY DEF StateOf, Transition, Graphs, Caches

\* After a submission no graph is pending.
LEMMA CommittedType ==
    ASSUME NEW g \in Graphs
    PROVE  Committed(g) \in Graphs /\ Committed(g).pending = None
BY DEF Committed, Transition, Graphs

\* A seed is only requested, and nothing was measured.
LEMMA InitInv == Init => IInv
<1> SUFFICES ASSUME Init PROVE IInv
  OBVIOUS
<1>1. PICK seed \in Indices :
         /\ ctl = ResetTo(seed)
         /\ graph = Requested([requested |-> 0, active |-> 0, pending |-> None], seed)
         /\ cache = [StateOf(graph) EXCEPT !.requested = seed]
         /\ seedPending = (seed # 0)
         /\ handoff = (seed # 0)
  BY DEF Init
<1>2. graph \in Graphs
  <2>1. [requested |-> 0, active |-> 0, pending |-> None] \in Graphs
    BY Zeros DEF Graphs
  <2> QED BY <1>1, <2>1, RequestedType
<1>3. cache \in Caches
  <2>1. StateOf(graph) \in Caches
    BY <1>2, StateOfType
  <2> QED BY <1>1, <2>1 DEF Caches
<1>4. ctl \in Controllers /\ Coherent(ctl)
  BY <1>1, ResetSound DEF Sound
<1>5. inflight \in Seq(Samples) /\ Len(inflight) = 0
  BY DEF Init
<1>6. cycle \in Cycles
  BY DEF Init, NoCycle, Cycles
<1>7. warmup \in 0 .. Warmup
  <2>1. warmup = 0 \/ warmup = Warmup
    BY DEF Init
  <2>2. warmup \in 0 .. Warmup
    BY <2>1
  <2> QED BY <2>2
<1>8. seedPending \in BOOLEAN /\ handoff \in BOOLEAN
  BY <1>1
<1>9. TypeOK
  BY <1>2, <1>3, <1>4, <1>5, <1>6, <1>7, <1>8 DEF Init, TypeOK
<1>10. WarmIsBlind /\ SentIsBlind
  BY DEF Init, WarmIsBlind, SentIsBlind, Blind
<1> QED BY <1>4, <1>9, <1>10 DEF IInv, EvaluatesItsStep, Coherent

\* What a reset leaves behind.
StartedOver ==
    /\ Sound(ctl) /\ cache \in Caches /\ handoff \in BOOLEAN
    /\ retained = None /\ timing \in {None, Stale}
    /\ inflight \in Seq({None, Stale})

\* Starting over leaves no timing that counts.
LEMMA StartOverOK ==
    ASSUME TypeOK, NEW i \in Indices, StartOver(i)
    PROVE  StartedOver' /\ Len(inflight') = Len(inflight)
<1>1. Sound(ctl')
  BY ResetSound DEF StartOver
<1>2. cache' \in Caches /\ handoff' \in BOOLEAN
  BY DEF StartOver, Caches
<1>3. retained' = None /\ timing' \in {None, Stale}
  BY DEF StartOver, NewTimingEpoch, Outdated
<1>4. /\ inflight \in Seq(Samples)
      /\ inflight' = [k \in 1 .. Len(inflight) |-> Outdated(inflight[k])]
  BY DEF TypeOK, StartOver, NewTimingEpoch
<1>5. \A k \in 1 .. Len(inflight) : Outdated(inflight[k]) \in {None, Stale}
  BY DEF Outdated
<1>6. inflight' \in Seq({None, Stale}) /\ Len(inflight') = Len(inflight)
  BY <1>4, <1>5
<1> QED BY <1>1, <1>2, <1>3, <1>6 DEF StartedOver

\* So does a reset of the epoch, which may also take a request back.
LEMMA ResetEpochOK ==
    ASSUME TypeOK, NEW reason, ResetEpoch(reason)
    PROVE  /\ StartedOver' /\ Len(inflight') = Len(inflight)
           /\ graph' \in Graphs
<1> DEFINE i == IF KeepsScale(reason) THEN cache.active ELSE 0
<1>1. cache.active \in Indices
  BY DEF TypeOK, Caches
<1>2. i \in Indices
  BY <1>1, Zeros
<1>3. StartOver(i)
  BY DEF ResetEpoch
<1>4. graph' \in Graphs
  BY <1>1, RequestedType DEF ResetEpoch, TypeOK
<1> HIDE DEF i
<1> QED BY <1>2, <1>3, <1>4, StartOverOK

\* A warm-up is no longer than the full one.
LEMMA ResetWarmupOK == ResetWarmup \in 0 .. Warmup
BY DEF ResetWarmup

\* Outdated reports are reports.
LEMMA SeqWider == Seq({None, Stale}) \subseteq Seq(Samples)
OBVIOUS

\* After a reset the invariant needs no more than the types of the rest.
LEMMA StartedOverInv ==
    ASSUME StartedOver', graph' \in Graphs,
           mode' \in Modes /\ device' \in Devices,
           pc' \in {"idle", "begun", "sent", "governed"},
           cycle' \in Cycles, warmup' \in 0 .. Warmup, sceneOnly' \in 0 .. 2,
           seedPending' \in BOOLEAN,
           Len(inflight') <= Ring, sure' \in 0 .. Len(inflight')
    PROVE  IInv'
<1>1. \A i \in DOMAIN inflight' : inflight'[i] \in {None, Stale}
  BY DEF StartedOver
<1>2. Blind' /\ WarmIsBlind'
  BY <1>1 DEF StartedOver, Blind, WarmIsBlind
<1>3. inflight' \in Seq(Samples)
  BY SeqWider DEF StartedOver
<1>4. retained' \in Indices \cup {None} /\ timing' \in Samples
  BY DEF StartedOver
<1>5. ctl' \in Controllers /\ Coherent(ctl)'
  BY DEF StartedOver, Sound
<1>6. TypeOK'
  BY <1>3, <1>4, <1>5 DEF TypeOK, StartedOver
<1>7. EvaluatesItsStep'
  BY <1>5 DEF EvaluatesItsStep, Coherent
<1> QED BY <1>2, <1>6, <1>7 DEF IInv, SentIsBlind

\* A bypass starts over.
LEMMA BypassInv == IInv /\ EnterSourceOnlyBypass => IInv'
<1> SUFFICES ASSUME IInv, EnterSourceOnlyBypass PROVE IInv'
  OBVIOUS
<1>1. StartedOver' /\ Len(inflight') = Len(inflight)
  BY StartOverOK, Zeros DEF IInv, EnterSourceOnlyBypass
<1>2. /\ graph' \in Graphs /\ mode' \in Modes /\ device' \in Devices
      /\ pc' \in {"idle", "begun", "sent", "governed"}
      /\ cycle' \in Cycles /\ warmup' \in 0 .. Warmup /\ sceneOnly' \in 0 .. 2
      /\ seedPending' \in BOOLEAN
      /\ Len(inflight') <= Ring /\ sure' \in 0 .. Len(inflight')
  BY <1>1, ResetWarmupOK DEF IInv, TypeOK, EnterSourceOnlyBypass
<1> QED BY <1>1, <1>2, StartedOverInv

\* A busy ring starts a new epoch.
LEMMA RingBusyInv == IInv /\ RingBusy => IInv'
<1> SUFFICES ASSUME IInv, RingBusy PROVE IInv'
  OBVIOUS
<1>1. /\ StartedOver' /\ Len(inflight') = Len(inflight)
      /\ graph' \in Graphs
  BY ResetEpochOK DEF IInv, RingBusy
<1>2. /\ mode' \in Modes /\ device' \in Devices
      /\ pc' \in {"idle", "begun", "sent", "governed"}
      /\ cycle' \in Cycles /\ warmup' \in 0 .. Warmup /\ sceneOnly' \in 0 .. 2
      /\ seedPending' \in BOOLEAN
      /\ Len(inflight') <= Ring /\ sure' \in 0 .. Len(inflight')
  BY <1>1, ResetWarmupOK DEF IInv, TypeOK, RingBusy
<1> QED BY <1>1, <1>2, StartedOverInv

\* A new configuration or a break starts one too; otherwise nothing is touched.
LEMMA BeginInv == IInv /\ Begin => IInv'
<1> SUFFICES ASSUME IInv, Begin PROVE IInv'
  OBVIOUS
<1>0. TypeOK
  BY DEF IInv
<1>1. PICK config \in BOOLEAN, broken \in BOOLEAN :
         /\ mode' \in IF config THEN Modes ELSE {mode}
         /\ IF config \/ broken
            THEN /\ ResetEpoch(IF config THEN "config" ELSE "timeline")
                 /\ warmup' = IF device = "adreno" /\ broken THEN 0 ELSE ResetWarmup
                 /\ sceneOnly' = IF device = "adreno" /\ broken THEN 2 ELSE 0
            ELSE UNCHANGED <<ctl, cache, handoff, retained, graph, timing, inflight,
                             history>>
         /\ cycle' = [NoCycle EXCEPT !.seed = SeedCycle(config),
                                     !.broken = broken]
  BY DEF Begin
<1>2. SeedCycle(config) \in BOOLEAN
  BY DEF SeedCycle
<1>3. cycle' \in Cycles
  <2> DEFINE seed == SeedCycle(config)
  <2> HIDE DEF seed
  <2>1. seed \in BOOLEAN
    BY <1>2 DEF seed
  <2>2. cycle' = [NoCycle EXCEPT !.seed = seed, !.broken = broken]
    BY <1>1 DEF seed
  <2> QED BY <2>1, <2>2 DEF NoCycle, Cycles
<1>4. mode' \in Modes
  BY <1>0, <1>1 DEF TypeOK
<1>5. /\ device' \in Devices /\ pc' = "begun"
      /\ seedPending' \in BOOLEAN /\ sure' = sure
  BY <1>0 DEF TypeOK, Begin
<1>6. CASE config \/ broken
  <2>1. /\ ResetEpoch(IF config THEN "config" ELSE "timeline")
        /\ warmup' \in 0 .. Warmup /\ sceneOnly' \in 0 .. 2
    BY <1>1, <1>6, ResetWarmupOK
  <2>2. /\ StartedOver' /\ Len(inflight') = Len(inflight)
        /\ graph' \in Graphs
    BY <1>0, <2>1, ResetEpochOK
  <2>3. Len(inflight') <= Ring /\ sure' \in 0 .. Len(inflight')
    BY <1>0, <1>5, <2>2 DEF TypeOK
  <2> QED BY <1>3, <1>4, <1>5, <2>1, <2>2, <2>3, StartedOverInv
<1>7. CASE ~(config \/ broken)
  <2>1. UNCHANGED <<ctl, cache, handoff, retained, graph, timing, inflight,
                    warmup, sceneOnly>>
    BY <1>1, <1>7 DEF history
  <2>2. TypeOK'
    BY <1>0, <1>3, <1>4, <1>5, <2>1 DEF TypeOK
  <2>3. EvaluatesItsStep' /\ WarmIsBlind' /\ SentIsBlind'
    BY <1>5, <2>1 DEF IInv, EvaluatesItsStep, WarmIsBlind, SentIsBlind, Blind
  <2> QED BY <2>2, <2>3 DEF IInv
<1> QED BY <1>6, <1>7

\* The warm-up dispatches nothing, and is blind.
LEMMA AdrenoWarmupInv == IInv /\ AdrenoWarmup => IInv'
<1> SUFFICES ASSUME IInv, AdrenoWarmup PROVE IInv'
  OBVIOUS
<1>1. cycle' \in Cycles
  BY DEF IInv, TypeOK, AdrenoWarmup, Cycles, Caches
<1>2. TypeOK'
  BY <1>1 DEF IInv, TypeOK, AdrenoWarmup, wrapper, samples
<1>3. warmup > 0 /\ warmup' = 0
  BY DEF AdrenoWarmup
<1>4. EvaluatesItsStep' /\ WarmIsBlind'
  BY <1>3 DEF IInv, EvaluatesItsStep, WarmIsBlind, AdrenoWarmup
<1>5. SentIsBlind'
  BY <1>3 DEF IInv, WarmIsBlind, SentIsBlind, Blind, AdrenoWarmup, wrapper, samples
<1> QED BY <1>2, <1>4, <1>5 DEF IInv

\* A timing that is found is the old one, none, or one of the ring.
LEMMA TimingsOfRing ==
    ASSUME inflight \in Seq(Samples), timing \in Samples,
           NEW k \in 0 .. Len(inflight), NEW t \in Timings(k)
    PROVE  t \in {timing, None} \/ \E i \in DOMAIN inflight : t = inflight[i]
BY DEF Timings, Newest

\* The batches in flight after k were found complete and one was submitted.
Rest(k, report) == Append(SubSeq(inflight, k + 1, Len(inflight)), report)

\* The reports of those not found complete are old ones.
LEMMA LeftOfRing ==
    ASSUME inflight \in Seq(Samples), NEW k \in 0 .. Len(inflight)
    PROVE  \A i \in DOMAIN SubSeq(inflight, k + 1, Len(inflight)) :
             \E j \in DOMAIN inflight :
                SubSeq(inflight, k + 1, Len(inflight))[i] = inflight[j]
<1> DEFINE left == SubSeq(inflight, k + 1, Len(inflight))
<1>1. left \in Seq(Samples) /\ Len(left) = Len(inflight) - k
  OBVIOUS
<1>2. SUFFICES ASSUME NEW i \in 1 .. Len(left)
               PROVE  left[i] = inflight[k + i] /\ k + i \in DOMAIN inflight
  BY <1>1
<1>3. /\ k + 1 \in 1 .. Len(inflight) + 1
      /\ Len(inflight) \in k + 1 - 1 .. Len(inflight)
      /\ i \in 1 .. Len(inflight) - (k + 1) + 1
  BY <1>1
<1>4. left[i] = inflight[k + 1 + i - 1]
  BY <1>3, SubSeqProperties
<1>5. k + 1 + i - 1 = k + i /\ k + i \in 1 .. Len(inflight)
  BY <1>1
<1> QED BY <1>4, <1>5

\* The reports left after a submission are the new one and old ones.
LEMMA RestOfRing ==
    ASSUME inflight \in Seq(Samples), NEW k \in 0 .. Len(inflight), NEW report \in Samples
    PROVE  /\ Rest(k, report) \in Seq(Samples)
           /\ Len(Rest(k, report)) = Len(inflight) - k + 1
           /\ \A i \in DOMAIN Rest(k, report) :
                \/ Rest(k, report)[i] = report
                \/ \E j \in DOMAIN inflight : Rest(k, report)[i] = inflight[j]
<1> DEFINE left == SubSeq(inflight, k + 1, Len(inflight))
<1>1. left \in Seq(Samples) /\ Len(left) = Len(inflight) - k
  OBVIOUS
<1>2. \A i \in DOMAIN left : \E j \in DOMAIN inflight : left[i] = inflight[j]
  BY LeftOfRing
<1> HIDE DEF left
<1>3. Append(left, report) \in Seq(Samples) /\ Len(Append(left, report)) = Len(left) + 1
  BY <1>1
<1>4. \A i \in DOMAIN Append(left, report) :
        \/ Append(left, report)[i] = report
        \/ i \in 1 .. Len(left) /\ Append(left, report)[i] = left[i]
  BY <1>1
<1>5. \A i \in DOMAIN Append(left, report) :
        \/ Append(left, report)[i] = report
        \/ \E j \in DOMAIN inflight : Append(left, report)[i] = inflight[j]
  BY <1>2, <1>4
<1> QED BY <1>1, <1>3, <1>5 DEF left, Rest

\* A dispatch in the warm-up reports nothing, and every dispatch commits the graph.
LEMMA DispatchInv == \A gen \in BOOLEAN : IInv /\ Dispatch(gen) => IInv'
<1> SUFFICES ASSUME NEW gen \in BOOLEAN, IInv, Dispatch(gen) PROVE IInv'
  OBVIOUS
<1>0. TypeOK /\ WarmIsBlind
  BY DEF IInv
<1>1. PICK k \in Seen :
         \/ /\ timing' \in Timings(k)
            /\ inflight' = Rest(k, Report(gen)) /\ sure' = 0
         \/ /\ gen
            /\ timing' = Report(gen) /\ inflight' = <<>> /\ sure' = 0
         \/ /\ timing' \in (IF gen THEN {None} ELSE Timings(k))
            /\ inflight' = SubSeq(inflight, k + 1, Len(inflight))
            /\ sure' = Len(inflight')
  <2>1. PICK k \in Seen :
          LET left == SubSeq(inflight, k + 1, Len(inflight)) IN
          \/ /\ timing' \in Timings(k)
             /\ inflight' = Append(left, Report(gen)) /\ sure' = 0
          \/ /\ gen
             /\ timing' = Report(gen) /\ inflight' = <<>> /\ sure' = 0
          \/ /\ timing' \in (IF gen THEN {None} ELSE Timings(k))
             /\ inflight' = left /\ sure' = Len(left)
    BY DEF Dispatch
  <2> QED BY <2>1 DEF Rest
<1>2. /\ inflight \in Seq(Samples) /\ timing \in Samples /\ graph \in Graphs
      /\ k \in 0 .. Len(inflight) /\ Len(inflight) - k < Ring
  BY <1>0 DEF TypeOK, Seen
<1>3. Report(gen) \in Samples /\ (~gen => Report(gen) = None)
  BY <1>2 DEF Report, Graphs
<1>4. warmup > 0 => ~gen
  BY DEF Dispatch, MayGenerate
<1>5. /\ timing' \in Samples /\ inflight' \in Seq(Samples)
      /\ Len(inflight') <= Ring /\ sure' \in 0 .. Len(inflight')
  <2>1. \A t \in Timings(k) : t \in Samples
    BY <1>2, TimingsOfRing
  <2>2. CASE /\ timing' \in Timings(k)
             /\ inflight' = Rest(k, Report(gen)) /\ sure' = 0
    <3>1. /\ inflight' \in Seq(Samples)
          /\ Len(inflight') = Len(inflight) - k + 1
      BY <1>2, <1>3, <2>2, RestOfRing
    <3>2. Len(inflight) \in Nat /\ Ring \in Nat
      BY <1>2
    <3>3. Len(inflight') <= Ring /\ sure' \in 0 .. Len(inflight')
      BY <1>2, <2>2, <3>1, <3>2
    <3> QED BY <2>1, <2>2, <3>1, <3>3
  <2>3. CASE timing' = Report(gen) /\ inflight' = <<>> /\ sure' = 0
    BY <1>3, <2>3
  <2>4. CASE /\ timing' \in (IF gen THEN {None} ELSE Timings(k))
             /\ inflight' = SubSeq(inflight, k + 1, Len(inflight))
             /\ sure' = Len(inflight')
    <3>1. timing' \in Samples
      BY <2>1, <2>4 DEF Samples
    <3>2. inflight' \in Seq(Samples) /\ Len(inflight') = Len(inflight) - k
      BY <1>2, <2>4
    <3>3. Len(inflight) \in Nat /\ Ring \in Nat
      BY <1>2
    <3> QED BY <1>2, <2>4, <3>1, <3>2, <3>3
  <2> QED BY <1>1, <2>2, <2>3, <2>4
<1>6. warmup > 0 => /\ timing' \notin Indices
                    /\ \A i \in DOMAIN inflight' : inflight'[i] \notin Indices
  <2> SUFFICES ASSUME warmup > 0
               PROVE  /\ timing' \notin Indices
                      /\ \A i \in DOMAIN inflight' : inflight'[i] \notin Indices
    OBVIOUS
  <2>1. /\ timing \notin Indices
        /\ \A i \in DOMAIN inflight : inflight[i] \notin Indices
    BY <1>0 DEF WarmIsBlind, Blind
  <2>2. ~gen /\ Report(gen) = None
    BY <1>3, <1>4
  <2>3. timing' \notin Indices
    BY <1>1, <1>2, <2>1, <2>2, TimingsOfRing
  <2>4. \A i \in DOMAIN inflight' : inflight'[i] \notin Indices
    <3>1. CASE inflight' = Rest(k, Report(gen))
      <4>1. \A i \in DOMAIN inflight' :
              \/ inflight'[i] = None
              \/ \E j \in DOMAIN inflight : inflight'[i] = inflight[j]
        BY <1>2, <1>3, <2>2, <3>1, RestOfRing
      <4> QED BY <2>1, <4>1 DEF Indices
    <3>2. CASE inflight' = SubSeq(inflight, k + 1, Len(inflight))
      BY <1>2, <2>1, <3>2, LeftOfRing
    <3> QED BY <1>1, <2>2, <3>1, <3>2
  <2> QED BY <2>3, <2>4
<1>7. graph' \in Graphs /\ graph'.pending = None
  BY <1>2, CommittedType DEF Dispatch
<1>8. cycle' \in Cycles
  BY <1>0 DEF TypeOK, Dispatch, Cycles, Caches
<1>9. /\ pc' = "sent"
      /\ UNCHANGED <<mode, ctl, device, warmup, sceneOnly, seedPending,
                     cache, handoff, retained>>
  BY DEF Dispatch, history, wrapper
<1>10. TypeOK'
  BY <1>0, <1>5, <1>7, <1>8, <1>9 DEF TypeOK
<1>11. EvaluatesItsStep'
  BY <1>9 DEF IInv, EvaluatesItsStep
<1>12. WarmIsBlind'
  BY <1>0, <1>6, <1>9 DEF WarmIsBlind, Blind
<1> QED BY <1>7, <1>10, <1>11, <1>12 DEF IInv, SentIsBlind

\* The governor judges what the controller may judge.
LEMMA GovernObserves ==
    ASSUME IInv, Govern
    PROVE  /\ Sound(ctl) /\ Sound(ctl')
           /\ Moving \in BOOLEAN /\ WorkSample \in BOOLEAN /\ Usable \in BOOLEAN
           /\ \E dt \in Elapsed : Observe(dt, Moving, WorkSample, Usable)
<1>1. Moving \in BOOLEAN /\ WorkSample \in BOOLEAN /\ Usable \in BOOLEAN
  <2>1. cache.pending \in BOOLEAN /\ handoff \in BOOLEAN
    BY DEF IInv, TypeOK, Caches
  <2> QED BY <2>1, Zenon DEF Moving, WorkSample, Usable
<1>2. Sound(ctl)
  BY DEF IInv, TypeOK, EvaluatesItsStep, Sound, Coherent
<1>3. PICK dt \in Elapsed : Observe(dt, Moving, WorkSample, Usable)
  BY DEF Govern
<1>4. Sound(ctl')
  BY <1>1, <1>2, <1>3, ObserveSound
<1> QED BY <1>1, <1>2, <1>3, <1>4

\* The governor observes, and keeps what it judged by.
LEMMA GovernInv == IInv /\ Govern => IInv'
<1> SUFFICES ASSUME IInv, Govern PROVE IInv'
  OBVIOUS
<1>0. TypeOK /\ WarmIsBlind
  BY DEF IInv
<1>1. ctl' \in Controllers /\ Coherent(ctl)' /\ ctl'.index \in Indices
  BY GovernObserves DEF Sound, Coherent, Controllers
<1> DEFINE changed == ctl'.index # ctl.index
<1>2. /\ graph' = IF changed THEN Requested(graph, ctl'.index) ELSE graph
      /\ retained' = IF changed THEN None ELSE Evidence
      /\ handoff' = (handoff \/ changed)
      /\ cache' = StateOf(graph')
      /\ seedPending' = (seedPending /\ Transition(graph'))
      /\ timing' = None /\ pc' = "governed"
      /\ UNCHANGED <<mode, device, cycle, warmup, sceneOnly, inflight, sure>>
  BY DEF Govern, Kept, Refreshed, history
<1> HIDE DEF changed
<1>3. graph' \in Graphs
  BY <1>0, <1>1, <1>2, RequestedType DEF TypeOK
<1>4. cache' \in Caches
  BY <1>2, <1>3, StateOfType
<1>5. Evidence \in Indices \cup {None}
  BY <1>0 DEF Evidence, WorkSample, TypeOK
<1>6. handoff' \in BOOLEAN /\ seedPending' \in BOOLEAN
  <2>1. handoff' = (handoff \/ changed) /\ seedPending' = (seedPending /\ Transition(graph'))
    BY <1>2
  <2> QED BY <2>1, Zenon
<1>7. TypeOK'
  BY <1>0, <1>1, <1>2, <1>3, <1>4, <1>5, <1>6 DEF TypeOK
<1>8. WarmIsBlind'
  <2>1. warmup > 0 => Evidence = None
    BY <1>0 DEF WarmIsBlind, Blind, Evidence, WorkSample
  <2> QED BY <1>0, <1>2, <2>1 DEF WarmIsBlind, Blind
<1>9. EvaluatesItsStep' /\ SentIsBlind'
  BY <1>1, <1>2 DEF EvaluatesItsStep, Coherent, SentIsBlind
<1> QED BY <1>7, <1>8, <1>9 DEF IInv

\* The end of a present counts down, or starts a new epoch.
LEMMA DeliverInv == IInv /\ Deliver => IInv'
<1> SUFFICES ASSUME IInv, Deliver PROVE IInv'
  OBVIOUS
<1>0. TypeOK
  BY DEF IInv
<1>1. /\ pc' = "idle" /\ cycle' \in Cycles /\ UNCHANGED <<mode, device, sure>>
  BY DEF Deliver, NoCycle, Cycles
<1>2. seedPending' \in BOOLEAN
  <2>1. seedPending' =
          (seedPending /\ ~(device = "generic" /\ HistoryCycle /\ cycle.seed))
    BY DEF Deliver
  <2> QED BY <2>1, Zenon
<1>3. CASE /\ ResetEpoch("suspend")
           /\ warmup' = ResetWarmup /\ sceneOnly' = 0
  <2>1. /\ StartedOver' /\ Len(inflight') = Len(inflight)
        /\ graph' \in Graphs
    BY <1>0, <1>3, ResetEpochOK
  <2>2. /\ mode' \in Modes /\ device' \in Devices
        /\ Len(inflight') <= Ring /\ sure' \in 0 .. Len(inflight')
    BY <1>0, <1>1, <2>1 DEF TypeOK
  <2> QED BY <1>1, <1>2, <1>3, <2>1, <2>2, ResetWarmupOK, StartedOverInv
<1>4. CASE /\ handoff' = (handoff /\ ~HandoffDone)
           /\ warmup' = IF HistoryCycle /\ warmup > 0 THEN warmup - 1 ELSE warmup
           /\ sceneOnly' = IF HistoryCycle /\ mode = "adaptive" /\ sceneOnly > 0
                           THEN sceneOnly - 1 ELSE sceneOnly
           /\ UNCHANGED <<ctl, cache, retained, graph, timing, inflight>>
  <2>1. handoff' \in BOOLEAN
    BY <1>4, Zenon
  <2>2. warmup' \in 0 .. Warmup /\ (warmup' > 0 => warmup > 0)
    BY <1>0, <1>4 DEF TypeOK
  <2>3. sceneOnly' \in 0 .. 2
    BY <1>0, <1>4 DEF TypeOK
  <2>4. UNCHANGED <<ctl, cache, retained, graph, timing, inflight>>
    BY <1>4
  <2>5. TypeOK'
    BY <1>0, <1>1, <1>2, <2>1, <2>2, <2>3, <2>4 DEF TypeOK
  <2>6. EvaluatesItsStep' /\ WarmIsBlind' /\ SentIsBlind'
    BY <1>1, <2>2, <2>4 DEF IInv, EvaluatesItsStep, WarmIsBlind, SentIsBlind, Blind
  <2> QED BY <2>5, <2>6 DEF IInv
<1> QED BY <1>3, <1>4 DEF Deliver

\* The invariant is inductive ...
LEMMA StepInv == IInv /\ [Next]_vars => IInv'
<1> SUFFICES ASSUME IInv, [Next]_vars PROVE IInv'
  OBVIOUS
<1>1. CASE UNCHANGED vars
  BY <1>1 DEF IInv, TypeOK, EvaluatesItsStep, WarmIsBlind, SentIsBlind, Blind,
              vars, history, wrapper, samples
<1>2. CASE Next
  BY <1>2, BypassInv, RingBusyInv, BeginInv, AdrenoWarmupInv,
     DispatchInv, GovernInv, DeliverInv DEF Next, Present
<1> QED BY <1>1, <1>2

\* ... and so it holds.
LEMMA SpecInv == Spec => []IInv
BY InitInv, StepInv, PTL DEF Spec

-----------------------------------------------------------------------------
\* Every member keeps its range (updateAdaptiveFlowGovernor, observe, and the
\* resets of context.cpp), for every number of scales and every time constant.
THEOREM FlowTypeOK == Spec => []TypeOK
<1>1. IInv => TypeOK
  BY DEF IInv
<1> QED BY <1>1, SpecInv, PTL

\* A trial under way judges the very step that led to the current scale
\* (observe), so that undoing it restores what was there before the step.
THEOREM FlowEvaluatesItsStep == Spec => []EvaluatesItsStep
<1>1. IInv => EvaluatesItsStep
  BY DEF IInv
<1> QED BY <1>1, SpecInv, PTL

\* After a reset no timing of an earlier epoch counts (advanceAdaptiveFlow-
\* TimingEpoch), whatever the GPU has still to report.
THEOREM FlowWarmIsBlind == Spec => []WarmIsBlind
<1>1. IInv => WarmIsBlind
  BY DEF IInv
<1> QED BY <1>1, SpecInv, PTL

\* The governor never selects a scale while the backend has still to move to an
\* earlier one.
THEOREM FlowNoStepInTransit == Spec => NoStepInTransit
<1>1. IInv /\ [Next]_vars => [Steps => graph.pending = None]_vars
  <2> SUFFICES ASSUME IInv, Next, Steps, graph.pending # None PROVE FALSE
    BY DEF Steps
  <2>1. pc = "sent" /\ ctl'.index # ctl.index
    BY DEF Steps
  <2>2. Govern \/ EnterSourceOnlyBypass
    BY <2>1 DEF Next, Present, RingBusy, Begin, AdrenoWarmup,
                Dispatch, Deliver, EnterSourceOnlyBypass
  <2>3. Govern
    BY <2>1, <2>2 DEF EnterSourceOnlyBypass
  <2>4. ~Usable
    BY <2>1 DEF IInv, SentIsBlind, Blind, Usable, Evidence, WorkSample
  <2>5. PICK dt \in Elapsed : Observe(dt, Moving, WorkSample, FALSE)
    <3>1. PICK dt \in Elapsed : Observe(dt, Moving, WorkSample, Usable)
      BY <2>3 DEF Govern
    <3>2. Usable = FALSE
      BY <2>3, <2>4, GovernObserves
    <3> QED BY <3>1, <3>2
  <2> QED BY <2>1, <2>3, <2>5, GovernObserves, ObserveBlind
<1> QED BY <1>1, SpecInv, PTL DEF Spec, NoStepInTransit

-----------------------------------------------------------------------------
(* The startup seed.  Its cycle is recognised by the wrapper's copy of the   *)
(* transition, which a reset overwrites; then the warm-up, the scene guard   *)
(* or the break itself keeps the next dispatch from generating.              *)

\* The governor has just refreshed the wrapper's copy.
Synced ==
    pc = "governed" =>
      cache.pending = Transition(graph) /\ cache.active = graph.active

\* What keeps a present silent, whether or not it is a seed cycle.
Silenced == warmup > 0 \/ sceneOnly > 0

SeedGuarded ==
    seedPending /\ Transition(graph) =>
      /\ pc = "idle"  => Silenced \/ cache.pending
      /\ pc = "begun" => \/ Silenced
                         \/ cycle.broken
                         \/ mode = "adaptive" => cycle.seed

SeedInv == Synced /\ SeedGuarded

\* The seed is requested by the constructor, and the copy says so.
LEMMA InitSeed == Init => SeedInv
<1> SUFFICES ASSUME Init PROVE SeedInv
  OBVIOUS
<1>1. PICK seed \in Indices :
         /\ graph = Requested([requested |-> 0, active |-> 0, pending |-> None], seed)
         /\ cache = [StateOf(graph) EXCEPT !.requested = seed]
  BY DEF Init
<1>2. cache.pending = Transition(graph)
  BY <1>1 DEF StateOf
<1>3. pc = "idle"
  BY DEF Init
<1> QED BY <1>2, <1>3 DEF SeedInv, Synced, SeedGuarded

\* A bypass, and a busy ring off Adreno, are followed by the warm-up.
LEMMA WarmResetSeed == IInv /\ SeedInv /\ (EnterSourceOnlyBypass \/ RingBusy) => SeedInv'
<1> SUFFICES ASSUME IInv, EnterSourceOnlyBypass \/ RingBusy PROVE SeedInv'
  OBVIOUS
<1>1. pc' = "idle" /\ warmup' = ResetWarmup
  BY DEF EnterSourceOnlyBypass, RingBusy
<1>2. warmup' > 0
  BY <1>1 DEF ResetWarmup
<1> QED BY <1>1, <1>2 DEF SeedInv, Synced, SeedGuarded, Silenced

\* A present asks for the seed before a break resets the copy, and after a new
\* configuration has.
LEMMA BeginSeed == IInv /\ SeedInv /\ Begin => SeedInv'
<1> SUFFICES ASSUME IInv, SeedInv, Begin PROVE SeedInv'
  OBVIOUS
<1>1. PICK config \in BOOLEAN, broken \in BOOLEAN :
         /\ IF config \/ broken
            THEN /\ warmup' = IF device = "adreno" /\ broken THEN 0 ELSE ResetWarmup
                 /\ sceneOnly' = IF device = "adreno" /\ broken THEN 2 ELSE 0
            ELSE UNCHANGED <<graph, history>>
         /\ cycle' = [NoCycle EXCEPT !.seed = SeedCycle(config), !.broken = broken]
  BY DEF Begin
<1>2. pc = "idle" /\ pc' = "begun" /\ seedPending' = seedPending
  BY DEF Begin
<1>3. CASE config \/ broken
  <2>1. warmup' > 0 \/ sceneOnly' > 0
    BY <1>1, <1>3 DEF ResetWarmup
  <2> QED BY <1>2, <2>1 DEF SeedInv, Synced, SeedGuarded, Silenced
<1>4. CASE ~(config \/ broken)
  <2>1. UNCHANGED <<graph, warmup, sceneOnly>>
    BY <1>1, <1>4 DEF history
  <2>2. cycle'.seed = SeedCycle(config) /\ config = FALSE
    BY <1>1, <1>4 DEF NoCycle
  <2>3. SUFFICES ASSUME seedPending, Transition(graph), ~Silenced, mode' = "adaptive"
                 PROVE  cycle'.seed
    BY <1>2, <2>1 DEF SeedInv, Synced, SeedGuarded, Silenced
  <2>4. cache.pending
    BY <1>2, <2>3 DEF SeedInv, SeedGuarded
  <2> QED BY <2>2, <2>3, <2>4 DEF SeedCycle
<1> QED BY <1>3, <1>4

\* Nothing is asked of a present that is sent; the governor refreshes the copy.
LEMMA SentSeed ==
    SeedInv /\ (AdrenoWarmup \/ (\E gen \in BOOLEAN : Dispatch(gen)) \/ Govern) => SeedInv'
<1>1. ASSUME AdrenoWarmup \/ \E gen \in BOOLEAN : Dispatch(gen) PROVE SeedInv'
  <2>1. pc' = "sent"
    BY <1>1 DEF AdrenoWarmup, Dispatch
  <2> QED BY <2>1 DEF SeedInv, Synced, SeedGuarded
<1>2. ASSUME Govern PROVE SeedInv'
  <2>1. pc' = "governed" /\ cache' = StateOf(graph')
    BY <1>2 DEF Govern, Refreshed
  <2>2. cache'.pending = Transition(graph)' /\ cache'.active = graph'.active
    BY <2>1 DEF StateOf, Transition
  <2> QED BY <2>1, <2>2 DEF SeedInv, Synced, SeedGuarded
<1> QED BY <1>1, <1>2

\* Only a cycle that was dispatched counts the warm-up down, and a suspension on
\* Adreno takes the request back.
LEMMA DeliverSeed == IInv /\ SeedInv /\ Deliver => SeedInv'
<1> SUFFICES ASSUME IInv, SeedInv, Deliver PROVE SeedInv'
  OBVIOUS
<1>1. /\ pc = "governed" /\ pc' = "idle"
      /\ cache.pending = Transition(graph) /\ cache.active = graph.active
  BY DEF Deliver, SeedInv, Synced
<1>2. CASE UNCHANGED <<cache, graph>>
  <2>1. cache' = cache /\ graph' = graph
    BY <1>2
  <2> QED BY <1>1, <2>1 DEF SeedInv, Synced, SeedGuarded, Transition
<1>3. CASE ResetEpoch("suspend") /\ warmup' = ResetWarmup
  <2>1. warmup' > 0
    BY <1>3 DEF ResetWarmup
  <2> QED BY <1>1, <2>1 DEF SeedInv, Synced, SeedGuarded, Silenced
<1> QED BY <1>2, <1>3 DEF Deliver

\* The seed stays guarded in every step ...
LEMMA StepSeed == IInv /\ SeedInv /\ [Next]_vars => SeedInv'
<1> SUFFICES ASSUME IInv, SeedInv, [Next]_vars PROVE SeedInv'
  OBVIOUS
<1>1. CASE UNCHANGED vars
  BY <1>1 DEF SeedInv, Synced, SeedGuarded, Silenced, Transition, vars, history, wrapper
<1>2. CASE Next
  BY <1>2, WarmResetSeed, BeginSeed, SentSeed, DeliverSeed DEF Next, Present
<1> QED BY <1>1, <1>2

\* ... and so in every behaviour.
LEMMA SpecSeed == Spec => []SeedInv
BY InitSeed, StepSeed, SpecInv, PTL DEF Spec

-----------------------------------------------------------------------------
(* Fresh evidence on protected Adreno.  Every batch is recorded in the       *)
(* present that dispatched it, so nothing is in flight, and what is recorded *)
(* is of the graph the batch ran on, or was marked as a transition's; what   *)
(* is retained is of the graph that stays active, with no other requested.   *)

\* A timing is observed in the present that recorded it.
Observed == pc # "sent" => timing = None

Complete == Len(inflight) = 0

MeasuresActive ==
    pc = "sent" /\ timing \in Indices => timing = graph.active /\ ~Transition(graph)

RetainsActive == retained # None => retained = graph.active /\ ~Transition(graph)

AdrenoInv == Complete /\ MeasuresActive /\ RetainsActive

FreshInv == Observed /\ (device = "adreno" => AdrenoInv)

\* Nothing is in flight at first.
LEMMA InitFresh == Init => FreshInv
<1> SUFFICES ASSUME Init PROVE FreshInv
  OBVIOUS
<1>1. /\ pc = "idle" /\ timing = None /\ retained = None
      /\ inflight = <<>> /\ sure = 0
  BY DEF Init
<1> QED BY <1>1 DEF FreshInv, Observed, AdrenoInv, Complete,
                    MeasuresActive, RetainsActive

\* A reset leaves nothing to judge by.
LEMMA ResetFresh ==
    ASSUME FreshInv, StartedOver', Len(inflight') = Len(inflight),
           timing' = Outdated(timing), device' = device, sure' = sure,
           pc # "sent", pc' # "sent"
    PROVE  FreshInv'
<1>1. timing' = None
  BY DEF FreshInv, Observed, Outdated
<1>2. retained' = None
  BY DEF StartedOver
<1> QED BY <1>1, <1>2 DEF FreshInv, Observed, AdrenoInv, Complete,
           MeasuresActive, RetainsActive

\* A bypass outdates what is in flight.
LEMMA BypassFresh == IInv /\ FreshInv /\ EnterSourceOnlyBypass => FreshInv'
<1> SUFFICES ASSUME IInv, FreshInv, EnterSourceOnlyBypass PROVE FreshInv'
  OBVIOUS
<1>1. StartedOver' /\ Len(inflight') = Len(inflight)
  BY StartOverOK, Zeros DEF IInv, EnterSourceOnlyBypass
<1>2. timing' = Outdated(timing)
  BY DEF EnterSourceOnlyBypass, StartOver, NewTimingEpoch
<1> QED BY <1>1, <1>2, ResetFresh DEF EnterSourceOnlyBypass

\* So does a busy ring.
LEMMA RingBusyFresh == IInv /\ FreshInv /\ RingBusy => FreshInv'
<1> SUFFICES ASSUME IInv, FreshInv, RingBusy PROVE FreshInv'
  OBVIOUS
<1>1. StartedOver' /\ Len(inflight') = Len(inflight)
  BY ResetEpochOK DEF IInv, RingBusy
<1>2. timing' = Outdated(timing)
  BY DEF RingBusy, ResetEpoch, StartOver, NewTimingEpoch
<1> QED BY <1>1, <1>2, ResetFresh DEF RingBusy

\* So does a reset at the begin of a present; otherwise nothing is touched.
LEMMA BeginFresh == IInv /\ FreshInv /\ Begin => FreshInv'
<1> SUFFICES ASSUME IInv, FreshInv, Begin PROVE FreshInv'
  OBVIOUS
<1>1. /\ pc = "idle" /\ pc' = "begun"
      /\ device' = device /\ sure' = sure
  BY DEF Begin
<1>2. ASSUME NEW reason, ResetEpoch(reason) PROVE FreshInv'
  <2>1. StartedOver' /\ Len(inflight') = Len(inflight)
    BY <1>2, ResetEpochOK DEF IInv
  <2>2. timing' = Outdated(timing)
    BY <1>2 DEF ResetEpoch, StartOver, NewTimingEpoch
  <2> QED BY <1>1, <2>1, <2>2, ResetFresh
<1>3. ASSUME UNCHANGED <<cache, retained, graph, timing, inflight>> PROVE FreshInv'
  <2>1. /\ cache' = cache /\ retained' = retained /\ graph' = graph
        /\ timing' = timing /\ inflight' = inflight
    BY <1>3
  <2> QED BY <1>1, <2>1 DEF FreshInv, Observed, AdrenoInv, Complete,
             MeasuresActive, RetainsActive, Transition
<1> QED BY <1>2, <1>3 DEF Begin

\* The warm-up records no timing.
LEMMA AdrenoWarmupFresh == IInv /\ FreshInv /\ AdrenoWarmup => FreshInv'
<1> SUFFICES ASSUME IInv, FreshInv, AdrenoWarmup PROVE FreshInv'
  OBVIOUS
<1>1. /\ pc = "begun" /\ pc' = "sent" /\ device' = device
      /\ cache' = cache /\ retained' = retained /\ graph' = graph
      /\ timing' = timing /\ inflight' = inflight /\ sure' = sure
  BY DEF AdrenoWarmup, wrapper, samples
<1>2. timing = None
  BY <1>1 DEF FreshInv, Observed
<1> QED BY <1>1, <1>2 DEF FreshInv, Observed, AdrenoInv, Complete,
           MeasuresActive, RetainsActive, Transition

\* A batch runs on the graph that its dispatch makes active, and is recorded at
\* once; nothing older is left to be found.
LEMMA DispatchFresh == \A gen \in BOOLEAN : IInv /\ FreshInv /\ Dispatch(gen) => FreshInv'
<1> SUFFICES ASSUME NEW gen \in BOOLEAN, IInv, FreshInv, Dispatch(gen) PROVE FreshInv'
  OBVIOUS
<1>1. /\ pc = "begun" /\ pc' = "sent" /\ device' = device
      /\ cache' = cache /\ retained' = retained /\ graph' = Committed(graph)
  BY DEF Dispatch, wrapper
<1>2. SUFFICES ASSUME device = "adreno" PROVE AdrenoInv'
  BY <1>1 DEF FreshInv, Observed
<1>3. AdrenoInv /\ timing = None
  BY <1>1, <1>2 DEF FreshInv, Observed
<1>4. /\ inflight \in Seq(Samples) /\ Len(inflight) = 0 /\ graph \in Graphs
  BY <1>3 DEF AdrenoInv, Complete, IInv, TypeOK
<1>5. PICK k \in Seen :
         LET left == SubSeq(inflight, k + 1, Len(inflight)) IN
         \/ timing' = Report(gen) /\ inflight' = <<>>
         \/ timing' \in (IF gen THEN {None} ELSE Timings(k)) /\ inflight' = left
  BY <1>2 DEF Dispatch
<1>6. k = 0
  BY <1>4 DEF Seen
<1>7. SubSeq(inflight, k + 1, Len(inflight)) = <<>>
  BY <1>4, <1>6
<1>8. Timings(k) = {timing}
  BY <1>6 DEF Timings, Newest
<1>9. /\ timing' = Report(gen) \/ timing' = None
      /\ Len(inflight') = 0
  <2>1. inflight' = <<>>
    BY <1>5, <1>7
  <2>2. timing' = Report(gen) \/ timing' = None
    BY <1>3, <1>5, <1>8
  <2> QED BY <2>1, <2>2
<1>10. /\ graph' \in Graphs /\ ~Transition(graph')
       /\ ~Transition(graph) => graph' = graph
  BY <1>1, <1>4, CommittedType DEF Transition, Committed
<1>11. Complete'
  BY <1>9 DEF Complete
<1>12. MeasuresActive'
  <2>1. Report(gen) \in Indices => Report(gen) = graph'.active
    BY <1>10 DEF Report, Indices
  <2> QED BY <1>9, <1>10, <2>1 DEF MeasuresActive, Indices
<1>13. RetainsActive'
  BY <1>1, <1>3, <1>10 DEF AdrenoInv, RetainsActive, Transition
<1> QED BY <1>11, <1>12, <1>13 DEF AdrenoInv

\* What the governor may judge by is a timing of the active graph.
LEMMA EvidenceIsActive ==
    ASSUME IInv, FreshInv, device = "adreno", pc = "sent", Evidence # None
    PROVE  Evidence = graph.active /\ ~Transition(graph)
<1>1. MeasuresActive /\ RetainsActive
  BY DEF FreshInv, AdrenoInv
<1>2. CASE WorkSample
  <2>1. timing \in Indices /\ ~cache.pending /\ Evidence = timing
    BY <1>2 DEF WorkSample, Moving, Evidence
  <2> QED BY <1>1, <2>1 DEF MeasuresActive
<1>3. CASE ~WorkSample
  BY <1>1, <1>3 DEF Evidence, RetainsActive
<1> QED BY <1>2, <1>3

\* What the governor retains is of the graph that stays; a step forgets it.
LEMMA GovernFresh == IInv /\ FreshInv /\ Govern => FreshInv'
<1> SUFFICES ASSUME IInv, FreshInv, Govern PROVE FreshInv'
  OBVIOUS
<1> DEFINE changed == ctl'.index # ctl.index
<1>1. /\ graph' = IF changed THEN Requested(graph, ctl'.index) ELSE graph
      /\ retained' = IF changed THEN None ELSE Evidence
      /\ cache' = StateOf(graph')
      /\ timing' = None /\ pc = "sent" /\ pc' = "governed"
      /\ device' = device /\ inflight' = inflight /\ sure' = sure
  BY DEF Govern, Kept, Refreshed
<1> HIDE DEF changed
<1>2. SUFFICES ASSUME device = "adreno" PROVE AdrenoInv'
  BY <1>1 DEF FreshInv, Observed
<1>3. AdrenoInv
  BY <1>2 DEF FreshInv
<1>4. RetainsActive'
  <2>1. CASE changed
    BY <1>1, <2>1 DEF RetainsActive
  <2>2. CASE ~changed
    <3>1. retained' = Evidence /\ graph' = graph
      BY <1>1, <2>2
    <3>2. Evidence # None => Evidence = graph.active /\ ~Transition(graph)
      BY <1>1, <1>2, EvidenceIsActive
    <3> QED BY <3>1, <3>2 DEF RetainsActive, Transition
  <2> QED BY <2>1, <2>2
<1> QED BY <1>1, <1>3, <1>4 DEF AdrenoInv, Complete, MeasuresActive

\* The end of a present records no timing.
LEMMA DeliverFresh == IInv /\ FreshInv /\ Deliver => FreshInv'
<1> SUFFICES ASSUME IInv, FreshInv, Deliver PROVE FreshInv'
  OBVIOUS
<1>1. /\ pc = "governed" /\ pc' = "idle" /\ device' = device /\ sure' = sure
  BY DEF Deliver
<1>2. ASSUME ResetEpoch("suspend") PROVE FreshInv'
  <2>1. StartedOver' /\ Len(inflight') = Len(inflight)
    BY <1>2, ResetEpochOK DEF IInv
  <2>2. timing' = Outdated(timing)
    BY <1>2 DEF ResetEpoch, StartOver, NewTimingEpoch
  <2> QED BY <1>1, <2>1, <2>2, ResetFresh
<1>3. ASSUME UNCHANGED <<cache, retained, graph, timing, inflight>> PROVE FreshInv'
  <2>1. /\ cache' = cache /\ retained' = retained /\ graph' = graph
        /\ timing' = timing /\ inflight' = inflight
    BY <1>3
  <2> QED BY <1>1, <2>1 DEF FreshInv, Observed, AdrenoInv, Complete,
             MeasuresActive, RetainsActive, Transition
<1> QED BY <1>2, <1>3 DEF Deliver

\* Evidence stays fresh in every step ...
LEMMA StepFresh == IInv /\ FreshInv /\ [Next]_vars => FreshInv'
<1> SUFFICES ASSUME IInv, FreshInv, [Next]_vars PROVE FreshInv'
  OBVIOUS
<1>1. CASE UNCHANGED vars
  BY <1>1 DEF FreshInv, Observed, AdrenoInv, Complete, MeasuresActive,
              RetainsActive, Transition, vars, wrapper, samples
<1>2. CASE Next
  BY <1>2, BypassFresh, RingBusyFresh, BeginFresh, AdrenoWarmupFresh,
     DispatchFresh, GovernFresh, DeliverFresh DEF Next, Present
<1> QED BY <1>1, <1>2

\* ... and so in every behaviour.
LEMMA SpecFresh == Spec => []FreshInv
BY InitFresh, StepFresh, SpecInv, PTL DEF Spec

-----------------------------------------------------------------------------
\* In Adaptive mode the startup seed becomes the active graph in a cycle that
\* generates nothing (startupSeedHistoryOnly), whatever resets of the source
\* epoch come between its request and the first dispatch.
THEOREM FlowSeedIsSilent == Spec => SeedIsSilent
<1>1. IInv /\ SeedInv /\ [Next]_vars =>
        [mode = "adaptive" /\ seedPending /\ graph.active # graph'.active
           => ~cycle'.gen]_vars
  <2> SUFFICES ASSUME IInv, SeedInv, Next, mode = "adaptive", seedPending,
                      graph.active # graph'.active, cycle'.gen
               PROVE  FALSE
    OBVIOUS
  <2>1. \E gen \in BOOLEAN : Dispatch(gen)
    <3>1. ASSUME NEW i PROVE Requested(graph, i).active = graph.active
      BY DEF Requested, IInv, TypeOK, Graphs
    <3>2. ASSUME NEW reason, ResetEpoch(reason) PROVE FALSE
      BY <3>1, <3>2 DEF ResetEpoch
    <3>3. ~RingBusy /\ ~Begin /\ ~Deliver
      BY <3>2 DEF RingBusy, Begin, Deliver
    <3>4. ~Govern
      BY <3>1 DEF Govern
    <3>5. ~AdrenoWarmup /\ ~EnterSourceOnlyBypass
      BY DEF AdrenoWarmup, EnterSourceOnlyBypass
    <3> QED BY <3>3, <3>4, <3>5 DEF Next, Present
  <2>2. PICK gen \in BOOLEAN : Dispatch(gen)
    BY <2>1
  <2>3. /\ pc = "begun" /\ graph' = Committed(graph) /\ cycle'.gen = gen
    BY <2>2 DEF Dispatch, IInv, TypeOK, Cycles
  <2>4. Transition(graph)
    BY <2>3 DEF Committed
  <2>5. MayGenerate
    BY <2>2, <2>3 DEF Dispatch
  <2>6. ~Silenced /\ ~cycle.broken /\ ~cycle.seed
    BY <2>5 DEF MayGenerate, Silenced
  <2> QED BY <2>3, <2>4, <2>6 DEF SeedInv, SeedGuarded
<1> QED BY <1>1, SpecInv, SpecSeed, PTL DEF Spec, SeedIsSilent

\* On protected Adreno (updateAdaptiveFlowGovernor) a step of the scale rests on
\* a timing of the graph that is active, never on one of the graph before it.
THEOREM FlowFreshEvidence == Spec => FreshEvidence
<1>1. IInv /\ FreshInv /\ [Next]_vars =>
        [Steps /\ device = "adreno" => Evidence = graph.active]_vars
  <2> SUFFICES ASSUME IInv, FreshInv, Next, Steps, device = "adreno"
               PROVE  Evidence = graph.active
    OBVIOUS
  <2>1. pc = "sent" /\ Govern
    BY DEF Steps, Next, Present, RingBusy, Begin, AdrenoWarmup,
           Dispatch, Deliver, EnterSourceOnlyBypass
  <2>2. Usable
    <3>1. SUFFICES ASSUME ~Usable PROVE FALSE
      OBVIOUS
    <3>2. PICK dt \in Elapsed : Observe(dt, Moving, WorkSample, Usable)
      BY <2>1 DEF Govern
    <3>3. Usable = FALSE
      BY <2>1, <3>1, GovernObserves
    <3>4. Observe(dt, Moving, WorkSample, FALSE)
      BY <3>2, <3>3
    <3> QED BY <2>1, <3>4, GovernObserves, ObserveBlind DEF Steps
  <2> QED BY <2>1, <2>2, EvidenceIsActive DEF Usable
<1> QED BY <1>1, SpecInv, SpecFresh, PTL DEF Spec, FreshEvidence
=============================================================================
