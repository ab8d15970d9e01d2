----------------------- MODULE AdaptiveScheduler_proofs -----------------------
(***************************************************************************)
(* The two classes of adaptive_scheduler.cpp that plan: what the capacity  *)
(* tracker and the frame scheduler promise, for every maximum, every       *)
(* threshold and every target.                                             *)
(*                                                                         *)
(* PresentationCapacity: one lemma per stage of observe() says what the    *)
(* stage does to the cap and the duty and that it keeps a coherent tracker *)
(* coherent; the invariance proof and the proof of Gradual then only have  *)
(* to follow the stages.                                                   *)
(*                                                                         *)
(* FrameScheduler (PlannerSpec): every reset leaves the scheduler Cold,    *)
(* and away from a reset it is configured like the present (Matches), so   *)
(* that configure() changes nothing within an epoch (PreparedIsSame).  The *)
(* properties then are about the stages of one plan().                     *)
(***************************************************************************)
EXTENDS PresentationCapacity, FrameScheduler, TLAPS

\* What the stages need to know of an observation.
Seen ==
    [attempted : 1..MaxGenerated, rejected : 0..MaxGenerated,
     context : [deficit : BOOLEAN, valid : BOOLEAN, proven : BOOLEAN],
     pressure : 0..2, profitable : BOOLEAN]

Good(t) == t \in Trackers /\ Coherent(t)

\* The tracker is well formed and, during a present, its probe is its own.
Inv == TypeOK /\ CapacityCoherent /\ ProbeIsOwn

\* Same cap, duty, maximum and mechanisms.
Same(t, u) ==
    /\ u.max = t.max /\ u.cap = t.cap /\ u.duty = t.duty
    /\ u.provisional = t.provisional /\ u.previousCap = t.previousCap
    /\ u.inFlight = t.inFlight

\* One level up with the evidence spent, or no move at all.
UpOrStay(t, u) ==
    /\ u.max = t.max
    /\ \/ u.cap = t.cap /\ u.duty = t.duty
       \/ /\ u.cap = t.cap + 1 /\ u.duty = FullDuty
          /\ u.recovery = 0 /\ u.rejection = 0

\* One level down, or no move at all.
DownOrStay(t, u) ==
    /\ u.max = t.max
    /\ \/ u = t
       \/ u.cap = t.cap - 1 /\ u.duty = t.duty /\ t.duty = FullDuty
            /\ u.provisional /\ t.rejection > 0
       \/ u.cap = t.cap /\ u.duty = t.duty - 1 /\ u.recovery = 0
            /\ t.rejection > 0

\* A level regained from evidence, or no move at all.
RegainOrStay(t, u) ==
    /\ u.max = t.max
    /\ \/ u.cap = t.cap /\ u.duty = t.duty
       \/ u.cap = t.cap /\ u.duty = t.duty + 1 /\ t.recovery > 0
            /\ t.duty < FullDuty
       \/ u.cap = t.cap + 1 /\ u.duty = t.duty /\ t.recovery > 0
            /\ ~t.provisional

-----------------------------------------------------------------------------
(* A fresh tracker, and a tracker whose stale probe was withdrawn. *)

\* A new tracker grants its maximum.
LEMMA FreshIsGood ==
    ASSUME NEW m \in 0..MaxGenerated
    PROVE  Good(Fresh(m))
  BY PresentationCapacityAssumption
     DEF Good, Trackers, Coherent, Fresh, FullDuty, Changes

\* Taking a probe back moves no level.
LEMMA WithdrawnIsGood ==
    ASSUME NEW t, Good(t)
    PROVE  Good(Withdrawn(t)) /\ ~Withdrawn(t).inFlight
                /\ Withdrawn(t).cap = t.cap /\ Withdrawn(t).duty = t.duty
                /\ Withdrawn(t).max = t.max
  BY DEF Good, Trackers, Coherent, Withdrawn

(* The stages of observe(). *)

\* The constants the stages assign are of the types of the members.
LEMMA Assigned ==
    /\ 0 \in 0..RecoveryBound /\ 0 \in 0..3
    /\ 0 \in 0 .. 3 * EvidenceThreshold /\ 1 \in 0 .. 3 * EvidenceThreshold
    /\ 0 \in 0 .. EvaluationSamples - 1
    /\ FullDuty \in 1..FullDuty
  BY PresentationCapacityAssumption DEF FullDuty

\* Counting moves no level.
LEMMA CountedKeeps ==
    ASSUME NEW t, Good(t), NEW o \in Seen
    PROVE  Good(Counted(t, o)) /\ Same(t, Counted(t, o))
<1> DEFINE u == Counted(t, o)
<1>1. RecoveryAfter(t, o) \in 0..RecoveryBound
  BY PresentationCapacityAssumption
     DEF Good, Trackers, Seen, RecoveryAfter, Grown, Decayed, AtMost, AtLeast
<1>2. u.recovery \in 0..RecoveryBound
  BY <1>1, PresentationCapacityAssumption
     DEF Good, Trackers, Counted, Grown, AtMost
<1>3. u.rejection \in 0 .. 3 * EvidenceThreshold
  BY PresentationCapacityAssumption
     DEF Good, Trackers, Counted, AtMost, AtLeast
<1>4. u.useful \in 0..MaxGenerated /\ u.change \in Changes
  BY PresentationCapacityAssumption
     DEF Good, Trackers, Seen, Counted, AtLeast, Changes
<1>5. Same(t, u) /\ u = [t EXCEPT !.change = u.change, !.useful = u.useful,
                                  !.rejection = u.rejection,
                                  !.recovery = u.recovery]
  BY DEF Good, Trackers, Counted, Same
<1>6. u \in Trackers
  <2> HIDE DEF u
  <2> QED BY <1>2, <1>3, <1>4, <1>5 DEF Good, Trackers
<1>7. Coherent(u)
  <2> HIDE DEF u
  <2> QED BY <1>5 DEF Good, Same, Coherent
<1> QED BY <1>5, <1>6, <1>7 DEF Good

\* A probe that was answered goes one level up, or nowhere.
LEMMA ResolvedKeeps ==
    ASSUME NEW t, Good(t), NEW o \in Seen
    PROVE  /\ Good(Resolved(t, o))
           /\ ~Resolved(t, o).inFlight
           /\ UpOrStay(t, Resolved(t, o))
           /\ Resolved(t, o).provisional => ~t.inFlight
           /\ ~t.inFlight => Resolved(t, o) = t
<1>1. CASE ~t.inFlight
  BY <1>1 DEF Resolved, UpOrStay, Good
<1>2. CASE t.inFlight /\ o.attempted - o.rejected > t.cap
  <2>1. Resolved(t, o) = Succeeded(t)
    BY <1>2 DEF Resolved
  <2>2. t.cap < t.max /\ ~t.provisional
    BY <1>2 DEF Good, Coherent
  <2>3. AtMost(t.cap + 1, t.max) = t.cap + 1 /\ t.cap + 1 \in 1..MaxGenerated
    BY <2>2, PresentationCapacityAssumption DEF Good, Trackers, AtMost
  <2>4. Succeeded(t) \in Trackers
    <3>1. AtMost(t.cap + 1, t.max) \in 0..MaxGenerated
      BY <2>3, PresentationCapacityAssumption
    <3>2. "probe" \in Changes
      BY DEF Changes
    <3> QED BY <3>1, <3>2, Assigned DEF Good, Trackers, Succeeded
  <2>5. /\ Coherent(Succeeded(t))
        /\ ~Succeeded(t).inFlight /\ ~Succeeded(t).provisional
    BY <2>2, <2>3 DEF Good, Trackers, Coherent, Succeeded, FullDuty
  <2>6. UpOrStay(t, Succeeded(t))
    BY <2>3 DEF Good, Trackers, Succeeded, UpOrStay
  <2> QED BY <1>2, <2>1, <2>4, <2>5, <2>6 DEF Good
<1>3. CASE t.inFlight /\ ~(o.attempted - o.rejected > t.cap)
  <2>1. Resolved(t, o) = Failed(t)
    BY <1>3 DEF Resolved
  <2>2. ~t.provisional
    BY <1>3 DEF Good, Coherent
  <2>3. Decayed(t.recovery, 4) \in 0..RecoveryBound
    BY PresentationCapacityAssumption DEF Good, Trackers, Decayed, AtLeast
  <2>4. Failed(t) \in Trackers
    BY <2>3 DEF Good, Trackers, Failed
  <2>5. /\ Coherent(Failed(t))
        /\ ~Failed(t).inFlight /\ ~Failed(t).provisional
    BY <2>2 DEF Good, Trackers, Coherent, Failed
  <2>6. UpOrStay(t, Failed(t))
    BY DEF Good, Trackers, Failed, UpOrStay
  <2> QED BY <1>3, <2>1, <2>4, <2>5, <2>6 DEF Good
<1> QED BY <1>1, <1>2, <1>3

\* A trial that succeeded goes one level up, or nowhere.
LEMMA EvaluatedKeeps ==
    ASSUME NEW t, Good(t), ~t.inFlight, NEW o \in Seen
    PROVE  /\ Good(Evaluated(t, o))
           /\ ~Evaluated(t, o).inFlight
           /\ UpOrStay(t, Evaluated(t, o))
           /\ ~t.provisional => Evaluated(t, o) = t
<1>1. CASE ~t.provisional
  BY <1>1 DEF Evaluated, UpOrStay, Good
<1>2. CASE t.provisional /\ t.samples + 1 < EvaluationSamples
  <2>1. Evaluated(t, o) = [t EXCEPT !.samples = @ + 1]
    BY <1>2, PresentationCapacityAssumption DEF Evaluated, Good, Trackers
  <2>2. t.samples + 1 \in 0 .. EvaluationSamples - 1
    BY <1>2, PresentationCapacityAssumption DEF Good, Trackers
  <2>3. Evaluated(t, o) \in Trackers
    BY <2>1, <2>2 DEF Good, Trackers
  <2>4. Coherent(Evaluated(t, o)) /\ ~Evaluated(t, o).inFlight
    BY <2>1 DEF Good, Trackers, Coherent
  <2>5. UpOrStay(t, Evaluated(t, o))
    BY <2>1 DEF Good, Trackers, UpOrStay
  <2> QED BY <1>2, <2>3, <2>4, <2>5 DEF Good
<1>3. CASE t.provisional /\ t.samples + 1 >= EvaluationSamples /\ o.profitable
  <2>1. Evaluated(t, o) = [t EXCEPT !.provisional = FALSE, !.samples = 0,
                                    !.change = "kept"]
    BY <1>3, PresentationCapacityAssumption DEF Evaluated, Good, Trackers
  <2>3. Evaluated(t, o) \in Trackers
    <3>1. "kept" \in Changes
      BY DEF Changes
    <3> QED BY <2>1, <3>1, Assigned DEF Good, Trackers
  <2>4. Coherent(Evaluated(t, o)) /\ ~Evaluated(t, o).inFlight
    BY <1>3, <2>1 DEF Good, Trackers, Coherent, FullDuty
  <2>5. UpOrStay(t, Evaluated(t, o))
    BY <1>3, <2>1 DEF Good, Trackers, UpOrStay, FullDuty
  <2> QED BY <2>3, <2>4, <2>5, <1>3 DEF Good
<1>4. CASE t.provisional /\ t.samples + 1 >= EvaluationSamples /\ ~o.profitable
  <2>1. Evaluated(t, o) = [t EXCEPT !.provisional = FALSE, !.samples = 0,
                                    !.cap = AtMost(t.previousCap, t.max),
                                    !.recovery = 0, !.rejection = 0,
                                    !.change = "restored"]
    BY <1>4, PresentationCapacityAssumption DEF Evaluated, Good, Trackers
  <2>2. /\ AtMost(t.previousCap, t.max) = t.cap + 1
        /\ t.cap + 1 \in 1..t.max /\ t.duty = FullDuty
    BY <1>4 DEF Good, Trackers, Coherent, AtMost, FullDuty
  <2>3. Evaluated(t, o) \in Trackers
    <3>1. AtMost(t.previousCap, t.max) \in 0..MaxGenerated
      BY <2>2, PresentationCapacityAssumption DEF Good, Trackers, FullDuty
    <3>2. "restored" \in Changes
      BY DEF Changes
    <3> QED BY <2>1, <3>1, <3>2, Assigned DEF Good, Trackers
  <2>4. Coherent(Evaluated(t, o)) /\ ~Evaluated(t, o).inFlight
    BY <1>4, <2>1, <2>2 DEF Good, Trackers, Coherent, FullDuty
  <2>5. UpOrStay(t, Evaluated(t, o))
    BY <1>4, <2>1, <2>2 DEF Good, Trackers, UpOrStay, FullDuty
  <2> QED BY <2>3, <2>4, <2>5, <1>4 DEF Good
<1> QED BY <1>1, <1>2, <1>3, <1>4, PresentationCapacityAssumption
           DEF Good, Trackers, Seen

\* Rejections go one level down, or nowhere.
LEMMA LoweredKeeps ==
    ASSUME NEW t, Good(t), ~t.inFlight, NEW o \in Seen
    PROVE  /\ Good(Lowered(t, o))
           /\ ~Lowered(t, o).inFlight
           /\ DownOrStay(t, Lowered(t, o))
<1>1. CASE LowersCap(t, o)
  <2>1. Lowered(t, o) = [t EXCEPT !.provisional = TRUE, !.previousCap = t.cap,
                                  !.samples = 0, !.cap = @ - 1,
                                  !.rejection = 1, !.phase = 0,
                                  !.change = "lowered"]
    BY <1>1 DEF Lowered, LowersCap, LowersDuty, Good, Trackers
  <2>2. t.cap > 1 /\ t.duty = FullDuty /\ t.rejection > 0
    BY <1>1, PresentationCapacityAssumption
       DEF LowersCap, Good, Trackers, Coherent, FullDuty
  <2>3. Lowered(t, o) \in Trackers
    <3>1. t.cap - 1 \in 0..MaxGenerated
      BY <2>2, PresentationCapacityAssumption DEF Good, Trackers, FullDuty
    <3>2. "lowered" \in Changes
      BY DEF Changes
    <3> QED BY <2>1, <3>1, <3>2, Assigned DEF Good, Trackers
  <2>4. Coherent(Lowered(t, o)) /\ ~Lowered(t, o).inFlight
    BY <1>1, <2>1, <2>2 DEF Good, Trackers, Coherent, FullDuty
  <2>5. DownOrStay(t, Lowered(t, o))
    BY <1>1, <2>1, <2>2 DEF Good, Trackers, DownOrStay, FullDuty
  <2> QED BY <2>3, <2>4, <2>5 DEF Good
<1>2. CASE LowersDuty(t, o)
  <2>1. Lowered(t, o) = [t EXCEPT !.duty = @ - 1, !.rejection = 0,
                                  !.recovery = 0, !.phase = 0,
                                  !.change = "duty_lower"]
    BY <1>2 DEF Lowered, LowersCap, LowersDuty, Good, Trackers
  <2>2. t.cap = 1 /\ t.duty > 1 /\ ~t.provisional /\ t.rejection > 0
    BY <1>2, PresentationCapacityAssumption DEF LowersDuty, Good, Trackers
  <2>3. Lowered(t, o) \in Trackers
    <3>1. t.duty - 1 \in 1..FullDuty
      BY <2>2, PresentationCapacityAssumption DEF Good, Trackers, FullDuty
    <3>2. "duty_lower" \in Changes
      BY DEF Changes
    <3> QED BY <2>1, <3>1, <3>2, Assigned DEF Good, Trackers
  <2>4. Coherent(Lowered(t, o)) /\ ~Lowered(t, o).inFlight
    BY <2>1, <2>2 DEF Good, Trackers, Coherent, FullDuty
  <2>5. DownOrStay(t, Lowered(t, o))
    BY <2>1, <2>2 DEF Good, Trackers, DownOrStay, FullDuty
  <2> QED BY <2>3, <2>4, <2>5 DEF Good
<1>3. CASE ~LowersCap(t, o) /\ ~LowersDuty(t, o)
  BY <1>3 DEF Lowered, DownOrStay, Good
<1> QED BY <1>1, <1>2, <1>3

\* Recovery goes one level up, or nowhere.
LEMMA RaisedKeeps ==
    ASSUME NEW t, Good(t), ~t.inFlight,
           NEW c \in [deficit : BOOLEAN, valid : BOOLEAN, proven : BOOLEAN]
    PROVE  /\ Good(Raised(t, c))
           /\ ~Raised(t, c).inFlight
           /\ RegainOrStay(t, Raised(t, c))
<1> DEFINE Ask == [t EXCEPT !.pending = TRUE]
<1>1. CASE RecoversDuty(t)
  <2>1. Raised(t, c) = [t EXCEPT !.duty = @ + 1, !.recovery = 0, !.phase = 0,
                                 !.change = "duty_recover"]
    BY <1>1 DEF Raised
  <2>2. t.duty < FullDuty /\ t.recovery > 0
    BY <1>1, PresentationCapacityAssumption DEF RecoversDuty, Good, Trackers
  <2>3. Raised(t, c) \in Trackers
    <3>1. t.duty + 1 \in 1..FullDuty
      BY <2>2, PresentationCapacityAssumption DEF Good, Trackers, FullDuty
    <3>2. "duty_recover" \in Changes
      BY DEF Changes
    <3> QED BY <2>1, <3>1, <3>2, Assigned DEF Good, Trackers
  <2>4. Coherent(Raised(t, c)) /\ ~Raised(t, c).inFlight
    BY <2>1, <2>2 DEF Good, Trackers, Coherent, FullDuty
  <2>5. RegainOrStay(t, Raised(t, c))
    BY <2>1, <2>2 DEF Good, Trackers, RegainOrStay, FullDuty
  <2> QED BY <2>3, <2>4, <2>5 DEF Good
<1>2. CASE ~RecoversDuty(t) /\ RecoversCap(t) /\ ~c.deficit /\ ~c.valid
  <2>1. Raised(t, c) = [t EXCEPT !.cap = @ + 1, !.recovery = 0,
                                 !.change = "raised"]
    BY <1>2 DEF Raised
  <2>2. /\ t.cap < t.max /\ ~t.provisional
        /\ t.recovery > 0 /\ t.duty = FullDuty
    BY <1>2, PresentationCapacityAssumption
       DEF RecoversDuty, RecoversCap, Good, Trackers, FullDuty
  <2>3. Raised(t, c) \in Trackers
    <3>1. t.cap + 1 \in 0..MaxGenerated
      BY <2>2, PresentationCapacityAssumption DEF Good, Trackers, FullDuty
    <3>2. "raised" \in Changes
      BY DEF Changes
    <3> QED BY <2>1, <3>1, <3>2, Assigned DEF Good, Trackers
  <2>4. Coherent(Raised(t, c)) /\ ~Raised(t, c).inFlight
    BY <2>1, <2>2 DEF Good, Trackers, Coherent, FullDuty
  <2>5. RegainOrStay(t, Raised(t, c))
    BY <2>1, <2>2 DEF Good, Trackers, RegainOrStay, FullDuty
  <2> QED BY <2>3, <2>4, <2>5 DEF Good
<1>3. CASE /\ ~RecoversDuty(t)
           /\ ~(RecoversCap(t) /\ ~c.deficit /\ ~c.valid)
  <2>1. Raised(t, c) \in {t, Ask}
    BY <1>3 DEF Raised
  <2>2. Good(Ask) /\ ~Ask.inFlight /\ RegainOrStay(t, Ask)
    BY DEF RegainOrStay, Good, Trackers, Coherent
  <2>3. RegainOrStay(t, t)
    BY DEF RegainOrStay
  <2> QED BY <2>1, <2>2, <2>3
<1> QED BY <1>1, <1>2, <1>3

(* The stages together. *)

\* At most one of the stages moves.
LEMMA ObservedKeeps ==
    ASSUME NEW t, Good(t), NEW o \in Seen,
           NEW a, a = Counted(t, o), NEW b, b = Resolved(a, o),
           NEW c, c = Evaluated(b, o), NEW d, d = Lowered(c, o),
           NEW e, e = Raised(d, o.context)
    PROVE  Good(e) /\ ~e.inFlight /\ OneLevel(t, e)
<1>1. Good(a) /\ Same(t, a)
  BY CountedKeeps
<1>2. /\ Good(b) /\ ~b.inFlight /\ UpOrStay(a, b)
      /\ b.provisional => ~a.inFlight
      /\ ~a.inFlight => b = a
  BY <1>1, ResolvedKeeps
<1>3. Good(c) /\ ~c.inFlight /\ UpOrStay(b, c) /\ (~b.provisional => c = b)
  BY <1>2, EvaluatedKeeps
<1>4. Good(d) /\ ~d.inFlight /\ DownOrStay(c, d)
  BY <1>3, LoweredKeeps
<1>5. Good(e) /\ ~e.inFlight /\ RegainOrStay(d, e)
  <2>1. o.context \in [deficit : BOOLEAN, valid : BOOLEAN, proven : BOOLEAN]
    BY DEF Seen
  <2> QED BY <1>4, <2>1, RaisedKeeps
<1>6. UpOrStay(t, c)
  <2>1. CASE a.inFlight
    BY <2>1, <1>1, <1>2, <1>3 DEF UpOrStay, Same
  <2>2. CASE ~a.inFlight
    BY <2>2, <1>1, <1>2, <1>3 DEF UpOrStay, Same
  <2> QED BY <2>1, <2>2
<1> USE DEF FullDuty
<1>7. CASE c.cap = t.cap + 1 /\ c.duty = FullDuty
             /\ c.recovery = 0 /\ c.rejection = 0
  <2>1. d = c
    BY <1>7, <1>4 DEF DownOrStay
  <2>2. e.cap = t.cap + 1 /\ e.duty = FullDuty
    BY <1>7, <2>1, <1>5 DEF RegainOrStay
  <2>3. t.duty = FullDuty \/ t.cap = 1
    BY DEF Good, Coherent, Trackers
  <2> QED BY <1>5, <2>2, <2>3 DEF OneLevel, Good, Trackers
<1>8. CASE c.cap = t.cap /\ c.duty = t.duty
  <2>1. CASE d = c
    <3>1. e.cap = t.cap + 1 => d.duty = e.duty
      BY <2>1, <1>3, <1>5, <1>8 DEF RegainOrStay, Good, Trackers
    <3> QED BY <2>1, <1>3, <1>5, <1>8, <3>1
            DEF RegainOrStay, OneLevel, Good, Trackers
  <2>2. CASE d.cap = c.cap - 1 /\ d.duty = c.duty /\ c.duty = FullDuty
               /\ d.provisional
    BY <2>2, <1>3, <1>5, <1>8 DEF RegainOrStay, OneLevel, Good, Trackers
  <2>3. CASE d.cap = c.cap /\ d.duty = c.duty - 1 /\ d.recovery = 0
    BY <2>3, <1>3, <1>5, <1>8 DEF RegainOrStay, OneLevel, Good, Trackers
  <2> QED BY <1>4, <2>1, <2>2, <2>3 DEF DownOrStay
<1> QED BY <1>5, <1>6, <1>7, <1>8 DEF UpOrStay

-----------------------------------------------------------------------------
(* The actions. *)

\* A present that probes is granted one frame more than the cap.
LEMMA LimitProbeKeeps ==
    ASSUME Inv, NEW n \in 1..MaxGenerated, Limit(n), LimitProbe(n)
    PROVE  /\ Good(tracker') /\ OneLevel(tracker, tracker')
           /\ granted' = tracker'.cap + 1 /\ tracker'.inFlight
           /\ granted' \in 0..MaxGenerated
<1> DEFINE t == Withdrawn(tracker)
<1>1. Good(tracker)
  BY DEF Inv, TypeOK, CapacityCoherent, Good
<1>2. /\ Good(t) /\ ~t.inFlight /\ t.cap = tracker.cap
      /\ t.duty = tracker.duty /\ t.max = tracker.max
  BY <1>1, WithdrawnIsGood
<1>3. ~t.provisional /\ t.cap < t.max
  BY DEF LimitProbe, ProbeDue
<1>4. /\ tracker' = [t EXCEPT !.pending = FALSE, !.inFlight = TRUE]
      /\ granted' = t.cap + 1
  BY DEF LimitProbe
<1> HIDE DEF t
<1>5. tracker' \in Trackers
  BY <1>2, <1>4 DEF Good, Trackers
<1>6. Coherent(tracker') /\ tracker'.inFlight
  BY <1>2, <1>3, <1>4 DEF Good, Trackers, Coherent
<1>7. OneLevel(tracker, tracker')
  BY <1>1, <1>2, <1>4 DEF Good, Trackers, OneLevel
<1>8. granted' = tracker'.cap + 1 /\ granted' \in 0..MaxGenerated
  BY <1>2, <1>3, <1>4, PresentationCapacityAssumption DEF Good, Trackers
<1> QED BY <1>5, <1>6, <1>7, <1>8 DEF Good

\* Any other is granted the cap at most.
LEMMA LimitCappedKeeps ==
    ASSUME Inv, NEW n \in 1..MaxGenerated, Limit(n), LimitCapped(n)
    PROVE  /\ Good(tracker') /\ OneLevel(tracker, tracker')
           /\ granted' \in 0..MaxGenerated /\ granted' <= tracker'.cap
           /\ ~tracker'.inFlight
<1> DEFINE t == Withdrawn(tracker)
<1>1. Good(tracker)
  BY DEF Inv, TypeOK, CapacityCoherent, Good
<1>2. /\ Good(t) /\ ~t.inFlight /\ t.cap = tracker.cap
      /\ t.duty = tracker.duty /\ t.max = tracker.max
  BY <1>1, WithdrawnIsGood
<1>3. PICK due \in BOOLEAN :
        \/ /\ Fractional(t, n)
           /\ tracker' = [[t EXCEPT !.pending = @ /\ ~due]
                            EXCEPT !.phase = (t.phase + t.duty) % FullDuty]
           /\ granted' = (t.phase + t.duty) \div FullDuty
        \/ /\ tracker' = [t EXCEPT !.pending = @ /\ ~due]
           /\ granted' = AtMost(n, t.cap)
  <2>1. PICK efficient \in BOOLEAN :
          LET due == ProbeDue(t, context', efficient)
              u   == [t EXCEPT !.pending = @ /\ ~due]
          IN \/ /\ Fractional(t, n)
                /\ tracker' = [u EXCEPT !.phase = (t.phase + t.duty) % FullDuty]
                /\ granted' = (t.phase + t.duty) \div FullDuty
             \/ /\ tracker' = u
                /\ granted' = AtMost(n, t.cap)
    BY DEF LimitCapped
  <2>2. ProbeDue(t, context', efficient) \in BOOLEAN
    BY DEF ProbeDue
  <2> QED BY <2>1, <2>2
<1> HIDE DEF t
<1>4. CASE /\ Fractional(t, n)
           /\ tracker' = [[t EXCEPT !.pending = @ /\ ~due]
                            EXCEPT !.phase = (t.phase + t.duty) % FullDuty]
           /\ granted' = (t.phase + t.duty) \div FullDuty
  <2>1. t.duty \in 1..3 /\ t.phase \in 0..3 /\ t.cap = 1
    BY <1>2, <1>4 DEF Good, Trackers, Coherent, Fractional, FullDuty
  <2>2. (t.phase + t.duty) % 4 \in 0..3 /\ (t.phase + t.duty) \div 4 \in 0..1
    BY <2>1
  <2>3. tracker' \in Trackers
    BY <1>2, <1>4, <2>2 DEF Good, Trackers, FullDuty
  <2>4. Coherent(tracker') /\ ~tracker'.inFlight
    BY <1>2, <1>4 DEF Good, Trackers, Coherent
  <2>5. OneLevel(tracker, tracker')
    BY <1>1, <1>2, <1>4 DEF Good, Trackers, OneLevel
  <2>6. granted' \in 0..MaxGenerated /\ granted' <= tracker'.cap
    BY <1>2, <1>4, <2>1, <2>2, PresentationCapacityAssumption
       DEF Good, Trackers, FullDuty
  <2> QED BY <2>3, <2>4, <2>5, <2>6 DEF Good
<1>5. CASE /\ tracker' = [t EXCEPT !.pending = @ /\ ~due]
           /\ granted' = AtMost(n, t.cap)
  <2>1. tracker' \in Trackers
    BY <1>2, <1>5 DEF Good, Trackers
  <2>2. Coherent(tracker') /\ ~tracker'.inFlight
    BY <1>2, <1>5 DEF Good, Trackers, Coherent
  <2>3. OneLevel(tracker, tracker')
    BY <1>1, <1>2, <1>5 DEF Good, Trackers, OneLevel
  <2>4. granted' \in 0..MaxGenerated /\ granted' <= tracker'.cap
    BY <1>2, <1>5, PresentationCapacityAssumption DEF Good, Trackers, AtMost
  <2> QED BY <2>1, <2>2, <2>3, <2>4 DEF Good
<1> QED BY <1>3, <1>4, <1>5

\* The observation of a present is one pass through the stages.
LEMMA ObserveKeeps ==
    ASSUME Inv, Observe
    PROVE  Good(tracker') /\ OneLevel(tracker, tracker')
<1>1. Good(tracker)
  BY DEF Inv, TypeOK, CapacityCoherent, Good
<1>2. PICK o \in Observations(tracker, context, granted) :
        tracker' = Raised(Lowered(Evaluated(Resolved(Counted(tracker, o), o),
                                            o), o), o.context)
  BY DEF Observe
<1>3. o \in Seen
  <2>1. granted \in 1..MaxGenerated
    BY PresentationCapacityAssumption DEF Observe, Inv, TypeOK
  <2>2. context \in [deficit : BOOLEAN, valid : BOOLEAN, proven : BOOLEAN]
    BY DEF Inv, TypeOK
  <2> QED BY <1>2, <2>1, <2>2, PresentationCapacityAssumption
          DEF Seen, Observations
<1> QED BY <1>1, <1>2, <1>3, ObservedKeeps

-----------------------------------------------------------------------------
\* At first no present is under way.
LEMMA InitInv == Init => Inv
<1> SUFFICES ASSUME Init PROVE Inv
  OBVIOUS
<1>1. Good(tracker)
  BY FreshIsGood DEF Init
<1>2. TypeOK
  <2>1. granted \in 0..MaxGenerated
    BY PresentationCapacityAssumption DEF Init
  <2>2. calm \in BOOLEAN
    BY Zenon DEF Init
  <2>3. context \in [deficit : BOOLEAN, valid : BOOLEAN, proven : BOOLEAN]
    BY DEF Init, NoContext
  <2> QED BY <1>1, <2>1, <2>2, <2>3 DEF Good, TypeOK
<1>3. ProbeIsOwn
  BY DEF Init, ProbeIsOwn
<1> QED BY <1>1, <1>2, <1>3 DEF Inv, Good, CapacityCoherent

\* One step of the system, for all the theorems at once.
LEMMA Step ==
    ASSUME Inv, [Next]_vars
    PROVE  /\ Inv'
           /\ \/ tracker' = Fresh(tracker'.max)
              \/ OneLevel(tracker, tracker')
<1> DEFINE Moved == \/ tracker' = Fresh(tracker'.max)
                    \/ OneLevel(tracker, tracker')
<1> USE DEF Inv, TypeOK, CapacityCoherent, ProbeIsOwn
<1>0. OneLevel(tracker, tracker)
  BY DEF OneLevel, Trackers
<1>1. ASSUME NEW n \in 1..MaxGenerated, Limit(n)
      PROVE  Inv' /\ Moved
  <2>1. context' \in [deficit : BOOLEAN, valid : BOOLEAN, proven : BOOLEAN]
    BY <1>1 DEF Limit, Contexts
  <2>2. calm' \in BOOLEAN
    BY <1>1 DEF Limit
  <2>3. CASE LimitProbe(n)
    BY <1>1, <2>1, <2>2, <2>3, LimitProbeKeeps DEF Good, Trackers
  <2>4. CASE LimitCapped(n)
    <3>1. /\ Good(tracker') /\ OneLevel(tracker, tracker')
          /\ granted' \in 0..MaxGenerated /\ granted' <= tracker'.cap
          /\ ~tracker'.inFlight
      BY <1>1, <2>4, LimitCappedKeeps
    <3>2. granted' <= tracker'.cap + 1 /\ granted' # tracker'.cap + 1
      BY <3>1 DEF Good, Trackers
    <3> QED BY <3>1, <3>2, <2>1, <2>2 DEF Good
  <2> QED BY <1>1, <2>3, <2>4 DEF Limit
<1>2. CASE Observe
  <2>1. Good(tracker') /\ OneLevel(tracker, tracker')
    BY <1>2, ObserveKeeps
  <2> QED BY <1>2, <2>1, PresentationCapacityAssumption
          DEF Observe, Good, NoContext
<1>3. CASE Abandon
  BY <1>3, <1>0, PresentationCapacityAssumption DEF Abandon, NoContext
<1>4. ASSUME NEW m \in 0..MaxGenerated, Configure(m)
      PROVE  Inv' /\ Moved
  <2>1. Good(tracker') /\ tracker' = Fresh(tracker'.max)
    BY <1>4, FreshIsGood DEF Configure, Fresh
  <2> QED BY <1>4, <2>1 DEF Configure, Good
<1>5. CASE Reset
  <2>1. tracker.max \in 0..MaxGenerated
    BY DEF Trackers
  <2>2. Good(tracker') /\ tracker' = Fresh(tracker'.max)
    BY <1>5, <2>1, FreshIsGood DEF Reset, Fresh
  <2> QED BY <1>5, <2>2, PresentationCapacityAssumption
          DEF Reset, Good, NoContext
<1>6. CASE CalmDown
  BY <1>6, <1>0 DEF CalmDown
<1>7. CASE UNCHANGED vars
  BY <1>7, <1>0 DEF vars
<1> QED BY <1>1, <1>2, <1>3, <1>4, <1>5, <1>6, <1>7 DEF Next, Cycle

\* Every step keeps the invariant (Step), so it holds.
LEMMA Invariance == Spec => []Inv
<1>1. Inv /\ [Next]_vars => Inv'
  BY Step
<1> QED BY InitInv, <1>1, PTL DEF Spec

\* Every reachable state is well typed, whatever the maximum, the thresholds
\* and the bound on the recovery evidence.
THEOREM TypeCorrect == Spec => []TypeOK
<1>1. Inv => TypeOK
  BY DEF Inv
<1> QED BY Invariance, <1>1, PTL

\* Cap, fractional duty, trial and probe never contradict each other.
THEOREM Coherence == Spec => []CapacityCoherent
<1>1. Inv => CapacityCoherent
  BY DEF Inv
<1> QED BY Invariance, <1>1, PTL

\* No present is credited with the outcome of another present's probe.
THEOREM OwnProbe == Spec => []ProbeIsOwn
<1>1. Inv => ProbeIsOwn
  BY DEF Inv
<1> QED BY Invariance, <1>1, PTL

\* No observation moves the capacity by more than one level.
THEOREM OneLevelAtATime == Spec => Gradual
<1>1. Inv /\ [Next]_vars
        => [tracker' = Fresh(tracker'.max) \/ OneLevel(tracker, tracker')]_vars
  BY Step
<1> QED BY Invariance, <1>1, PTL DEF Spec, Gradual

-----------------------------------------------------------------------------
(* FrameScheduler: the inductive invariant *)

Schedulers ==
    [target : Nat, max : Nat, phase : Nat, smoothed : Nat, trusted : BOOLEAN,
     established : BOOLEAN, warmStart : BOOLEAN, samples : Nat, stable : BOOLEAN,
     locked : Nat, candidate : Nat, evidence : Nat, release : Nat, raise : Nat,
     unmet : Int, cost : Nat]

PlannerTypes ==
    /\ generationFirst \in BOOLEAN /\ paced \in BOOLEAN /\ timeline \in BOOLEAN
    /\ conf \in [adaptive : BOOLEAN, target : Nat, max : Nat]
    /\ sched \in Schedulers
    /\ asked \in [limit : Nat, hints : Nat, time : Int]
    /\ strayed \in Nat

\* The scheduler has not planned since its last reset.
Cold(s) ==
    /\ s.smoothed = 0 /\ ~s.trusted /\ s.phase = 0
    /\ s.locked = 0 /\ s.candidate = 0 /\ s.evidence = 0 /\ s.release = 0
    /\ s.raise = 0 /\ s.unmet = -1 /\ s.cost = BaseCost(s)

\* It is configured like the present.
Matches(s, c) == s.target = TargetOf(c) /\ s.max = c.max

\* With generation first the cost limit has nothing to learn.
Unlimited(s) == s.cost = s.max /\ s.raise = 0 /\ s.unmet = -1

Epoch ==
    /\ ~sched.warmStart
    /\ paced \/ sched.established => Matches(sched, conf)
    /\ sched.smoothed = 0 => Cold(sched)
    /\ sched.smoothed > 0 => /\ sched.trusted /\ paced /\ timeline
                             /\ conf.adaptive /\ Active(sched)
    /\ conf.adaptive /\ Active(sched) => (timeline <=> sched.trusted)
    /\ generationFirst => Unlimited(sched)

\* The scheduler's own counters claim no more than what was asked.
Earned ==
    /\ sched.raise > 0 => asked.limit = sched.cost /\ asked.hints >= sched.raise
    /\ sched.unmet >= 0 => asked.limit = sched.cost /\ asked.time >= sched.unmet

Regime ==
    sched.locked # 0 => strayed = sched.release /\ sched.release < ReleaseSamples

PlannerInv == PlannerTypes /\ Epoch /\ Earned /\ Regime

-----------------------------------------------------------------------------
(* The stages before plan() *)

\* No unmet demand: the record needs the fact when it is updated.
LEMMA MinusOne == -1 \in Int
OBVIOUS

\* Every reset of the scheduler makes it cold, and a jump keeps the configuration.
LEMMA ResetsAreCold ==
    ASSUME NEW s \in Schedulers, generationFirst \in BOOLEAN
    PROVE  /\ SchedulerReset(s) \in Schedulers
           /\ Cold(SchedulerReset(s))
           /\ SchedulerReset(s).warmStart = FALSE
           /\ SchedulerReset(s).established = FALSE
           /\ Discontinued(s) \in Schedulers
           /\ Cold(Discontinued(s))
           /\ Discontinued(s).warmStart = s.warmStart
           /\ Discontinued(s).target = s.target
           /\ Discontinued(s).max = s.max
<1> DEFINE n == RuntimeReset(s)
<1>1. ASSUME NEW a \in Schedulers
      PROVE  LET b == RuntimeReset(a) IN
             /\ b \in Schedulers /\ b.trusted = a.trusted /\ b.max = a.max
             /\ b.target = a.target /\ b.established = a.established
             /\ b.warmStart = FALSE
             /\ a.trusted = FALSE => Cold(b)
             /\ Cold([b EXCEPT !.trusted = FALSE, !.warmStart = s.warmStart])
  <2> DEFINE b == RuntimeReset(a)
             e == [b EXCEPT !.trusted = FALSE, !.warmStart = s.warmStart]
  <2>1. /\ b \in Schedulers /\ b.trusted = a.trusted /\ b.max = a.max
        /\ b.target = a.target /\ b.established = a.established
        /\ b.warmStart = FALSE
        /\ b.smoothed = 0 /\ b.phase = 0
        /\ b.locked = 0 /\ b.candidate = 0 /\ b.evidence = 0 /\ b.release = 0
        /\ b.raise = 0 /\ b.unmet = -1 /\ b.cost = BaseCost(b)
    <3> DEFINE w == NoUnmet(Unlocked(a))
               m == BaseCost(a)
    <3>1. /\ w \in Schedulers /\ w.trusted = a.trusted /\ w.max = a.max
          /\ w.target = a.target /\ w.established = a.established
          /\ w.phase = 0 /\ w.locked = 0 /\ w.candidate = 0 /\ w.evidence = 0
          /\ w.release = 0 /\ w.raise = 0 /\ w.unmet = -1
      <4> DEFINE u == Unlocked(a)
      <4>1. /\ u \in Schedulers /\ u.trusted = a.trusted /\ u.max = a.max
            /\ u.target = a.target /\ u.established = a.established
            /\ u.phase = 0 /\ u.locked = 0 /\ u.candidate = 0 /\ u.evidence = 0
            /\ u.release = 0
        BY DEF Schedulers, Unlocked
      <4>2. w = [u EXCEPT !.unmet = -1, !.raise = 0]
        BY DEF NoUnmet
      <4> HIDE DEF u, w
      <4> QED BY <4>1, <4>2, MinusOne DEF Schedulers
    <3>2. m \in Nat
      BY DEF Schedulers, BaseCost
    <3>3. b = [w EXCEPT !.smoothed = 0, !.warmStart = FALSE, !.samples = 0,
                        !.stable = FALSE, !.cost = m]
      BY DEF RuntimeReset
    <3>4. ASSUME b.max = a.max PROVE BaseCost(b) = m
      BY <3>4 DEF BaseCost
    <3> HIDE DEF w, m, b
    <3>5. /\ b \in Schedulers /\ b.trusted = w.trusted /\ b.max = w.max
          /\ b.target = w.target /\ b.established = w.established
          /\ b.warmStart = FALSE /\ b.smoothed = 0 /\ b.cost = m
      BY <3>1, <3>2, <3>3 DEF Schedulers
    <3>6. /\ b.phase = 0 /\ b.locked = 0 /\ b.candidate = 0 /\ b.evidence = 0
          /\ b.release = 0 /\ b.raise = 0 /\ b.unmet = -1
      BY <3>1, <3>3 DEF Schedulers
    <3> QED BY <3>1, <3>4, <3>5, <3>6
  <2> HIDE DEF b
  <2>2. /\ e.smoothed = 0 /\ e.phase = 0 /\ e.trusted = FALSE
        /\ e.locked = 0 /\ e.candidate = 0 /\ e.evidence = 0 /\ e.release = 0
        /\ e.raise = 0 /\ e.unmet = -1 /\ e.cost = b.cost /\ e.max = b.max
    BY <2>1 DEF Schedulers
  <2> HIDE DEF e
  <2>3. a.trusted = FALSE => Cold(b)
    BY <2>1 DEF Cold
  <2>4. Cold(e)
    BY <2>1, <2>2 DEF Cold, BaseCost
  <2> QED BY <2>1, <2>3, <2>4 DEF b, e
<1>2. [s EXCEPT !.established = FALSE, !.trusted = FALSE] \in Schedulers
  BY DEF Schedulers
<1>3. /\ [s EXCEPT !.established = FALSE, !.trusted = FALSE].trusted = FALSE
      /\ [s EXCEPT !.established = FALSE, !.trusted = FALSE].established = FALSE
  BY DEF Schedulers
<1>4. /\ SchedulerReset(s) \in Schedulers
      /\ Cold(SchedulerReset(s))
      /\ SchedulerReset(s).warmStart = FALSE
      /\ SchedulerReset(s).established = FALSE
  BY <1>1, <1>2, <1>3 DEF SchedulerReset
<1>5. /\ n \in Schedulers /\ n.max = s.max /\ n.target = s.target
      /\ Cold([n EXCEPT !.trusted = FALSE, !.warmStart = s.warmStart])
  BY <1>1
<1>6. Discontinued(s) = [n EXCEPT !.trusted = FALSE, !.warmStart = s.warmStart]
  BY DEF Discontinued
<1> HIDE DEF n
<1>7. /\ Discontinued(s) \in Schedulers
      /\ Discontinued(s).warmStart = s.warmStart
      /\ Discontinued(s).target = s.target
      /\ Discontinued(s).max = s.max
  BY <1>5, <1>6 DEF Schedulers
<1> QED BY <1>4, <1>5, <1>6, <1>7

\* A cold scheduler with generation first already grants everything.
LEMMA ColdIsUnlimited ==
    ASSUME NEW s \in Schedulers, Cold(s), generationFirst
    PROVE  Unlimited(s)
BY DEF Cold, Unlimited, BaseCost, Schedulers

\* Within an epoch what a present configures is what there is.
LEMMA PreparedIsSame ==
    ASSUME NEW s \in Schedulers, NEW c, Matches(s, c), generationFirst => Unlimited(s)
    PROVE  Prepared(s, c) = s
<1>1. Configured(s, TargetOf(c), c.max) = s
  BY DEF Configured, Matches
<1>2. GenerationFirst(s) = s
  <2>1. CASE generationFirst
    <3>1. /\ s.cost = s.max /\ s.raise = 0 /\ s.unmet = -1
      BY <2>1 DEF Unlimited
    <3> QED BY <2>1, <3>1 DEF GenerationFirst, NoUnmet, Schedulers
  <2>2. CASE ~generationFirst
    BY <2>2 DEF GenerationFirst
  <2> QED BY <2>1, <2>2
<1> QED BY <1>1, <1>2 DEF Prepared

\* A cold scheduler stays cold while it is configured, and never warm starts:
\* what survived a reset was configured alike.
LEMMA PreparedIsCold ==
    ASSUME NEW s \in Schedulers, NEW c \in [adaptive : BOOLEAN, target : Nat, max : Nat],
           Cold(s), s.established => Matches(s, c), s.warmStart = FALSE,
           generationFirst \in BOOLEAN
    PROVE  LET p == Prepared(s, c) IN
           p \in Schedulers /\ Cold(p) /\ Matches(p, c) /\ p.warmStart = FALSE
<1> DEFINE t == TargetOf(c)
           p == Configured(s, t, c.max)
<1>1. t \in Nat /\ c.max \in Nat
  BY DEF TargetOf
<1>2. p \in Schedulers /\ Cold(p) /\ p.target = t /\ p.max = c.max /\ p.warmStart = FALSE
  <2>1. CASE s.target = t /\ s.max = c.max
    BY <2>1 DEF Configured
  <2>2. CASE ~(s.target = t /\ s.max = c.max)
    <3>1. s.established = FALSE
      BY <2>2 DEF Matches, Schedulers
    <3> HIDE DEF t
    <3> DEFINE a == [s EXCEPT !.target = t, !.max = c.max]
               n == RuntimeReset(a)
    <3>2. a \in Schedulers /\ a.trusted = FALSE /\ a.target = t /\ a.max = c.max
      BY <1>1 DEF Schedulers, Cold
    <3> HIDE DEF a
    <3>3. /\ n \in Schedulers /\ Cold(n) /\ n.target = t /\ n.max = c.max
          /\ n.warmStart = FALSE
      BY <3>2 DEF Schedulers, Cold, RuntimeReset, NoUnmet,
                  Unlocked, BaseCost
    <3> HIDE DEF n
    <3>4. p = [n EXCEPT !.warmStart = FALSE]
      BY <2>2, <3>1 DEF Configured, n, a
    <3>5. p = n
      BY <3>3, <3>4 DEF Schedulers
    <3> QED BY <3>3, <3>5
  <2> QED BY <2>1, <2>2
<1> HIDE DEF p
<1>3. GenerationFirst(p) = p
  <2>1. CASE generationFirst
    <3>1. p.cost = p.max /\ p.raise = 0 /\ p.unmet = -1
      BY <1>2, <2>1, ColdIsUnlimited DEF Unlimited
    <3> QED BY <1>2, <2>1, <3>1 DEF GenerationFirst, NoUnmet, Schedulers
  <2>2. CASE ~generationFirst
    BY <2>2 DEF GenerationFirst
  <2> QED BY <2>1, <2>2
<1>4. Prepared(s, c) = p
  BY <1>3 DEF Prepared, p
<1> QED BY <1>2, <1>4 DEF Matches

-----------------------------------------------------------------------------
(* The stages of plan() *)

\* The demand is a number of tenths.
LEMMA WantedType ==
    ASSUME NEW s \in Schedulers
    PROVE  Wanted(s) \in Nat
BY DEF Schedulers, Wanted, AtMost, AtLeast

\* It depends on the period and the maximum alone.
LEMMA WantedSame ==
    ASSUME NEW s, NEW t, s.smoothed = t.smoothed, s.max = t.max
    PROVE  Wanted(s) = Wanted(t)
BY DEF Wanted

\* What plan() does not touch once the source's period is known.
Alike(s, t) ==
    /\ t.target = s.target /\ t.max = s.max /\ t.smoothed = s.smoothed
    /\ t.trusted = s.trusted /\ t.established = s.established
    /\ t.warmStart = s.warmStart /\ t.stable = s.stable

\* The cost limit is not the density's business.
SameLimit(s, t) == t.cost = s.cost /\ t.raise = s.raise /\ t.unmet = s.unmet

\* Nor is the density the cost limit's.
SameDensity(s, t) ==
    /\ t.locked = s.locked /\ t.candidate = s.candidate
    /\ t.evidence = s.evidence /\ t.release = s.release /\ t.phase = s.phase

\* The first steps: a period is known afterwards, and only the time of an unmet
\* demand has moved.
Rates(s, r, step) ==
    /\ r.smoothed > 0 /\ r.trusted /\ r.established
    /\ r.target = s.target /\ r.max = s.max /\ r.warmStart = s.warmStart
    /\ SameDensity(s, r)
    /\ r.raise = s.raise /\ r.cost = s.cost
    /\ r.unmet = IF s.unmet < 0 THEN -1
                 ELSE AtMost(s.unmet + step, Sustained)

LEMMA RatedOK ==
    ASSUME NEW s \in Schedulers, s.trusted => s.smoothed > 0,
           NEW held \in {FALSE, s.trusted}, NEW step \in 1..MaxStep,
           NEW period \in SmoothedTo(s), NEW steady \in BOOLEAN
    PROVE  LET r == Rated(s, held, period, steady, step) IN
           r \in Schedulers /\ Rates(s, r, step)
<1>0. Sustained \in Nat /\ CadenceWindow \in Nat /\ step \in Nat /\ period \in Nat /\ period > 0
  BY FrameSchedulerAssumption DEF SmoothedTo
<1> DEFINE q == IF held THEN s ELSE SourceRate(s, period, steady)
           u == IF q.unmet < 0 THEN -1 ELSE AtMost(q.unmet + step, Sustained)
<1>1. /\ q \in Schedulers /\ q.smoothed > 0
      /\ q.target = s.target /\ q.max = s.max /\ q.warmStart = s.warmStart
      /\ q.locked = s.locked /\ q.candidate = s.candidate
      /\ q.evidence = s.evidence /\ q.release = s.release /\ q.phase = s.phase
      /\ q.raise = s.raise /\ q.cost = s.cost /\ q.unmet = s.unmet
  <2>1. CASE held
    BY <2>1
  <2>2. CASE ~held
    <3> DEFINE n == AtMost(s.samples + 1, CadenceWindow)
               b == steady /\ n = CadenceWindow
    <3>1. n \in Nat
      BY <1>0 DEF AtMost, Schedulers
    <3>2. b \in BOOLEAN
      OBVIOUS
    <3>3. q = [s EXCEPT !.smoothed = period, !.samples = n, !.stable = b]
      BY <2>2 DEF SourceRate
    <3> HIDE DEF n, b, q
    <3> QED BY <1>0, <3>1, <3>2, <3>3 DEF Schedulers
  <2> QED BY <2>1, <2>2
<1>2. u \in Int /\ u = IF s.unmet < 0 THEN -1 ELSE AtMost(s.unmet + step, Sustained)
  BY <1>0, <1>1 DEF AtMost, Schedulers
<1>3. Rated(s, held, period, steady, step)
        = [q EXCEPT !.established = TRUE, !.trusted = q.smoothed > 0,
                    !.unmet = IF s.unmet < 0 THEN -1
                              ELSE AtMost(@ + step, Sustained)]
  BY DEF Rated
<1>4. (q.smoothed > 0) = TRUE
  BY <1>1
<1> HIDE DEF q
<1>5. Rated(s, held, period, steady, step)
        = [q EXCEPT !.established = TRUE, !.trusted = TRUE, !.unmet = u]
  BY <1>1, <1>3, <1>4 DEF Schedulers
<1> HIDE DEF u
<1> QED BY <1>1, <1>2, <1>5 DEF Schedulers, Rates, SameDensity

\* The cost limit: it stays or, when that is due, rises by one.
Limits(r, l, safe) ==
    /\ Alike(r, l) /\ SameDensity(r, l)
    /\ generationFirst => Unlimited(l)
    /\ \/ l.cost = r.cost /\ l.raise = 0 /\ l.unmet = -1
       \/ /\ Wanted(r) > 10 * r.cost /\ RaiseDue(r, safe)
          /\ ~generationFirst
          /\ l.cost = r.cost + 1 /\ l.raise = 0 /\ l.unmet = -1
       \/ /\ Wanted(r) > 10 * r.cost
          /\ ~generationFirst
          /\ l.cost = r.cost /\ l.raise = RaiseEvidence(r, safe)
          /\ l.unmet = AtLeast(r.unmet, 0)

LEMMA LimitedOK ==
    ASSUME NEW r \in Schedulers, NEW safe \in BOOLEAN,
           generationFirst \in BOOLEAN,
           generationFirst => Unlimited(r)
    PROVE  LET l == CostLimited(r, safe) IN
           l \in Schedulers /\ Limits(r, l, safe)
<1> USE DEF Limits, SameDensity
<1> DEFINE l == CostLimited(r, safe)
<1>2. Wanted(r) \in Nat
  BY WantedType
<1>3. CASE generationFirst
  <2>1. l = [r EXCEPT !.cost = r.max, !.unmet = -1, !.raise = 0]
    BY <1>3 DEF CostLimited, NoUnmet, Schedulers
  <2> HIDE DEF l
  <2>2. r.cost = r.max
    BY <1>3 DEF Unlimited
  <2> QED BY <1>3, <2>1, <2>2 DEF l, Alike, Unlimited, Schedulers
<1>4. CASE ~generationFirst /\ (r.cost >= r.max \/ Wanted(r) <= 10 * r.cost)
  <2>1. l = [r EXCEPT !.unmet = -1, !.raise = 0]
    BY <1>4 DEF CostLimited, NoUnmet
  <2> HIDE DEF l
  <2>2. l \in Schedulers /\ Alike(r, l)
    <3>1. l \in Schedulers
      BY <2>1, MinusOne DEF Schedulers
    <3>2. Alike(r, l)
      BY <2>1 DEF Alike, Schedulers
    <3> QED BY <3>1, <3>2
  <2>3. /\ l.locked = r.locked /\ l.candidate = r.candidate
        /\ l.evidence = r.evidence /\ l.release = r.release /\ l.phase = r.phase
        /\ l.cost = r.cost /\ l.raise = 0 /\ l.unmet = -1
    BY <2>1 DEF Schedulers
  <2> QED BY <1>4, <2>2, <2>3 DEF l
<1>5. CASE ~generationFirst /\ ~(r.cost >= r.max \/ Wanted(r) <= 10 * r.cost)
  <2>1. Wanted(r) > 10 * r.cost
    BY <1>2, <1>5 DEF Schedulers
  <2>2. CASE RaiseDue(r, safe)
    <3>1. l = [r EXCEPT !.cost = r.cost + 1, !.unmet = -1, !.raise = 0]
      BY <1>5, <2>2 DEF CostLimited, NoUnmet, Schedulers
    <3> HIDE DEF l
    <3>2. l \in Schedulers /\ Alike(r, l)
      <4>1. l \in Schedulers
        <5>1. r.cost + 1 \in Nat
          BY DEF Schedulers
        <5> QED BY <3>1, <5>1, MinusOne DEF Schedulers
      <4>2. Alike(r, l)
        BY <3>1 DEF Alike, Schedulers
      <4> QED BY <4>1, <4>2
    <3>3. /\ l.locked = r.locked /\ l.candidate = r.candidate
          /\ l.evidence = r.evidence /\ l.release = r.release /\ l.phase = r.phase
          /\ l.cost = r.cost + 1 /\ l.raise = 0 /\ l.unmet = -1
      BY <3>1 DEF Schedulers
    <3> QED BY <1>5, <2>1, <2>2, <3>2, <3>3 DEF l
  <2>3. CASE ~RaiseDue(r, safe)
    <3>1. l = [r EXCEPT !.raise = RaiseEvidence(r, safe),
                        !.unmet = AtLeast(r.unmet, 0)]
      BY <1>5, <2>3 DEF CostLimited
    <3>2. /\ RaiseEvidence(r, safe) \in Nat
          /\ AtLeast(r.unmet, 0) \in Int
      BY FrameSchedulerAssumption DEF RaiseEvidence, AtMost, AtLeast, Schedulers
    <3> HIDE DEF l
    <3> QED BY <1>5, <2>1, <3>1, <3>2 DEF l, Alike, Schedulers
  <2> QED BY <2>2, <2>3
<1> QED BY <1>3, <1>4, <1>5

\* A regime is entered after AcquireSamples samples near it, never by the first.
LEMMA AcquiringOK ==
    ASSUME NEW t \in Schedulers, t.locked = 0
    PROVE  LET a == Acquiring(t) IN
           /\ a \in Schedulers /\ Alike(t, a) /\ SameLimit(t, a)
           /\ a.phase \in {t.phase, 0}
           /\ a.locked = 0 \/ a.release = 0
           /\ t.candidate = 0 => a.locked = 0
<1> DEFINE a == Acquiring(t)
           n == Nearest(Wanted(t))
           e == IF t.candidate = n THEN t.evidence + 1 ELSE 1
<1>1. n \in Nat /\ e \in Nat
  <2>1. Wanted(t) \in Nat
    BY WantedType
  <2>2. n \in Nat
    BY <2>1 DEF Nearest
  <2> HIDE DEF n
  <2> QED BY <2>2 DEF Schedulers
<1>2. CASE ~Acquirable(t)
  <2>1. a = [t EXCEPT !.candidate = 0, !.evidence = 0]
    BY <1>2 DEF Acquiring
  <2> HIDE DEF a
  <2>2. a \in Schedulers
    BY <2>1 DEF Schedulers
  <2>3. Alike(t, a) /\ SameLimit(t, a) /\ a.phase = t.phase /\ a.locked = 0
    BY <2>1 DEF Alike, SameLimit, Schedulers
  <2> QED BY <2>2, <2>3 DEF a
<1>3. CASE Acquirable(t) /\ e >= AcquireSamples
  <2>1. a = [Unlocked(t) EXCEPT !.locked = n]
    BY <1>3 DEF Acquiring
  <2>2. n # 0
    BY <1>1, <1>3 DEF Acquirable
  <2>3. t.candidate # 0
    BY <1>3, <2>2, FrameSchedulerAssumption
  <2> HIDE DEF a, n
  <2>4. a \in Schedulers
    BY <1>1, <2>1 DEF Unlocked, Schedulers
  <2>5. Alike(t, a) /\ SameLimit(t, a) /\ a.phase = 0 /\ a.release = 0
    BY <2>1 DEF Unlocked, Alike, SameLimit, Schedulers
  <2> QED BY <2>3, <2>4, <2>5 DEF a
<1>4. CASE Acquirable(t) /\ ~(e >= AcquireSamples)
  <2>1. a = [t EXCEPT !.candidate = n, !.evidence = e]
    BY <1>4 DEF Acquiring
  <2> HIDE DEF a, n, e
  <2>2. a \in Schedulers
    BY <1>1, <2>1 DEF Schedulers
  <2>3. Alike(t, a) /\ SameLimit(t, a) /\ a.phase = t.phase /\ a.locked = 0
    BY <2>1 DEF Alike, SameLimit, Schedulers
  <2> QED BY <2>2, <2>3 DEF a
<1> QED BY <1>2, <1>3, <1>4

Outside(l) == Distance(Wanted(l), 10 * l.locked) > 2

\* A regime is left after ReleaseSamples samples outside its window, for none.
Stabilizes(l, s) ==
    /\ Alike(l, s) /\ SameLimit(l, s)
    /\ s.phase \in {l.phase, 0}
    /\ l.locked = 0 => /\ s.locked = 0 \/ s.release = 0
                       /\ l.candidate = 0 => s.locked = 0
    /\ l.locked # 0 =>
         \/ ~Outside(l) /\ s.locked = l.locked /\ s.release = 0
         \/ /\ Outside(l) /\ l.release + 1 < ReleaseSamples
            /\ s.locked = l.locked /\ s.release = l.release + 1
         \/ Outside(l) /\ l.release + 1 >= ReleaseSamples /\ s.locked = 0

\* What the stages after the cost limit may do to the regime.
LEMMA StabilizedOK ==
    ASSUME NEW l \in Schedulers
    PROVE  LET s == Stabilized(l) IN
           s \in Schedulers /\ Stabilizes(l, s)
<1> USE DEF Stabilizes
<1> DEFINE s == Stabilized(l)
<1>1. CASE l.locked = 0
  <2>1. s = Acquiring(l)
    BY <1>1 DEF Stabilized
  <2> QED BY <1>1, <2>1, AcquiringOK
<1>2. CASE l.locked # 0 /\ ~Outside(l)
  <2>1. s = [l EXCEPT !.release = 0, !.candidate = 0, !.evidence = 0]
    <3>1. Wanted(l) \in Nat
      BY WantedType
    <3>2. Distance(Wanted(l), 10 * l.locked) <= 2
      BY <1>2, <3>1 DEF Outside, Distance, Schedulers
    <3> QED BY <1>2, <3>2 DEF Stabilized, Stayed
  <2> HIDE DEF s
  <2>2. s \in Schedulers
    BY <2>1 DEF Schedulers
  <2>3. /\ Alike(l, s) /\ SameLimit(l, s) /\ s.phase = l.phase
        /\ s.locked = l.locked /\ s.release = 0
    BY <2>1 DEF Alike, SameLimit, Schedulers
  <2> QED BY <1>2, <2>2, <2>3 DEF s
<1>3. CASE l.locked # 0 /\ Outside(l)
  <2>0. ~(Distance(Wanted(l), 10 * l.locked) <= 2)
    <3>1. Wanted(l) \in Nat
      BY WantedType
    <3> QED BY <1>3, <3>1 DEF Outside, Distance, Schedulers
  <2>1. CASE l.release + 1 < ReleaseSamples
    <3>1. s = [l EXCEPT !.release = l.release + 1]
      BY <1>3, <2>0, <2>1 DEF Stabilized
    <3>2. l.release + 1 \in Nat
      BY DEF Schedulers
    <3> HIDE DEF s
    <3>3. s \in Schedulers
      BY <3>1, <3>2 DEF Schedulers
    <3>4. /\ Alike(l, s) /\ SameLimit(l, s) /\ s.phase = l.phase
          /\ s.locked = l.locked /\ s.release = l.release + 1
      BY <3>1 DEF Alike, SameLimit, Schedulers
    <3> QED BY <1>3, <2>1, <3>3, <3>4 DEF s
  <2>2. CASE ~(l.release + 1 < ReleaseSamples)
    <3> DEFINE u == Unlocked(l)
    <3>1. s = Acquiring(u)
      BY <1>3, <2>0, <2>2 DEF Stabilized
    <3>2. u \in Schedulers
      BY DEF Unlocked, Schedulers
    <3>3. /\ u.locked = 0 /\ u.candidate = 0 /\ u.phase = 0
          /\ Alike(l, u) /\ SameLimit(l, u)
      BY DEF Unlocked, Alike, SameLimit, Schedulers
    <3> HIDE DEF u, s
    <3>4. /\ s \in Schedulers /\ Alike(u, s) /\ SameLimit(u, s)
          /\ s.phase = 0 /\ s.locked = 0
      BY <3>1, <3>2, <3>3, AcquiringOK
    <3>5. Alike(l, s) /\ SameLimit(l, s)
      BY <3>3, <3>4 DEF Alike, SameLimit
    <3>6. l.release + 1 >= ReleaseSamples
      BY <2>2, FrameSchedulerAssumption DEF Schedulers
    <3> QED BY <1>3, <3>4, <3>5, <3>6 DEF s
  <2> QED BY <2>1, <2>2
<1> QED BY <1>1, <1>2, <1>3

\* The end of plan() only moves the phase.
LEMMA SpreadOK ==
    ASSUME NEW s \in Schedulers
    PROVE  LET z == Spread(s) IN
           /\ z \in Schedulers /\ Alike(s, z) /\ SameLimit(s, z)
           /\ z.locked = s.locked /\ z.release = s.release
<1> DEFINE z == Spread(s)
           f == (s.phase + Wanted(s)) % 10
<1>1. f \in Nat
  BY WantedType DEF Schedulers
<1>2. \E n \in Nat : z = [s EXCEPT !.phase = n]
  <2>1. CASE s.locked # 0
    BY <2>1 DEF Spread
  <2>2. CASE s.locked = 0
    BY <1>1, <2>2 DEF Spread
  <2> QED BY <2>1, <2>2
<1>3. PICK n \in Nat : z = [s EXCEPT !.phase = n]
  BY <1>2
<1> HIDE DEF z
<1>4. z \in Schedulers
  BY <1>3 DEF Schedulers
<1>5. /\ Alike(s, z) /\ SameLimit(s, z)
      /\ z.locked = s.locked /\ z.release = s.release
  BY <1>3 DEF Alike, SameLimit, Schedulers
<1> QED BY <1>4, <1>5 DEF z

\* What was asked, counted apart from the scheduler, is not less than what the
\* scheduler has counted.
LEMMA AskedOK ==
    ASSUME PlannerTypes, Earned, NEW r \in Schedulers,
           NEW safe \in BOOLEAN, NEW step \in 1..MaxStep, Rates(sched, r, step)
    PROVE  LET a == Asked(r, safe, step) IN
           /\ a \in [limit : Nat, hints : Nat, time : Int]
           /\ Wanted(r) > 10 * r.cost =>
                /\ a.limit = r.cost
                /\ a.hints >= RaiseEvidence(r, safe) /\ a.hints <= RaiseSamples
                /\ a.time >= AtLeast(r.unmet, 0) /\ a.time <= Sustained
<1>0. Sustained \in Nat /\ RaiseSamples \in Nat /\ step \in Nat
  BY FrameSchedulerAssumption
<1> DEFINE since == AskedSince(r)
           hints == IF safe THEN AtMost(since.hints + 1, RaiseSamples) ELSE 0
           time  == IF since.time < 0 THEN 0
                    ELSE AtMost(since.time + step, Sustained)
<1>1. /\ NotAsked \in [limit : Nat, hints : Nat, time : Int]
      /\ NotAsked.hints = 0 /\ NotAsked.time = -1
  BY MinusOne DEF NotAsked
<1>2. since \in [limit : Nat, hints : Nat, time : Int]
  BY <1>1 DEF AskedSince, PlannerTypes
<1>3. r.raise > 0 => since.hints >= r.raise
  BY DEF AskedSince, Earned, Rates
<1>4. sched.unmet >= 0 => since.time >= sched.unmet
  BY DEF AskedSince, Earned, Rates
<1>5. sched.unmet \in Int /\ r.raise \in Nat /\ r.cost \in Nat
  BY DEF PlannerTypes, Schedulers
<1> HIDE DEF since
<1>6. hints \in Nat /\ hints <= RaiseSamples /\ time \in Nat /\ time <= Sustained
  BY <1>0, <1>2 DEF AtMost
<1>7. hints >= RaiseEvidence(r, safe)
  BY <1>0, <1>2, <1>3, <1>5 DEF AtMost, RaiseEvidence
<1>8. time >= AtLeast(r.unmet, 0)
  <2>1. CASE sched.unmet < 0
    <3>1. r.unmet = -1
      BY <2>1 DEF Rates
    <3> HIDE DEF time
    <3> QED BY <1>6, <3>1 DEF AtLeast
  <2>2. CASE ~(sched.unmet < 0)
    <3>1. r.unmet = AtMost(sched.unmet + step, Sustained)
      BY <2>2 DEF Rates
    <3>2. since.time >= sched.unmet /\ sched.unmet >= 0
      BY <1>4, <1>5, <2>2
    <3> QED BY <1>0, <1>2, <1>5, <3>1, <3>2 DEF AtLeast, AtMost
  <2> QED BY <2>1, <2>2
<1>9. CASE Wanted(r) <= 10 * r.cost
  <2>1. ~(Wanted(r) > 10 * r.cost)
    BY <1>5, <1>9, WantedType
  <2> QED BY <1>1, <1>9, <2>1 DEF Asked
<1>10. CASE ~(Wanted(r) <= 10 * r.cost)
  <2>1. Asked(r, safe, step) = [limit |-> r.cost, hints |-> hints, time |-> time]
    BY <1>10 DEF Asked, since
  <2> HIDE DEF hints, time
  <2> QED BY <1>5, <1>6, <1>7, <1>8, <2>1
<1> QED BY <1>9, <1>10

-----------------------------------------------------------------------------
(* The invariant *)

\* A configuration has numbers for its target and maximum.
LEMMA ConfigurationType ==
    ASSUME NEW c \in Configurations
    PROVE  c \in [adaptive : BOOLEAN, target : Nat, max : Nat]
<1>1. c \in [adaptive : BOOLEAN, target : Targets, max : 0..MaxGenerated]
  BY DEF Configurations
<1>2. Targets \subseteq Nat
  BY FrameSchedulerAssumption
<1>3. 0..MaxGenerated \subseteq Nat
  BY PresentationCapacityAssumption
<1> QED BY <1>1, <1>2, <1>3

\* A cold scheduler makes a new epoch, wherever it comes from.
LEMMA ColdBegins ==
    ASSUME PlannerTypes, generationFirst' = generationFirst, paced' \in BOOLEAN,
           conf' \in [adaptive : BOOLEAN, target : Nat, max : Nat],
           sched' \in Schedulers, Cold(sched'), sched'.warmStart = FALSE,
           paced' \/ sched'.established => Matches(sched', conf'),
           \/ timeline' = FALSE
           \/ timeline' = TRUE /\ ~(conf'.adaptive /\ Active(sched')),
           asked' = NotAsked, strayed' = 0
    PROVE  PlannerInv'
<1>1. asked' \in [limit : Nat, hints : Nat, time : Int]
  BY MinusOne DEF NotAsked
<1>2. PlannerTypes'
  BY <1>1 DEF PlannerTypes
<1>3. Cold(sched)'
  BY DEF Cold, BaseCost
<1>4. generationFirst' => Unlimited(sched')
  BY ColdIsUnlimited
<1>5. Epoch'
  <2>1. /\ sched'.smoothed = 0 /\ ~sched'.trusted
    BY DEF Cold
  <2>2. (paced \/ sched.established => Matches(sched, conf))'
    BY DEF Matches, TargetOf
  <2>3. (conf.adaptive /\ Active(sched) => (timeline <=> sched.trusted))'
    BY <2>1 DEF Active
  <2>4. (generationFirst => Unlimited(sched))'
    BY <1>4 DEF Unlimited
  <2>5. ~(sched'.smoothed > 0)
    BY <2>1
  <2> QED BY <1>3, <2>2, <2>3, <2>4, <2>5 DEF Epoch
<1>6. Earned' /\ Regime'
  BY DEF Cold, Earned, Regime
<1> QED BY <1>2, <1>5, <1>6 DEF PlannerInv

\* A reset of everything, the scheduler included.
LEMMA ResetBegins ==
    ASSUME PlannerTypes, generationFirst' = generationFirst,
           conf' \in [adaptive : BOOLEAN, target : Nat, max : Nat],
           NEW s \in Schedulers, ResetEpoch(SchedulerReset(s)),
           paced' = FALSE
    PROVE  PlannerInv'
<1>1. sched' = SchedulerReset(s)
  BY DEF ResetEpoch
<1>2. /\ sched' \in Schedulers /\ Cold(sched') /\ sched'.warmStart = FALSE
      /\ sched'.established = FALSE
  BY <1>1, ResetsAreCold DEF PlannerTypes
<1> QED BY <1>2, ColdBegins DEF ResetEpoch

\* A present without an interval: what it configures is cold.
LEMMA UnpacedBegins ==
    ASSUME PlannerTypes, NEW s \in Schedulers, NEW c, NEW remaining,
           c \in [adaptive : BOOLEAN, target : Nat, max : Nat],
           Cold(s), s.established => Matches(s, c), s.warmStart = FALSE,
           UnpacedCycle(s, c, remaining), conf' = c
    PROVE  PlannerInv'
<1>1. /\ sched' = Prepared(s, c) /\ timeline' = FALSE /\ paced' = TRUE
      /\ asked' = NotAsked /\ strayed' = 0 /\ generationFirst' = generationFirst
  BY DEF UnpacedCycle
<1>2. /\ sched' \in Schedulers /\ Cold(sched') /\ Matches(sched', c)
      /\ sched'.warmStart = FALSE
  BY <1>1, PreparedIsCold DEF PlannerTypes
<1> QED BY <1>1, <1>2, ColdBegins

\* With an interval, a present finds the scheduler as it left it.
LEMMA PacedIsPrepared ==
    ASSUME PlannerInv, HasInterval
    PROVE  Prepared(sched, conf) = sched
BY PreparedIsSame DEF PlannerInv, PlannerTypes, Epoch, HasInterval

\* The scheduler is cold before the first present.
LEMMA PlannerStarts == PlannerInit => PlannerInv
<1> SUFFICES ASSUME PlannerInit PROVE PlannerInv
  OBVIOUS
<1>1. sched \in Schedulers
  BY MinusOne DEF PlannerInit, NewScheduler, Schedulers
<1>2. /\ Cold(sched) /\ ~sched.warmStart /\ ~sched.established /\ sched.max = 0
      /\ sched.smoothed = 0 /\ sched.locked = 0
      /\ sched.raise = 0 /\ sched.unmet = -1 /\ sched.cost = 0
  BY DEF PlannerInit, NewScheduler, Cold, BaseCost
<1>3. PlannerTypes
  BY <1>1, ConfigurationType, MinusOne DEF PlannerInit, NotAsked, PlannerTypes
<1>4. Epoch
  BY <1>2 DEF PlannerInit, Epoch, Active, Unlimited
<1>5. Earned /\ Regime
  BY <1>2 DEF Earned, Regime
<1> QED BY <1>3, <1>4, <1>5 DEF PlannerInv

\* One plan(), stage by stage.
LEMMA PlanStages ==
    ASSUME PlannerInv, AdaptiveCycle
    PROVE  \E r, l, s \in Schedulers, step \in 1..MaxStep, safe \in BOOLEAN :
             /\ Rates(sched, r, step) /\ Limits(r, l, safe) /\ Stabilizes(l, s)
             /\ sched' = Spread(s)
             /\ planned' = AtMost(WholeFrames(s), s.cost)
             /\ asked' = Asked(r, safe, step)
             /\ strayed' = Strayed(r)
<1>1. Prepared(sched, conf) = sched
  BY PacedIsPrepared DEF AdaptiveCycle
<1>2. PICK p \in {Prepared(sched, conf)} :
        /\ Active(p)
        /\ \E held \in {FALSE, p.trusted}, step \in 1..MaxStep, safe \in BOOLEAN,
              period \in SmoothedTo(p), steady \in BOOLEAN :
             /\ held => ~steady /\ period = p.smoothed
             /\ undisturbed => period >= 10 + 10 * conf.max
             /\ \E rated \in {Rated(p, held, period, steady, step)} :
                \E warmed \in {WarmStarted(rated)} :
                \E limited \in {CostLimited(warmed, safe)} :
                \E s \in {Stabilized(limited)} :
                  /\ sched' = Spread(s)
                  /\ planned' = AtMost(WholeFrames(s), s.cost)
                  /\ asked' = Asked(rated, safe, step)
                  /\ strayed' = Strayed(rated)
  BY DEF AdaptiveCycle
<1>3. p = sched
  BY <1>1
<1>4. PICK held \in {FALSE, p.trusted}, step \in 1..MaxStep, safe \in BOOLEAN,
           period \in SmoothedTo(p), steady \in BOOLEAN :
        /\ held => ~steady /\ period = p.smoothed
        /\ undisturbed => period >= 10 + 10 * conf.max
        /\ \E rated \in {Rated(p, held, period, steady, step)} :
           \E warmed \in {WarmStarted(rated)} :
           \E limited \in {CostLimited(warmed, safe)} :
           \E s \in {Stabilized(limited)} :
             /\ sched' = Spread(s)
             /\ planned' = AtMost(WholeFrames(s), s.cost)
             /\ asked' = Asked(rated, safe, step)
             /\ strayed' = Strayed(rated)
  BY <1>2
<1> DEFINE r == Rated(sched, held, period, steady, step)
           l == CostLimited(r, safe)
           s == Stabilized(l)
<1>5. r \in Schedulers /\ Rates(sched, r, step)
  <2>1. sched \in Schedulers /\ (sched.trusted => sched.smoothed > 0)
    BY DEF PlannerInv, PlannerTypes, Epoch, Cold, Schedulers
  <2> QED BY <1>3, <2>1, RatedOK
<1>6. r.warmStart = FALSE /\ (generationFirst => Unlimited(r))
  <2>1. ~sched.warmStart /\ (generationFirst => Unlimited(sched)) /\ sched \in Schedulers
    BY DEF PlannerInv, PlannerTypes, Epoch
  <2> HIDE DEF r
  <2> QED BY <1>5, <2>1 DEF Rates, Unlimited, Schedulers
<1>7. WarmStarted(r) = r
  BY <1>6 DEF WarmStarted
<1>8. l \in Schedulers /\ Limits(r, l, safe)
  BY <1>5, <1>6, LimitedOK DEF PlannerInv, PlannerTypes
<1>9. s \in Schedulers /\ Stabilizes(l, s)
  BY <1>8, StabilizedOK
<1>10. /\ sched' = Spread(s)
      /\ planned' = AtMost(WholeFrames(s), s.cost)
      /\ asked' = Asked(r, safe, step)
      /\ strayed' = Strayed(r)
  BY <1>3, <1>4, <1>7
<1> HIDE DEF r, l, s
<1> QED BY <1>5, <1>8, <1>9, <1>10

\* Within an epoch the stages keep the regime's bookkeeping in step with what
\* the source did.
LEMMA RegimeKeeps ==
    ASSUME PlannerInv, NEW r \in Schedulers, NEW l \in Schedulers,
           NEW s \in Schedulers, NEW step, NEW safe,
           Rates(sched, r, step), Limits(r, l, safe), Stabilizes(l, s),
           sched' = Spread(s), strayed' = Strayed(r)
    PROVE  /\ sched'.locked # 0 =>
                strayed' = sched'.release /\ sched'.release < ReleaseSamples
           /\ sched.locked # 0 /\ sched'.locked # sched.locked =>
                strayed = ReleaseSamples - 1 /\ sched'.locked = 0
           /\ strayed' \in Nat
<1>0. ReleaseSamples \in Nat /\ ReleaseSamples > 0
  BY FrameSchedulerAssumption
<1>1. /\ r.locked = sched.locked /\ l.locked = sched.locked
      /\ l.release = sched.release /\ r.candidate = sched.candidate
  BY DEF Rates, Limits, SameDensity
<1>2. Wanted(l) = Wanted(r)
  BY WantedSame DEF Limits, Alike
<1>3. Outside(r) = Outside(l)
  BY <1>1, <1>2 DEF Outside
<1>4. sched'.locked = s.locked /\ sched'.release = s.release
  BY SpreadOK
<1>5. strayed \in Nat /\ sched.release \in Nat
  BY DEF PlannerInv, PlannerTypes, Schedulers
<1>6. strayed' = IF r.locked # 0 /\ Outside(r)
                 THEN AtMost(strayed + 1, ReleaseSamples) ELSE 0
  BY DEF Strayed, Outside
<1>7. CASE sched.locked = 0
  <2>1. strayed' = 0
    BY <1>1, <1>6, <1>7
  <2>2. s.locked = 0 \/ s.release = 0
    BY <1>1, <1>7 DEF Stabilizes
  <2> QED BY <1>0, <1>4, <1>7, <2>1, <2>2
<1>8. CASE sched.locked # 0
  <2>1. strayed = sched.release /\ sched.release < ReleaseSamples
    BY <1>8 DEF PlannerInv, Regime
  <2>2. CASE ~Outside(l)
    <3>1. strayed' = 0 /\ s.locked = l.locked /\ s.release = 0
      BY <1>1, <1>3, <1>6, <1>8, <2>2 DEF Stabilizes
    <3> QED BY <1>0, <1>1, <1>4, <3>1
  <2>3. CASE Outside(l) /\ sched.release + 1 < ReleaseSamples
    <3>1. s.locked = l.locked /\ s.release = l.release + 1
      BY <1>0, <1>1, <1>5, <1>8, <2>3 DEF Stabilizes
    <3>2. strayed' = strayed + 1
      BY <1>0, <1>1, <1>3, <1>5, <1>6, <1>8, <2>1, <2>3 DEF AtMost
    <3> QED BY <1>1, <1>4, <1>5, <2>1, <2>3, <3>1, <3>2
  <2>4. CASE Outside(l) /\ sched.release + 1 >= ReleaseSamples
    <3>1. s.locked = 0
      BY <1>0, <1>1, <1>5, <1>8, <2>4 DEF Stabilizes
    <3>2. strayed = ReleaseSamples - 1
      BY <1>0, <1>5, <2>1, <2>4
    <3>3. strayed' \in Nat
      BY <1>0, <1>5, <1>6 DEF AtMost
    <3> QED BY <1>4, <3>1, <3>2, <3>3
  <2> QED BY <1>0, <1>5, <2>2, <2>3, <2>4
<1> QED BY <1>7, <1>8

\* An interval that is planned keeps epoch, counters and regime.
LEMMA AdaptivePlanner == PlannerInv /\ AdaptiveCycle => PlannerInv'
<1> SUFFICES ASSUME PlannerInv, AdaptiveCycle PROVE PlannerInv'
  OBVIOUS
<1>1. PICK r, l, s \in Schedulers, step \in 1..MaxStep, safe \in BOOLEAN :
        /\ Rates(sched, r, step) /\ Limits(r, l, safe) /\ Stabilizes(l, s)
        /\ sched' = Spread(s)
        /\ asked' = Asked(r, safe, step)
        /\ strayed' = Strayed(r)
  BY PlanStages
<1>2. /\ timeline' = TRUE /\ paced /\ paced' = paced /\ conf' = conf
      /\ generationFirst' = generationFirst /\ conf.adaptive
  BY DEF AdaptiveCycle, HasInterval
<1>3. PlannerTypes /\ Epoch /\ Earned
  BY DEF PlannerInv
<1>4. Active(sched)
  <2>1. Prepared(sched, conf) = sched
    BY PacedIsPrepared DEF AdaptiveCycle
  <2> QED BY <2>1 DEF AdaptiveCycle
<1>5. /\ sched' \in Schedulers /\ Alike(s, sched') /\ SameLimit(s, sched')
  BY <1>1, SpreadOK
<1>6. /\ Alike(r, sched') /\ SameLimit(l, sched')
  BY <1>1, <1>5 DEF Alike, SameLimit, Limits, Stabilizes
<1>7. asked' \in [limit : Nat, hints : Nat, time : Int]
  BY <1>1, <1>3, AskedOK
<1>8. PlannerTypes' /\ Regime'
  BY <1>1, <1>2, <1>3, <1>5, <1>7, RegimeKeeps DEF PlannerTypes, Regime
<1>9. Epoch'
  <2>1. /\ sched'.smoothed > 0 /\ sched'.trusted /\ sched'.warmStart = sched.warmStart
        /\ sched'.target = sched.target /\ sched'.max = sched.max
    BY <1>1, <1>6 DEF Alike, Rates
  <2>2. Active(sched)'
    BY <1>4, <2>1 DEF Active
  <2>3. (paced \/ sched.established => Matches(sched, conf))'
    BY <1>2, <1>3, <2>1 DEF Epoch, Matches, TargetOf
  <2>4. sched'.smoothed # 0
    BY <1>5, <2>1 DEF Schedulers
  <2>5. (generationFirst => Unlimited(sched))'
    <3>1. generationFirst => Unlimited(l)
      BY <1>1 DEF Limits
    <3>2. l.max = sched'.max
      BY <1>1, <1>6 DEF Limits, Alike
    <3> QED BY <1>2, <1>6, <3>1, <3>2 DEF Unlimited, SameLimit
  <2> QED BY <1>2, <1>3, <2>1, <2>2, <2>3, <2>4, <2>5 DEF Epoch
<1>10. Earned'
  <2>1. /\ sched'.cost = l.cost /\ sched'.raise = l.raise /\ sched'.unmet = l.unmet
    BY <1>6 DEF SameLimit
  <2>2. CASE l.raise = 0 /\ l.unmet = -1
    BY <2>1, <2>2 DEF Earned
  <2>3. CASE /\ Wanted(r) > 10 * r.cost
             /\ l.cost = r.cost /\ l.raise = RaiseEvidence(r, safe)
             /\ l.unmet = AtLeast(r.unmet, 0)
    <3>1. /\ asked'.limit = r.cost /\ asked'.hints >= RaiseEvidence(r, safe)
          /\ asked'.time >= AtLeast(r.unmet, 0)
      BY <1>1, <1>3, <2>3, AskedOK
    <3> QED BY <2>1, <2>3, <3>1 DEF Earned
  <2> QED BY <1>1, <2>2, <2>3 DEF Limits
<1> QED BY <1>8, <1>9, <1>10 DEF PlannerInv

\* A mode or a target without a plan finds the scheduler cold.
LEMMA UnplannedPlanner ==
    PlannerInv /\ (IdleCycle \/ FixedCycle) => PlannerInv'
<1> SUFFICES ASSUME PlannerInv, IdleCycle \/ FixedCycle
             PROVE  PlannerInv'
  OBVIOUS
<1>1. Prepared(sched, conf) = sched
  BY PacedIsPrepared DEF IdleCycle, FixedCycle
<1>2. ~(conf.adaptive /\ Active(sched))
  BY <1>1 DEF IdleCycle, FixedCycle
<1>3. /\ sched' = sched /\ timeline' = TRUE /\ asked' = NotAsked /\ strayed' = 0
      /\ paced /\ paced' = paced /\ conf' = conf /\ generationFirst' = generationFirst
  BY <1>1 DEF IdleCycle, FixedCycle, HasInterval
<1>4. PlannerTypes /\ Epoch
  BY DEF PlannerInv
<1>5. Cold(sched)
  BY <1>2, <1>4 DEF Epoch, PlannerTypes, Schedulers
<1> QED
  <2>1. sched \in Schedulers /\ conf \in [adaptive : BOOLEAN, target : Nat, max : Nat]
    BY <1>4 DEF PlannerTypes
  <2>2. sched.warmStart = FALSE /\ Matches(sched, conf)
    BY <1>3, <1>4, <2>1 DEF Epoch, Schedulers
  <2>3. ~(conf'.adaptive /\ Active(sched'))
    BY <1>2, <1>3
  <2>4. Cold(sched') /\ Matches(sched', conf')
    BY <1>3, <1>5, <2>2
  <2> QED BY <1>3, <1>4, <2>1, <2>2, <2>3, <2>4, ColdBegins DEF PlannerTypes

\* A reload resets, with or without generation.
LEMMA ResetPlanner ==
    ASSUME PlannerInv, NEW c \in Configurations,
           SwitchOff(c) \/ ReloadedCycle(c)
    PROVE  PlannerInv'
<1>0. /\ PlannerTypes /\ Epoch /\ sched \in Schedulers
      /\ conf \in [adaptive : BOOLEAN, target : Nat, max : Nat]
      /\ c \in [adaptive : BOOLEAN, target : Nat, max : Nat]
  BY ConfigurationType DEF PlannerInv, PlannerTypes
<1>1. CASE SwitchOff(c)
  BY <1>0, <1>1, ResetBegins DEF SwitchOff
<1>2. CASE ReloadedCycle(c)
  <2> DEFINE s == SchedulerReset(sched)
  <2>1. /\ s \in Schedulers /\ Cold(s) /\ s.warmStart = FALSE /\ s.established = FALSE
    BY <1>0, ResetsAreCold DEF PlannerTypes
  <2>2. conf' = c /\ UnpacedCycle(s, c, FullWarmup)
    BY <1>2 DEF ReloadedCycle
  <2> HIDE DEF s
  <2> QED BY <1>0, <2>1, <2>2, UnpacedBegins
<1> QED BY <1>1, <1>2

\* So do an interruption, a rejected and a discontinuous present.
LEMMA BrokenPlanner ==
    ASSUME PlannerInv,
           \/ Interrupt \/ RejectedCycle \/ DiscontinuousCycle
    PROVE  PlannerInv'
<1>0. /\ PlannerTypes /\ Epoch /\ sched \in Schedulers
      /\ conf \in [adaptive : BOOLEAN, target : Nat, max : Nat]
  BY DEF PlannerInv, PlannerTypes
<1>1. CASE Interrupt
  BY <1>0, <1>1, ResetBegins DEF Interrupt
<1>2. CASE RejectedCycle
  <2>1. Prepared(sched, conf) = sched
    BY <1>2, PacedIsPrepared DEF RejectedCycle
  <2> QED BY <1>0, <1>2, <2>1, ResetBegins DEF RejectedCycle
<1>3. CASE DiscontinuousCycle
  <2>1. Prepared(sched, conf) = sched
    BY <1>3, PacedIsPrepared DEF DiscontinuousCycle
  <2>2. /\ sched' = Discontinued(sched) /\ timeline' = FALSE
        /\ asked' = NotAsked /\ strayed' = 0
        /\ paced' = FALSE /\ conf' = conf /\ generationFirst' = generationFirst
    BY <1>3, <2>1 DEF DiscontinuousCycle, ResetEpoch
  <2>3. /\ sched' \in Schedulers /\ Cold(sched')
        /\ sched'.warmStart = sched.warmStart
        /\ sched'.target = sched.target /\ sched'.max = sched.max
    BY <1>0, <2>2, ResetsAreCold DEF PlannerTypes
  <2>4. Matches(sched, conf) /\ sched.warmStart = FALSE
    BY <1>0, <1>3 DEF Epoch, DiscontinuousCycle, HasInterval, Schedulers
  <2>5. Matches(sched', conf')
    BY <2>2, <2>3, <2>4 DEF Matches
  <2> QED BY <1>0, <2>2, <2>3, <2>4, <2>5, ColdBegins
<1> QED BY <1>1, <1>2, <1>3

\* The first present of an epoch configures a cold scheduler.
LEMMA FirstPlanner == PlannerInv /\ FirstCycle => PlannerInv'
<1> SUFFICES ASSUME PlannerInv, FirstCycle PROVE PlannerInv'
  OBVIOUS
<1>1. /\ PlannerTypes /\ Epoch /\ sched \in Schedulers
      /\ conf \in [adaptive : BOOLEAN, target : Nat, max : Nat]
  BY DEF PlannerInv, PlannerTypes
<1>2. /\ ~paced /\ UnpacedCycle(sched, conf, warmup) /\ conf' = conf
  BY DEF FirstCycle
<1>3. Cold(sched) /\ sched.warmStart = FALSE /\ (sched.established => Matches(sched, conf))
  BY <1>1, <1>2 DEF Epoch, Schedulers
<1> QED BY <1>1, <1>2, <1>3, UnpacedBegins

\* What neither plans nor resets.
LEMMA QuietPlanner ==
    PlannerInv /\ (BusyPass \/ GoUndisturbed \/ UNCHANGED plannerVars)
      => PlannerInv'
<1> SUFFICES ASSUME PlannerInv,
                    BusyPass \/ GoUndisturbed \/ UNCHANGED plannerVars
             PROVE  PlannerInv'
  OBVIOUS
<1>1. /\ generationFirst' = generationFirst /\ conf' = conf /\ sched' = sched
      /\ timeline' = timeline /\ paced' = paced /\ asked' = asked /\ strayed' = strayed
  BY DEF BusyPass, GoUndisturbed, plannerVars
<1> QED BY <1>1 DEF PlannerInv, PlannerTypes, Epoch, Earned, Regime, Cold, Matches,
       Unlimited, BaseCost, Active, TargetOf

\* The invariant is inductive ...
LEMMA PlannerSteps == PlannerInv /\ [PlannerNext]_plannerVars => PlannerInv'
<1> SUFFICES ASSUME PlannerInv, [PlannerNext]_plannerVars PROVE PlannerInv'
  OBVIOUS
<1>1. CASE \E c \in Configurations :
             SwitchOff(c) \/ ReloadedCycle(c)
  BY <1>1, ResetPlanner
<1>2. CASE \/ Interrupt \/ DiscontinuousCycle \/ RejectedCycle
  BY <1>2, BrokenPlanner
<1>3. CASE FirstCycle
  BY <1>3, FirstPlanner
<1>4. CASE AdaptiveCycle
  BY <1>4, AdaptivePlanner
<1>5. CASE IdleCycle \/ FixedCycle
  BY <1>5, UnplannedPlanner
<1>6. CASE BusyPass \/ GoUndisturbed \/ UNCHANGED plannerVars
  BY <1>6, QuietPlanner
<1> QED BY <1>1, <1>2, <1>3, <1>4, <1>5, <1>6 DEF PlannerNext

\* ... and so it holds.
LEMMA PlannerHolds == PlannerSpec => []PlannerInv
<1>1. PlannerInit => PlannerInv
  BY PlannerStarts
<1>2. PlannerInv /\ [PlannerNext]_plannerVars => PlannerInv'
  BY PlannerSteps
<1> QED BY <1>1, <1>2, PTL DEF PlannerSpec

\* Only plan() moves a scheduler and leaves it with a period.
LEMMA OnlyPlansMove ==
    ASSUME PlannerInv, [PlannerNext]_plannerVars
    PROVE  AdaptiveCycle \/ sched' = sched \/ sched'.smoothed = 0
<1>0. /\ PlannerTypes /\ Epoch /\ sched \in Schedulers
      /\ conf \in [adaptive : BOOLEAN, target : Nat, max : Nat]
      /\ generationFirst \in BOOLEAN
  BY DEF PlannerInv, PlannerTypes
<1>1. /\ SchedulerReset(sched) \in Schedulers
      /\ SchedulerReset(sched).smoothed = 0
      /\ SchedulerReset(sched).warmStart = FALSE
      /\ SchedulerReset(sched).established = FALSE
      /\ Cold(SchedulerReset(sched))
      /\ Discontinued(sched).smoothed = 0
  BY <1>0, ResetsAreCold DEF Cold
<1>2. ASSUME HasInterval PROVE Prepared(sched, conf) = sched
  BY <1>2, PacedIsPrepared
<1>3. ASSUME NEW c \in Configurations, SwitchOff(c) PROVE sched'.smoothed = 0
  BY <1>1, <1>3 DEF SwitchOff, ResetEpoch
<1>4. ASSUME NEW c \in Configurations, ReloadedCycle(c)
      PROVE  sched'.smoothed = 0
  <2> DEFINE s == SchedulerReset(sched)
  <2>1. sched' = Prepared(s, c)
    BY <1>4 DEF ReloadedCycle, UnpacedCycle
  <2>2. c \in [adaptive : BOOLEAN, target : Nat, max : Nat]
    BY ConfigurationType
  <2>3. s \in Schedulers /\ Cold(s) /\ s.warmStart = FALSE /\ s.established = FALSE
    BY <1>1
  <2> HIDE DEF s
  <2>4. Cold(Prepared(s, c))
    BY <1>0, <2>2, <2>3, PreparedIsCold
  <2> QED BY <2>1, <2>4 DEF Cold
<1>5. ASSUME FirstCycle PROVE sched'.smoothed = 0
  <2>1. sched' = Prepared(sched, conf) /\ ~paced
    BY <1>5 DEF FirstCycle, UnpacedCycle
  <2>2. Cold(sched) /\ sched.warmStart = FALSE /\ (sched.established => Matches(sched, conf))
    BY <1>0, <2>1 DEF Epoch, Schedulers
  <2>3. Cold(Prepared(sched, conf))
    BY <1>0, <2>2, PreparedIsCold
  <2> QED BY <2>1, <2>3 DEF Cold
<1>6. ASSUME Interrupt \/ RejectedCycle \/ DiscontinuousCycle
      PROVE  sched'.smoothed = 0
  BY <1>1, <1>2, <1>6 DEF Interrupt, RejectedCycle,
     DiscontinuousCycle, ResetEpoch
<1>7. ASSUME \/ IdleCycle \/ FixedCycle \/ BusyPass
             \/ GoUndisturbed \/ UNCHANGED plannerVars
      PROVE  sched' = sched
  BY <1>2, <1>7 DEF IdleCycle, FixedCycle, BusyPass,
     GoUndisturbed, plannerVars
<1> QED BY <1>3, <1>4, <1>5, <1>6, <1>7 DEF PlannerNext

-----------------------------------------------------------------------------
\* The timeline and the scheduler (updateSourceRate and the discontinuity tests
\* of present) never end up apart, for every set of targets and every bound.
THEOREM DetectorsAgree == PlannerSpec => []CadenceInTandem
<1>1. PlannerInv => CadenceInTandem
  BY DEF PlannerInv, PlannerTypes, Epoch, Cold, CadenceInTandem, Schedulers
<1> QED BY <1>1, PlannerHolds, PTL

\* A changed target or multiplier never warm-starts the cost limit, although
\* configure() provides for it where there was a cadence: the present that finds
\* the change has reset the scheduler before (resetAdaptiveSourceEpoch).  It is
\* the other side of IntentSurvives.
THEOREM ReloadsStartCold == PlannerSpec => []~sched.warmStart
<1>1. PlannerInv => ~sched.warmStart
  BY DEF PlannerInv, Epoch
<1> QED BY <1>1, PlannerHolds, PTL

\* The first interval of an epoch is planned (plan) without a phase or a regime of
\* before, and unless the target or the multiplier has changed also without a
\* cost limit of before.  A single hint must not be enough to raise the limit;
\* the code asks for four.
THEOREM EpochsStartFresh ==
    ASSUME RaiseSamples >= 2
    PROVE  PlannerSpec => FreshStart
<1>1. PlannerInv /\ [PlannerNext]_plannerVars =>
        [sched.smoothed = 0 /\ sched'.smoothed > 0 =>
            /\ planned' <= Wanted(sched') \div 10
            /\ generationFirst \/ retargeted \/ planned' <= 1]_plannerVars
  <2> SUFFICES ASSUME PlannerInv, [PlannerNext]_plannerVars,
                      sched.smoothed = 0, sched'.smoothed > 0
               PROVE  /\ planned' <= Wanted(sched') \div 10
                      /\ generationFirst \/ retargeted \/ planned' <= 1
    OBVIOUS
  <2>1. AdaptiveCycle
    BY OnlyPlansMove
  <2>2. PICK r, l, s \in Schedulers, step \in 1..MaxStep, safe \in BOOLEAN :
          /\ Rates(sched, r, step) /\ Limits(r, l, safe) /\ Stabilizes(l, s)
          /\ sched' = Spread(s)
          /\ planned' = AtMost(WholeFrames(s), s.cost)
    BY <2>1, PlanStages
  <2>3. Cold(sched) /\ sched \in Schedulers
    BY DEF PlannerInv, PlannerTypes, Epoch
  <2>4. s.locked = 0 /\ s.phase = 0
    BY <2>2, <2>3 DEF Cold, Rates, Limits, Stabilizes, SameDensity
  <2>5. WholeFrames(s) = Wanted(s) \div 10
    BY <2>4, WantedType DEF WholeFrames
  <2>6. Wanted(sched') = Wanted(s)
    BY <2>2, SpreadOK, WantedSame DEF Alike
  <2>7. planned' <= Wanted(sched') \div 10
    <3>1. Wanted(s) \div 10 \in Nat /\ s.cost \in Nat
      BY WantedType DEF Schedulers
    <3> QED BY <2>2, <2>5, <2>6, <3>1 DEF AtMost
  <2>8. generationFirst \/ s.cost <= 1
    <3>1. r.raise = 0 /\ r.unmet = -1 /\ r.cost = BaseCost(sched)
      BY <2>2, <2>3 DEF Cold, Rates
    <3>2. ~RaiseDue(r, safe)
      BY <3>1, FrameSchedulerAssumption DEF RaiseDue, RaiseEvidence, AtMost
    <3>3. l.cost = r.cost /\ s.cost = l.cost
      BY <2>2, <3>2 DEF Limits, Stabilizes, SameLimit
    <3> QED BY <3>1, <3>3 DEF BaseCost
  <2>9. generationFirst \/ planned' <= 1
    <3>1. Wanted(s) \div 10 \in Nat /\ s.cost \in Nat
      BY WantedType DEF Schedulers
    <3> QED BY <2>2, <2>5, <2>8, <3>1 DEF AtMost
  <2> QED BY <2>7, <2>9
<1>2. PlannerSpec => []PlannerInv
  BY PlannerHolds
<1> QED BY <1>1, <1>2, PTL DEF PlannerSpec, FreshStart

\* Within an epoch the cost limit (updateCostLimit) rises only on consecutive
\* hints that the next level is safe or on sustained demand, as counted apart
\* from the scheduler.
THEOREM RaisesAreEarned == PlannerSpec => RaiseIsEarned
<1>1. PlannerInv /\ [PlannerNext]_plannerVars =>
        [sched'.cost > sched.cost /\ sched.smoothed > 0 /\ sched'.smoothed > 0
           => asked'.hints = RaiseSamples \/ asked'.time = Sustained]_plannerVars
  <2> SUFFICES ASSUME PlannerInv, [PlannerNext]_plannerVars,
                      sched'.cost > sched.cost, sched'.smoothed > 0
               PROVE  asked'.hints = RaiseSamples \/ asked'.time = Sustained
    OBVIOUS
  <2>0. /\ sched.cost \in Nat /\ PlannerTypes /\ Earned
        /\ RaiseSamples \in Nat /\ Sustained \in Nat
    BY FrameSchedulerAssumption DEF PlannerInv, PlannerTypes, Schedulers
  <2>1. AdaptiveCycle
    BY <2>0, OnlyPlansMove
  <2>2. PICK r, l, s \in Schedulers, step \in 1..MaxStep, safe \in BOOLEAN :
          /\ Rates(sched, r, step) /\ Limits(r, l, safe) /\ Stabilizes(l, s)
          /\ sched' = Spread(s)
          /\ asked' = Asked(r, safe, step)
    BY <2>1, PlanStages
  <2>3. r.cost = sched.cost /\ sched'.cost = l.cost
    BY <2>2, SpreadOK DEF Rates, Stabilizes, SameLimit
  <2>4. Wanted(r) > 10 * r.cost /\ RaiseDue(r, safe)
    BY <2>0, <2>2, <2>3 DEF Limits
  <2>5. /\ asked' \in [limit : Nat, hints : Nat, time : Int]
        /\ asked'.hints >= RaiseEvidence(r, safe) /\ asked'.hints <= RaiseSamples
        /\ asked'.time >= AtLeast(r.unmet, 0) /\ asked'.time <= Sustained
    BY <2>0, <2>2, <2>4, AskedOK
  <2>6. CASE RaiseEvidence(r, safe) = RaiseSamples
    BY <2>0, <2>5, <2>6
  <2>7. CASE r.unmet >= Sustained
    BY <2>0, <2>5, <2>7 DEF AtLeast, Schedulers
  <2> QED BY <2>4, <2>6, <2>7 DEF RaiseDue
<1>2. PlannerSpec => []PlannerInv
  BY PlannerHolds
<1> QED BY <1>1, <1>2, PTL DEF PlannerSpec, RaiseIsEarned

\* An integer regime (stabilizeGenerationDensity) is left only after
\* ReleaseSamples samples in a row outside its window.
THEOREM RatiosAreSteady == PlannerSpec => SteadyRatio
<1>1. PlannerInv /\ [PlannerNext]_plannerVars =>
        [sched.locked # 0 /\ sched'.locked # sched.locked /\ sched'.smoothed > 0
           => strayed = ReleaseSamples - 1 /\ sched'.locked = 0]_plannerVars
  <2> SUFFICES ASSUME PlannerInv, [PlannerNext]_plannerVars,
                      sched.locked # 0, sched'.locked # sched.locked, sched'.smoothed > 0
               PROVE  strayed = ReleaseSamples - 1 /\ sched'.locked = 0
    OBVIOUS
  <2>1. AdaptiveCycle
    BY OnlyPlansMove
  <2>2. PICK r, l, s \in Schedulers, step \in 1..MaxStep, safe \in BOOLEAN :
          /\ Rates(sched, r, step) /\ Limits(r, l, safe) /\ Stabilizes(l, s)
          /\ sched' = Spread(s)
          /\ strayed' = Strayed(r)
    BY <2>1, PlanStages
  <2> QED BY <2>2, RegimeKeeps
<1>2. PlannerSpec => []PlannerInv
  BY PlannerHolds
<1> QED BY <1>1, <1>2, PTL DEF PlannerSpec, SteadyRatio
=============================================================================
