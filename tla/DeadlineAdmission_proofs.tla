----------------------- MODULE DeadlineAdmission_proofs -----------------------
(***************************************************************************)
(* What DeadlineAdmission admits fits, for all intervals, costs, queues,   *)
(* delays and latenesses: what is taken from a batch after its admission   *)
(* only moves the slots of the others later (SlotsAreLater), and nothing   *)
(* is learned between an admission and the batch it admits (Inv).          *)
(***************************************************************************)
EXTENDS DeadlineAdmission, WellFoundedInduction, TLAPS

USE DeadlineAssumption

Estimates == [total : Nat, gpu : Nat, blocking : BOOLEAN]

TypeOK ==
    /\ hostWait \in BOOLEAN /\ known \in BOOLEAN
    /\ moving \in BOOLEAN /\ calm \in BOOLEAN
    /\ pc \in {"observe", "dispatch"}
    /\ timeline \in [last : Nat, predicted : Nat]
    /\ warmup \in 0..Warmup
    /\ batch \in {NoBatch} \cup [n : Counts, delay : Delays]
    /\ est \in [Counts -> Estimates]
    /\ reserve \in 0..ReserveMax
    /\ timing \in {NoTiming} \cup [n : Counts, cost : Nat]

Inv ==
    /\ TypeOK
    /\ pc = "observe" => batch = NoBatch
    /\ SlotsStillFit

-----------------------------------------------------------------------------
(* The operators *)

\* The larger and the smaller one of two.
LEMMA Pairs ==
    ASSUME NEW a \in Int, NEW b \in Int
    PROVE  /\ Larger(a, b) \in Int /\ Min({a, b}) \in Int
           /\ a <= b => Larger(a, b) = b /\ Min({a, b}) = a
           /\ b <= a => Larger(a, b) = a /\ Min({a, b}) = b
  <1>1. Larger(a, b) \in {a, b} /\ \A y \in {a, b} : Larger(a, b) >= y
    <2>1. \E x \in {a, b} : \A y \in {a, b} : x >= y
      <3>1. CASE a <= b
        BY <3>1
      <3>2. CASE b <= a
        BY <3>2
      <3> QED BY <3>1, <3>2
    <2> QED BY <2>1 DEF Larger, Max
  <1>2. Min({a, b}) \in {a, b} /\ \A y \in {a, b} : Min({a, b}) <= y
    <2>1. \E x \in {a, b} : \A y \in {a, b} : x <= y
      <3>1. CASE a <= b
        BY <3>1
      <3>2. CASE b <= a
        BY <3>2
      <3> QED BY <3>1, <3>2
    <2> QED BY <2>1 DEF Min
  <1> QED BY <1>1, <1>2

\* A set of counts has a largest one.
LEMMA Largest ==
    ASSUME NEW S, S \subseteq 0..MaxGenerated, S # {}
    PROVE  Max(S) \in S /\ \A y \in S : Max(S) >= y
  <1>1. S \subseteq {0, 1, 2, 3}
    OBVIOUS
  <1>2. \E x \in S : \A y \in S : x >= y
    <2>1. CASE 3 \in S
      BY <1>1, <2>1
    <2>2. CASE 3 \notin S /\ 2 \in S
      BY <1>1, <2>2
    <2>3. CASE 3 \notin S /\ 2 \notin S /\ 1 \in S
      BY <1>1, <2>3
    <2>4. CASE 3 \notin S /\ 2 \notin S /\ 1 \notin S
      <3>1. 0 \in S
        BY <1>1, <2>4
      <3> QED BY <1>1, <2>4, <3>1
    <2> QED BY <2>1, <2>2, <2>3, <2>4
  <1> QED BY <1>2 DEF Max

\* There is a lightest load.
LEMMA LeastCost == Min(Costs) \in Costs
  <1> DEFINE R == {ss \in Nat \X Nat : ss[1] < ss[2]}
  <1>1. IsWellFoundedOn(R, Nat)
    BY NatLessThanWellFounded, Zenon DEF OpToRel
  <1>2. \A x, y \in Nat : y < x => <<y, x>> \in R
    OBVIOUS
  <1> HIDE DEF R
  <1>3. Costs \subseteq Nat /\ Costs # {}
    OBVIOUS
  <1>4. PICK x \in Costs : \A y \in Costs : ~(<<y, x>> \in R)
    BY <1>1, <1>3, WFMin, Zenon
  <1>5. \A y \in Costs : x <= y
    <2> TAKE y \in Costs
    <2>1. x \in Nat /\ y \in Nat
      BY <1>3
    <2>2. ~(y < x)
      BY <1>2, <1>4, <2>1, Zenon
    <2> QED BY <2>1, <2>2
  <1> QED BY <1>5 DEF Min

\* A quotient of natural numbers, rounded up.
LEMMA Quotients ==
    ASSUME NEW a \in Nat, NEW b \in Nat \ {0}
    PROVE  /\ CeilDiv(a, b) \in Nat
           /\ CeilDiv(a, b) <= a
  BY DEF CeilDiv

\* A later end and an even spacing put a slot later when fewer are left.
LEMMA SlotsAreLater ==
    ASSUME NEW p \in Nat, NEW s \in Nat, NEW m \in Nat, NEW n \in Nat, n <= m
    PROVE  /\ (p * s) \div (n + 1) \in Nat /\ (p * s) \div (m + 1) \in Nat
           /\ (p * s) \div (m + 1) <= (p * s) \div (n + 1)
  <1>1. p * s \in Nat
    OBVIOUS
  <1> QED BY <1>1

\* Among the measured counts one is nearest.
LEMMA NearestIsMeasured ==
    ASSUME NEW n \in Counts, Measured # {}
    PROVE  Nearest(n) \in Measured
  <1> DEFINE Far(m) == IF m <= n THEN 2 * (n - m) ELSE 2 * (m - n) + 1
  <1>1. Measured \subseteq {1, 2, 3} /\ n \in {1, 2, 3}
    BY DEF Measured, Counts
  <1>2. \E m \in Measured : \A k \in Measured : Far(m) <= Far(k)
    <2>1. CASE n = 1
      <3>1. Far(1) <= Far(2) /\ Far(2) <= Far(3)
        BY <2>1
      <3>2. CASE 1 \in Measured
        BY <1>1, <2>1, <3>2
      <3>3. CASE 1 \notin Measured /\ 2 \in Measured
        BY <1>1, <2>1, <3>3
      <3>4. CASE 1 \notin Measured /\ 2 \notin Measured
        <4>1. Measured = {3}
          BY <1>1, <3>4
        <4> QED BY <2>1, <4>1
      <3> QED BY <3>2, <3>3, <3>4
    <2>2. CASE n = 2
      <3>1. Far(2) <= Far(1) /\ Far(1) <= Far(3)
        BY <2>2
      <3>2. CASE 2 \in Measured
        BY <1>1, <2>2, <3>2
      <3>3. CASE 2 \notin Measured /\ 1 \in Measured
        BY <1>1, <2>2, <3>3
      <3>4. CASE 2 \notin Measured /\ 1 \notin Measured
        <4>1. Measured = {3}
          BY <1>1, <3>4
        <4> QED BY <2>2, <4>1
      <3> QED BY <3>2, <3>3, <3>4
    <2>3. CASE n = 3
      <3>1. Far(3) <= Far(2) /\ Far(2) <= Far(1)
        BY <2>3
      <3>2. CASE 3 \in Measured
        BY <1>1, <2>3, <3>2
      <3>3. CASE 3 \notin Measured /\ 2 \in Measured
        BY <1>1, <2>3, <3>3
      <3>4. CASE 3 \notin Measured /\ 2 \notin Measured
        <4>1. Measured = {1}
          BY <1>1, <3>4
        <4> QED BY <2>3, <4>1
      <3> QED BY <3>2, <3>3, <3>4
    <2> QED BY <1>1, <2>1, <2>2, <2>3
  <1> QED BY <1>2 DEF Nearest

\* What fits, fits a larger budget.
LEMMA FitsMore ==
    ASSUME TypeOK, NEW n \in Counts, NEW b \in Int, NEW c \in Int, b <= c, Fits(n, b)
    PROVE  Fits(n, c)
  <1> DEFINE m == Nearest(n)
             cost == Scaled(est[m].total, m, n)
  <1>1. Measured # {} /\ b > 0 /\ cost + Margin(cost) <= b - reserve
    BY DEF Fits
  <1>2. m \in Counts /\ est[m].total \in Nat
    BY <1>1, NearestIsMeasured DEF Measured, TypeOK, Estimates
  <1>3. m \in Nat /\ m >= 1 /\ n \in Nat
    BY <1>2 DEF Counts
  <1> HIDE DEF m
  <1>4. cost \in Nat
    <2>1. CeilDiv(est[m].total * n * 11, m * 10) \in Nat
      <3>1. est[m].total * n * 11 \in Nat /\ m * 10 \in Nat \ {0}
        BY <1>2, <1>3
      <3> QED BY <3>1, Quotients
    <2>2. CeilDiv(est[m].total * 7, 10) \in Nat
      BY <1>2, Quotients
    <2>3. \A x, y \in Nat : Larger(x, y) \in Nat
      <3> TAKE x, y \in Nat
      <3>1. (x <= y => Larger(x, y) = y) /\ (y <= x => Larger(x, y) = x)
        BY Pairs, x \in Int, y \in Int
      <3> QED BY <3>1
    <2> QED BY <1>2, <2>1, <2>2, <2>3 DEF Scaled
  <1> HIDE DEF cost
  <1>5. Margin(cost) \in Nat
    BY <1>4, Quotients DEF Margin
  <1>6. reserve \in Int
    BY DEF TypeOK
  <1>7. c > 0 /\ cost + Margin(cost) <= c - reserve
    BY <1>1, <1>4, <1>5, <1>6
  <1> QED BY <1>1, <1>7 DEF Fits, m, cost

-----------------------------------------------------------------------------
(* What is learned *)

\* The moving averages stay natural numbers.
LEMMA Averages ==
    ASSUME NEW old \in Nat, NEW sample \in Nat
    PROVE  /\ Eased(old, sample) \in Nat
           /\ Larger(old, sample) \in Nat
  <1>1. Larger(old, sample) \in Nat
    <2>1. /\ old <= sample => Larger(old, sample) = sample
          /\ sample <= old => Larger(old, sample) = old
      BY Pairs, old \in Int, sample \in Int
    <2> QED BY <2>1
  <1>2. ASSUME sample < old PROVE old - CeilDiv(3 * (old - sample), 25) \in Nat
    BY <1>2 DEF CeilDiv
  <1> QED BY <1>1, <1>2 DEF Eased

\* The predictor's operators keep the estimates estimates.
LEMMA Learning ==
    ASSUME NEW e \in [Counts -> Estimates]
    PROVE  /\ \A t \in {NoTiming} \cup [n : Counts, cost : Nat] :
                 WithTiming(e, t) \in [Counts -> Estimates]
           /\ \A n \in Counts, wait \in Nat :
                 WithCompletion(e, n, wait) \in [Counts -> Estimates]
           /\ Recovered(e) \in [Counts -> Estimates]
  <1>1. ASSUME NEW t \in [n : Counts, cost : Nat]
        PROVE  WithTiming(e, t) \in [Counts -> Estimates]
    <2>1. t.n \in Counts /\ t.cost \in Nat /\ e[t.n] \in Estimates
      OBVIOUS
    <2>2. e[t.n].gpu \in Nat /\ e[t.n].total \in Nat
      BY <2>1 DEF Estimates
    <2>3. /\ Eased(e[t.n].gpu, t.cost) \in Nat
          /\ Larger(e[t.n].total, t.cost) \in Nat
          /\ Eased(e[t.n].total, t.cost) \in Nat
      BY <2>1, <2>2, Averages
    <2> QED BY <2>1, <2>3 DEF WithTiming, Estimates
  <1>2. ASSUME NEW n \in Counts, NEW wait \in Nat
        PROVE  WithCompletion(e, n, wait) \in [Counts -> Estimates]
    <2>1. e[n] \in Estimates /\ e[n].total \in Nat
      BY DEF Estimates
    <2>2. Eased(e[n].total, wait) \in Nat
      BY <2>1, Averages
    <2> QED BY <2>1, <2>2 DEF WithCompletion, Estimates
  <1>3. Recovered(e) \in [Counts -> Estimates]
    <2> SUFFICES ASSUME NEW n \in Counts, e[n].blocking, e[n].gpu > 0
                 PROVE  [e[n] EXCEPT !.total = Larger(e[n].gpu, Eased(e[n].total, e[n].gpu))]
                          \in Estimates
      BY DEF Recovered
    <2>1. e[n] \in Estimates /\ e[n].total \in Nat /\ e[n].gpu \in Nat
      BY DEF Estimates
    <2>2. Eased(e[n].total, e[n].gpu) \in Nat
      BY <2>1, Averages
    <2>3. Larger(e[n].gpu, Eased(e[n].total, e[n].gpu)) \in Nat
      BY <2>1, <2>2, Averages
    <2> QED BY <2>1, <2>3 DEF Estimates
  <1> QED BY <1>1, <1>2, <1>3 DEF WithTiming

\* The reserve stays below its limit.
LEMMA Reserves ==
    ASSUME NEW r \in 0..ReserveMax, NEW late \in Nat
    PROVE  /\ AfterMiss(r, late) \in 0..ReserveMax
           /\ AfterSuccess(r) \in 0..ReserveMax
  <1>1. Larger(late, 1) \in Nat
    <2>1. (late <= 1 => Larger(late, 1) = 1) /\ (1 <= late => Larger(late, 1) = late)
      BY Pairs, late \in Int, 1 \in Int
    <2> QED BY <2>1
  <1>2. \A x \in Nat : Min({x, ReserveMax}) \in 0..ReserveMax
    <2> TAKE x \in Nat
    <2>1. /\ x <= ReserveMax => Min({x, ReserveMax}) = x
          /\ ReserveMax <= x => Min({x, ReserveMax}) = ReserveMax
      BY Pairs, x \in Int, ReserveMax \in Int
    <2> QED BY <2>1
  <1>4. PICK sample \in 0..ReserveMax : sample = Min({Larger(late, 1), ReserveMax})
    BY <1>1, <1>2
  <1>5. sample >= r => r + CeilDiv(sample - r, 4) \in 0..ReserveMax
    BY DEF CeilDiv
  <1>6. ~(sample >= r) => r - CeilDiv(r - sample, 4) \in 0..ReserveMax
    BY DEF CeilDiv
  <1>7. AfterSuccess(r) \in 0..ReserveMax
    BY DEF AfterSuccess, CeilDiv
  <1> QED BY <1>4, <1>5, <1>6, <1>7 DEF AfterMiss

\* The timeline keeps natural numbers.
LEMMA Timelines ==
    ASSUME TypeOK, NEW i \in Intervals
    PROVE  Observed(i) \in [last : Nat, predicted : Nat]
  <1> DEFINE p == timeline.predicted
  <1>1. p \in Nat /\ timeline \in [last : Nat, predicted : Nat] /\ i \in Nat
    BY DEF TypeOK
  <1> HIDE DEF p
  <1>2. Toward(p, i) \in Nat
    <2> DEFINE half == CeilDiv(p, 2)
               most == Min({i, (3 * p) \div 2})
               seen == Larger(half, most)
    <2>1. half \in Nat
      BY <1>1, Quotients
    <2>2. \A x, y \in Nat : Min({x, y}) \in Nat /\ Larger(x, y) \in Nat
      <3> TAKE x, y \in Nat
      <3>1. /\ x <= y => Larger(x, y) = y /\ Min({x, y}) = x
            /\ y <= x => Larger(x, y) = x /\ Min({x, y}) = y
        BY Pairs, x \in Int, y \in Int
      <3> QED BY <3>1
    <2>3. most \in Nat
      BY <1>1, <2>2
    <2> HIDE DEF half, most
    <2>5. seen \in Nat
      BY <2>1, <2>2, <2>3
    <2> HIDE DEF seen
    <2>6. seen < p => p - CeilDiv(p - seen, 2) \in Nat
      BY <1>1, <2>5 DEF CeilDiv
    <2>7. ~(seen < p) => p + CeilDiv(seen - p, 5) \in Nat
      BY <1>1, <2>5 DEF CeilDiv
    <2> QED BY <2>6, <2>7 DEF Toward, seen, half, most
  <1> QED BY <1>1, <1>2 DEF Observed, p

-----------------------------------------------------------------------------
(* The invariant *)

\* Nothing is admitted at first.
LEMMA InitInv == Init => Inv
  <1> SUFFICES ASSUME Init PROVE Inv
    OBVIOUS
  <1>1. Forgotten \in [Counts -> Estimates]
    BY DEF Forgotten, NoEstimate, Estimates
  <1>2. batch = NoBatch /\ batch.n = 0
    BY DEF Init, NoBatch
  <1>3. NoTimeline \in [last : Nat, predicted : Nat]
    BY DEF NoTimeline
  <1>4. TypeOK
    <2>1. Warmup \in 0..Warmup /\ 0 \in 0..ReserveMax
      OBVIOUS
    <2>2. warmup \in 0..Warmup /\ reserve \in 0..ReserveMax
      BY <2>1 DEF Init
    <2> QED BY <1>1, <1>2, <1>3, <2>2 DEF Init, TypeOK
  <1>5. SlotsStillFit
    BY <1>2 DEF SlotsStillFit
  <1> QED BY <1>2, <1>4, <1>5 DEF Inv, Init

\* A step that leaves nothing to dispatch.
LEMMA NothingToDispatch ==
    ASSUME TypeOK', batch' = NoBatch
    PROVE  Inv'
  BY DEF Inv, SlotsStillFit, NoBatch

\* What fits depends on the timeline and on what was learned.
LEMMA SameFit ==
    ASSUME SlotsStillFit, UNCHANGED <<timeline, est, reserve, batch>>
    PROVE  SlotsStillFit'
  <1>1. Measured' = Measured
    BY DEF Measured
  <1>2. \A s, b : Fits(s, b)' <=> Fits(s, b)
    BY <1>1 DEF Fits, Scaled, Nearest
  <1>3. \A s, n : Slot(s, n)' = Slot(s, n)
    BY DEF Slot
  <1> QED BY <1>1, <1>2, <1>3 DEF SlotsStillFit

\* A reset of the epoch.
LEMMA Resets ==
    ASSUME TypeOK, ResetEpoch, batch' = NoBatch, pc' \in {"observe", "dispatch"},
           known' \in BOOLEAN, UNCHANGED <<hostWait, calm>>
    PROVE  Inv'
  <1>1. Forgotten \in [Counts -> Estimates]
    BY DEF Forgotten, NoEstimate, Estimates
  <1>2. NoTimeline \in [last : Nat, predicted : Nat]
    BY DEF NoTimeline
  <1>3. TypeOK'
    <2>1. Warmup \in 0..Warmup /\ 0 \in 0..ReserveMax
      OBVIOUS
    <2>2. warmup' \in 0..Warmup /\ reserve' \in 0..ReserveMax
      BY <2>1 DEF ResetEpoch
    <2> QED BY <1>1, <1>2, <2>2 DEF TypeOK, ResetEpoch
  <1> QED BY <1>3, NothingToDispatch

\* What is admitted fits, and so does what is left of it.
LEMMA ObserveFits ==
    ASSUME TypeOK, NEW i \in Intervals, NEW planned \in 0..MaxGenerated,
           NEW delay \in Delays, Observe(i, planned, delay)
    PROVE  Inv'
  <1>1. /\ timeline' = Observed(i) /\ est' = est /\ reserve' = reserve
        /\ warmup' = warmup /\ timing' = timing
        /\ UNCHANGED <<hostWait, known, moving, calm>> /\ pc' = "dispatch"
    BY DEF Observe, predictor
  <1> DEFINE p == timeline'.predicted
             most == Admitted(planned, delay)'
             Every(n) == \A s \in 1..n : Fits(s, (p * s) \div (n + 1) - delay)
  <1>2. timeline' \in [last : Nat, predicted : Nat] /\ p \in Nat
    BY <1>1, Timelines
  <1>3. \A n : FitsEverySlot(n, delay)' <=> Every(n)
    BY <1>1 DEF FitsEverySlot, Slot, Fits, Measured, Scaled, Nearest
  <1>4. Measured' = Measured
    BY <1>1 DEF Measured
  <1>5. most = IF warmup > 0 \/ p <= delay THEN 0
               ELSE IF Measured = {} THEN Min({planned, 1})
               ELSE Max({0} \cup {n \in 1..planned : Every(n)})
    BY <1>1, <1>3, <1>4 DEF Admitted
  <1>6. most \in 0..MaxGenerated /\ (most > 0 /\ Measured # {} => Every(most))
    <2>1. CASE warmup > 0 \/ p <= delay
      BY <1>5, <2>1
    <2>2. CASE ~(warmup > 0 \/ p <= delay) /\ Measured = {}
      <3>1. Min({planned, 1}) \in 0..MaxGenerated
        <4>1. /\ planned <= 1 => Min({planned, 1}) = planned
              /\ 1 <= planned => Min({planned, 1}) = 1
          BY Pairs, planned \in Int, 1 \in Int
        <4> QED BY <4>1
      <3> QED BY <1>5, <2>2, <3>1
    <2>3. CASE ~(warmup > 0 \/ p <= delay) /\ Measured # {}
      <3> DEFINE S == {0} \cup {n \in 1..planned : Every(n)}
      <3>1. S \subseteq 0..MaxGenerated /\ S # {}
        OBVIOUS
      <3>2. Max(S) \in S
        BY <3>1, Largest
      <3> QED BY <1>5, <2>3, <3>1, <3>2
    <2> QED BY <2>1, <2>2, <2>3
  <1> HIDE DEF most, p
  <1>7. PICK n \in 0..most :
          batch' = IF n = 0 THEN NoBatch ELSE [n |-> n, delay |-> delay]
    <2>1. \E n \in IF calm' THEN {most} ELSE 0..most :
            batch' = IF n = 0 THEN NoBatch ELSE [n |-> n, delay |-> delay]
      BY DEF Observe, most
    <2> QED BY <1>6, <2>1
  <1>8. n \in 0..MaxGenerated /\ delay \in Nat
    BY <1>6, <1>7
  <1>9. TypeOK'
    <2>1. batch' \in {NoBatch} \cup [n : Counts, delay : Delays]
      <3>1. n # 0 => n \in Counts
        BY <1>8 DEF Counts
      <3> QED BY <1>7, <3>1
    <2> QED BY <1>1, <1>2, <2>1 DEF TypeOK
  <1>10. CASE n = 0
    BY <1>7, <1>9, <1>10, NothingToDispatch
  <1>11. CASE n # 0
    <2>1. batch'.n = n /\ batch'.delay = delay
      BY <1>7, <1>11
    <2>2. ASSUME Measured # {}, NEW s \in 1..n
          PROVE  Fits(s, (p * s) \div (n + 1) - delay)
      <3> DEFINE wide == (p * s) \div (most + 1)
                 even == (p * s) \div (n + 1)
      <3>1. s \in 1..most /\ s \in Counts /\ most \in Nat /\ n \in Nat /\ n <= most /\ s \in Nat
        BY <1>6, <1>7, <1>8 DEF Counts
      <3>2. wide \in Nat /\ even \in Nat /\ wide <= even
        BY <1>2, <3>1, SlotsAreLater
      <3>3. Fits(s, wide - delay)
        BY <1>6, <2>2, <3>1
      <3> HIDE DEF wide, even
      <3>4. wide - delay \in Int /\ even - delay \in Int /\ wide - delay <= even - delay
        BY <1>8, <3>2
      <3>5. Fits(s, even - delay)
        BY <3>1, <3>3, <3>4, FitsMore
      <3> QED BY <3>5 DEF even
    <2>3. Measured' # {} => \A s \in 1..n : Fits(s, (p * s) \div (n + 1) - delay)
      BY <1>4, <2>2
    <2>4. SlotsStillFit'
      <3>1. \A s, b : Fits(s, b)' <=> Fits(s, b)
        BY <1>1, <1>4 DEF Fits, Scaled, Nearest
      <3> QED BY <2>1, <2>3, <3>1 DEF SlotsStillFit, Slot, p
    <2> QED BY <1>1, <1>9, <2>4 DEF Inv
  <1> QED BY <1>10, <1>11

\* What a present learns.
LEMMA GovernorKeeps ==
    ASSUME TypeOK, NEW e \in [Counts -> Estimates],
           NEW t \in {NoTiming} \cup [n : Counts, cost : Nat],
           NEW outcome, NEW late \in Nat,
           GovernorThenDeliver(e, t, outcome, late)
    PROVE  /\ est' \in [Counts -> Estimates]
           /\ reserve' \in 0..ReserveMax
           /\ moving' \in BOOLEAN
  <1>1. PICK step \in BOOLEAN :
          /\ est' = IF step THEN Forgotten ELSE IF moving THEN e ELSE WithTiming(e, t)
          /\ reserve' = Delivered(IF step THEN 0 ELSE reserve, outcome, late)
          /\ moving' \in IF moving THEN BOOLEAN ELSE {step}
    BY DEF GovernorThenDeliver
  <1>2. est' \in [Counts -> Estimates]
    <2>1. Forgotten \in [Counts -> Estimates]
      BY DEF Forgotten, NoEstimate, Estimates
    <2>2. WithTiming(e, t) \in [Counts -> Estimates]
      BY Learning
    <2> QED BY <1>1, <2>1, <2>2
  <1>3. PICK r \in 0..ReserveMax : reserve' = Delivered(r, outcome, late)
    BY <1>1 DEF TypeOK
  <1>4. reserve' \in 0..ReserveMax
    BY <1>3, Reserves DEF Delivered
  <1> QED BY <1>1, <1>2, <1>4

\* Every step keeps the invariant.
LEMMA Step == Inv /\ [Next]_vars => Inv'
  <1> SUFFICES ASSUME Inv, [Next]_vars PROVE Inv'
    OBVIOUS
  <1>1. NoBatch.n = 0
    BY DEF NoBatch
  <1>2. ASSUME UNCHANGED vars PROVE Inv'
    <2>1. TypeOK'
      BY <1>2 DEF vars, source, predictor, Inv, TypeOK
    <2>2. SlotsStillFit'
      BY <1>2, SameFit DEF vars, source, predictor, Inv
    <2> QED BY <1>2, <2>1, <2>2 DEF Inv, vars
  <1>3. ASSUME Invalidate PROVE Inv'
    BY <1>3, Resets DEF Invalidate, Inv
  <1>4. ASSUME NEW config \in BOOLEAN, FirstSource(config) PROVE Inv'
    <2>1. CASE config
      BY <1>4, <2>1, Resets DEF FirstSource, Inv
    <2>2. CASE ~config
      <3>1. TypeOK'
        BY <1>1, <1>4, <2>2 DEF FirstSource, Inv, TypeOK, predictor
      <3> QED BY <1>4, <3>1, NothingToDispatch DEF FirstSource
    <2> QED BY <2>1, <2>2
  <1>5. ASSUME NEW i \in Intervals, NEW planner \in BOOLEAN, Discontinuity(i, planner)
        PROVE  Inv'
    BY <1>5, Resets DEF Discontinuity, Inv
  <1>6. ASSUME NEW i \in Intervals, NEW planned \in 0..MaxGenerated, NEW delay \in Delays,
               Observe(i, planned, delay)
        PROVE  Inv'
    BY <1>6, ObserveFits DEF Inv
  <1>7. ASSUME HandoffFails PROVE Inv'
    <2>1. TypeOK'
      BY <1>1, <1>7 DEF HandoffFails, Inv, TypeOK, predictor
    <2> QED BY <1>7, <2>1, NothingToDispatch DEF HandoffFails
  <1>8. ASSUME NEW found \in BOOLEAN, HistoryOnly(found) PROVE Inv'
    <2>1. Recovered(est) \in [Counts -> Estimates]
      BY Learning DEF Inv, TypeOK
    <2>2. /\ GovernorThenDeliver(Recovered(est), Found(found), "none", 0)
          /\ timing' = IF found THEN NoTiming ELSE timing
          /\ warmup' = Larger(0, warmup - 1) /\ pc' = "observe"
          /\ UNCHANGED <<hostWait, known, timeline, batch, calm>> /\ batch = NoBatch
      BY <1>8 DEF HistoryOnly
    <2>3. /\ est' \in [Counts -> Estimates] /\ reserve' \in 0..ReserveMax
          /\ moving' \in BOOLEAN
      BY <2>1, <2>2, GovernorKeeps DEF Inv, TypeOK, Found
    <2>4. Larger(0, warmup - 1) \in 0..Warmup
      <3>1. warmup \in Int /\ warmup - 1 \in Int /\ 0 \in Int
        BY DEF Inv, TypeOK
      <3>2. /\ 0 <= warmup - 1 => Larger(0, warmup - 1) = warmup - 1
            /\ warmup - 1 <= 0 => Larger(0, warmup - 1) = 0
        BY <3>1, Pairs
      <3> QED BY <3>1, <3>2 DEF Inv, TypeOK
    <2>5. TypeOK'
      BY <2>2, <2>3, <2>4 DEF Inv, TypeOK
    <2> QED BY <2>2, <2>5, NothingToDispatch
  <1>9. ASSUME NEW cost \in Costs, NEW queue \in Queues, NEW found \in BOOLEAN,
               NEW outcome, NEW late \in Nat, Generate(cost, queue, found, outcome, late)
        PROVE  Inv'
    <2>1. batch.n \in Counts /\ cost + batch.n - 1 \in Nat /\ cost + batch.n - 1 + queue \in Nat
      <3>1. batch.n \in Counts
        BY <1>9 DEF Generate, Inv, TypeOK
      <3> QED BY <3>1 DEF Counts
    <2> DEFINE ran == cost + batch.n - 1
               own == IF moving THEN NoTiming ELSE [n |-> batch.n, cost |-> ran]
               Timings == {NoTiming} \cup [n : Counts, cost : Nat]
    <2>2. own \in Timings /\ timing \in Timings /\ est \in [Counts -> Estimates]
      BY <2>1 DEF Inv, TypeOK
    <2>3. /\ \/ /\ hostWait' = hostWait
                /\ GovernorThenDeliver(est, Found(found), outcome, late)
                /\ timing' \in {own} \cup (IF found THEN {} ELSE {timing})
             \/ /\ hostWait' = hostWait
                /\ Waited(est, own, found, outcome, late)
             \/ /\ hostWait' = TRUE
                /\ Waited(WithCompletion(est, batch.n, ran + queue), own, found,
                          outcome, late)
          /\ batch' = NoBatch /\ pc' = "observe"
          /\ UNCHANGED <<known, timeline, warmup, calm>>
      BY <1>9 DEF Generate, source
    <2> HIDE DEF own
    <2>4. /\ est' \in [Counts -> Estimates] /\ reserve' \in 0..ReserveMax
          /\ moving' \in BOOLEAN /\ timing' \in Timings /\ hostWait' \in BOOLEAN
      <3>1. CASE /\ hostWait' = hostWait
                 /\ GovernorThenDeliver(est, Found(found), outcome, late)
                 /\ timing' \in {own} \cup (IF found THEN {} ELSE {timing})
        <4>1. Found(found) \in Timings
          BY <2>2 DEF Found
        <4> QED BY <2>2, <3>1, <4>1, GovernorKeeps DEF Inv, TypeOK
      <3>2. ASSUME NEW e \in [Counts -> Estimates], hostWait' \in BOOLEAN,
                   Waited(e, own, found, outcome, late)
            PROVE  /\ est' \in [Counts -> Estimates] /\ reserve' \in 0..ReserveMax
                   /\ moving' \in BOOLEAN /\ timing' \in Timings
                   /\ hostWait' \in BOOLEAN
        <4>1. (IF found THEN own ELSE NoTiming) \in Timings
          BY <2>2
        <4>2. /\ GovernorThenDeliver(e, IF found THEN own ELSE NoTiming, outcome, late)
              /\ timing' = IF found THEN NoTiming ELSE timing
          BY <3>2 DEF Waited
        <4> QED BY <2>2, <3>2, <4>1, <4>2, GovernorKeeps DEF Inv
      <3>3. WithCompletion(est, batch.n, ran + queue) \in [Counts -> Estimates]
        BY <2>1, <2>2, Learning
      <3>4. hostWait \in BOOLEAN
        BY DEF Inv, TypeOK
      <3> QED BY <2>2, <2>3, <3>1, <3>2, <3>3, <3>4
    <2>5. timing' \in {NoTiming} \cup [n : Counts, cost : Nat]
      BY <2>4
    <2>6. TypeOK'
      BY <1>1, <2>3, <2>4, <2>5 DEF Inv, TypeOK
    <2> QED BY <2>3, <2>6, NothingToDispatch
  <1>10. ASSUME Settle PROVE Inv'
    BY <1>1, <1>10 DEF Settle, Inv, TypeOK, source, predictor, SlotsStillFit
  <1>11. ASSUME Arrival PROVE Inv'
    <2>1. CASE \E config \in BOOLEAN : FirstSource(config)
      BY <1>4, <2>1
    <2>2. CASE \E i \in Intervals, planner \in BOOLEAN : Discontinuity(i, planner)
      BY <1>5, <2>2
    <2>3. CASE \E i \in Intervals, planned \in 0..MaxGenerated, delay \in Delays :
                 Observe(i, planned, delay)
      BY <1>6, <2>3
    <2>4. (IF calm THEN {Steady} ELSE Intervals) \subseteq Intervals
      OBVIOUS
    <2>5. (IF calm THEN {MaxGenerated} ELSE 0..MaxGenerated) \subseteq 0..MaxGenerated
      OBVIOUS
    <2>6. (IF calm THEN {0} ELSE Delays) \subseteq Delays
      OBVIOUS
    <2>7. (IF calm THEN {FALSE} ELSE BOOLEAN) \subseteq BOOLEAN
      OBVIOUS
    <2> QED BY <1>11, <2>1, <2>2, <2>3, <2>4, <2>5, <2>6, <2>7, Zenon DEF Arrival
  <1>12. ASSUME Dispatch PROVE Inv'
    <2>1. CASE HandoffFails
      BY <1>7, <2>1
    <2>2. CASE \E found \in BOOLEAN : HistoryOnly(found)
      BY <1>8, <2>2
    <2>3. CASE \E found \in BOOLEAN, cost \in Costs, queue \in Queues,
                  outcome \in Outcomes, late \in Nat :
                 Generate(cost, queue, found, outcome, late)
      BY <1>9, <2>3
    <2>4. (IF calm THEN {Min(Costs)} ELSE Costs) \subseteq Costs
      BY LeastCost
    <2>5. (IF calm THEN {0} ELSE Queues) \subseteq Queues
      OBVIOUS
    <2>6. \A outcome : (IF outcome = "late" THEN Lateness ELSE {0}) \subseteq Nat
      OBVIOUS
    <2> QED BY <1>12, <2>1, <2>2, <2>3, <2>4, <2>5, <2>6, Zenon DEF Dispatch
  <1> QED BY <1>2, <1>3, <1>10, <1>11, <1>12 DEF Next

\* Every frame of an admitted batch still has its measured cost, the margin and
\* the reserve before its own slot, whatever the presentation's capacity or an
\* unfinished batch took from it (context.cpp:2498-2531, 2603-2621, 2668-2672).
THEOREM AdmittedFramesFit == Spec => []SlotsStillFit
  <1>1. Init => Inv
    BY InitInv
  <1>2. Inv /\ [Next]_vars => Inv'
    BY Step
  <1>3. Inv => SlotsStillFit
    BY DEF Inv
  <1> QED BY <1>1, <1>2, <1>3, PTL DEF Spec

\* The predictor's state stays in its range: the reserve below its limit, whatever
\* the lateness, and the estimates of cost natural numbers
\* (adaptive_scheduler.cpp:234-347).
THEOREM PredictorStaysInRange == Spec => []TypeOK
  <1>1. Init => Inv
    BY InitInv
  <1>2. Inv /\ [Next]_vars => Inv'
    BY Step
  <1>3. Inv => TypeOK
    BY DEF Inv
  <1> QED BY <1>1, <1>2, <1>3, PTL DEF Spec

=============================================================================
