------------------------- MODULE DriftControlProofs -------------------------
(***************************************************************************)
(* Drift control, for every set of error levels, every warm-up, sampling   *)
(* interval, cooldown and configuration: the detectors never fire without  *)
(* a baseline, never lose one an alarm has found, start over at a rebuild  *)
(* as long as no alarm has found one, repairs keep their distance, and     *)
(* every repair is counted.                                                *)
(***************************************************************************)
EXTENDS DriftControl, TLAPS

DetOK(d) ==
  /\ d.n >= Warmup <=> d.baseline # None
  /\ d.fired => d.baseline > 0

(* queries_since_repair_ and the age of the segments run together.         *)
AgeOK(q, a) == IF q < Cooldown THEN a = q ELSE a = Cooldown

(* What the last alarm found is what the next rebuild starts from.         *)
SavedInv == trigger # NoAlarm => saved.baseline = trigger.baseline

(* The inductive invariant.                                                *)
DriftInv ==
  /\ TypeOK /\ DetOK(det) /\ AgeOK(queries, age) /\ SavedInv
  /\ NeverBlindAgain /\ UnsavedStartsOver /\ RepairsAreSpaced /\ EveryRepairCounted

(* A detector d has counted only samples of segments of age a.             *)
OwnSamples(d, a) == a < Cooldown => d.n * SampleEvery <= a

SeenLevels == Levels \cup {None}

(* The state a lookup is in when its search of the model has ended.        *)
NowOK(now) ==
  /\ now.det \in Detector /\ DetOK(now.det)
  /\ now.queries \in 0..Cooldown+SampleEvery-1
  /\ now.seen \in SeenLevels /\ now.age \in 0..Cooldown
  /\ now.errs \in [Leaves -> 0..MaxErrs]
  /\ AgeOK(now.queries, now.age)
  /\ det.n > Warmup => now.det.baseline = det.baseline /\ now.det.n > Warmup
  /\ OwnSamples(det, age) => OwnSamples(now.det, now.age)

-----------------------------------------------------------------------------
LEMMA ConstantFacts ==
  /\ None \in Int /\ None < 0 /\ None # 0
  /\ Levels \subseteq Nat /\ MissSignal \in Levels
  /\ Threshold \in Nat /\ Warmup \in Nat /\ Warmup >= 1
  /\ SampleEvery \in Nat /\ SampleEvery >= 1 /\ Cooldown \in Nat /\ Cooldown >= 1
  /\ LdzThreshold \in Nat /\ MaxErrs \in Nat /\ MaxCount \in Nat
BY LevelsAssumption, ThresholdAssumption, SamplingAssumption, ErrsAssumption DEF None

LEMMA BaselineIsInt == ASSUME NEW b \in Levels \cup {None, 0} PROVE b \in Int
<1>1. CASE b \in Levels
  BY <1>1, ConstantFacts
<1>2. CASE b \in {None, 0}
  BY <1>2 DEF None
<1>. QED  BY <1>1, <1>2

LEMMA ColdFacts == Cold \in Detector /\ DetOK(Cold)
BY ConstantFacts DEF Cold, Detector, DetOK, None

LEMMA RestartedFacts ==
  ASSUME NEW s \in [ewma : Levels \cup {0}, baseline : Levels \cup {None, 0}]
  PROVE  /\ Restarted(s) \in Detector /\ DetOK(Restarted(s))
         /\ s.baseline > 0 => /\ Restarted(s).baseline = s.baseline
                              /\ Restarted(s).n > Warmup
         /\ ~(s.baseline > 0) => Restarted(s).n = 0
<1>1. CASE s.baseline > 0
  <2>1. Restarted(s) = Warm(s)
    BY <1>1 DEF Restarted
  <2>. s.baseline \in Levels \cup {None, 0} /\ s.ewma \in Levels \cup {0}
    OBVIOUS
  <2>2. s.baseline # None
    <3>. SUFFICES ASSUME s.baseline = None PROVE FALSE
      OBVIOUS
    <3>. QED  BY <1>1, ConstantFacts
  <2>3. s.baseline # 0
    BY <1>1
  <2>4. s.baseline \in Levels /\ s.ewma \in Levels \cup {0} /\ s.baseline \in Nat
    BY <2>2, <2>3, ConstantFacts
  <2>5. Warm(s) \in Detector
    BY <2>4, ConstantFacts DEF Warm, Detector
  <2>6. DetOK(Warm(s)) /\ Warm(s).baseline = s.baseline /\ Warm(s).n > Warmup
    BY <1>1, <2>4, ConstantFacts DEF Warm, DetOK
  <2>. QED  BY <1>1, <2>1, <2>5, <2>6
<1>2. CASE ~(s.baseline > 0)
  <2>1. Restarted(s) = Cold /\ Cold.n = 0
    BY <1>2 DEF Restarted, Cold
  <2>. QED  BY <1>2, <2>1, ColdFacts
<1>. QED  BY <1>1, <1>2

(* One update of the detectors.                                            *)
LEMMA UpdateFacts ==
  ASSUME det \in Detector, DetOK(det), NEW v \in Levels, NEW d \in Updated(v)
  PROVE  /\ d \in Detector /\ DetOK(d)
         /\ det.n > Warmup => d.baseline = det.baseline /\ d.n > Warmup
         /\ d.n <= det.n + 1
<1>1. PICK e \in Means(v), p \in PhAlarms(v) :
        d = [ewma |-> e, n |-> Lesser(det.n + 1, Warmup + 1), baseline |-> BaselineAfter(e),
             fired |-> det.fired \/ (BaselineAfter(e) > 0 /\ e > Threshold * BaselineAfter(e)),
             ph_low |-> IF det.ph_low = None THEN v ELSE Lesser(det.ph_low, v),
             ph_fired |-> p]
  BY DEF Updated
<1>2. /\ det.n \in 0..Warmup+1 /\ det.baseline \in Levels \cup {None}
      /\ det.fired \in BOOLEAN /\ det.ph_low \in Levels \cup {None} /\ det.ph_fired \in BOOLEAN
  BY DEF Detector
<1>3. e \in Levels
  BY DEF Means
<1>4. p \in BOOLEAN
  BY <1>2 DEF PhAlarms
<1>5. BaselineAfter(e) \in Levels \cup {None}
  BY <1>2, <1>3 DEF BaselineAfter
<1>6. d.n \in 0..Warmup+1
  BY <1>1, <1>2, ConstantFacts DEF Lesser
<1>7. d.ph_low \in Levels \cup {None}
  BY <1>1, <1>2 DEF Lesser
<1>8. d.fired \in BOOLEAN
  BY <1>1, <1>2
<1>9. d \in Detector
  <2>1. d.ewma = e /\ d.baseline = BaselineAfter(e) /\ d.ph_fired = p
    BY <1>1
  <2>2. d = [ewma |-> d.ewma, n |-> d.n, baseline |-> d.baseline,
             fired |-> d.fired, ph_low |-> d.ph_low, ph_fired |-> d.ph_fired]
    BY <1>1
  <2>. QED  BY <1>3, <1>4, <1>5, <1>6, <1>7, <1>8, <2>1, <2>2 DEF Detector
<1>10. d.n >= Warmup <=> d.baseline # None
  <2>1. d.n = Lesser(det.n + 1, Warmup + 1) /\ d.baseline = BaselineAfter(e)
    BY <1>1
  <2>2. CASE det.n + 1 = Warmup
    BY <1>2, <1>3, <2>1, <2>2, ConstantFacts DEF BaselineAfter, Lesser
  <2>3. CASE det.n + 1 # Warmup
    BY <1>2, <2>1, <2>3, ConstantFacts DEF BaselineAfter, Lesser, DetOK
  <2>. QED  BY <2>2, <2>3
<1>11. d.fired => d.baseline > 0
  <2>1. CASE BaselineAfter(e) > 0
    BY <1>1, <2>1
  <2>2. CASE ~(BaselineAfter(e) > 0)
    <3>1. d.fired <=> det.fired
      BY <1>1, <2>2
    <3>2. ~det.fired
      <4>. SUFFICES ASSUME det.fired PROVE FALSE
        OBVIOUS
      <4>1. det.baseline > 0 /\ det.baseline # None /\ det.n >= Warmup
        BY <1>2, ConstantFacts DEF DetOK
      <4>2. BaselineAfter(e) = det.baseline
        BY <1>2, <4>1, ConstantFacts DEF BaselineAfter
      <4>. QED  BY <2>2, <4>1, <4>2
    <3>. QED  BY <3>1, <3>2
  <2>. QED  BY <2>1, <2>2
<1>12. det.n > Warmup => d.baseline = det.baseline /\ d.n > Warmup
  BY <1>1, <1>2, ConstantFacts DEF BaselineAfter, Lesser
<1>13. d.n <= det.n + 1
  BY <1>1, <1>2, ConstantFacts DEF Lesser
<1>. QED  BY <1>9, <1>10, <1>11, <1>12, <1>13 DEF DetOK

(* A sample is due every SampleEvery queries: n samples make it n + 1.     *)
LEMMA SamplesFit ==
  ASSUME NEW n \in Nat, NEW a \in Nat, n * SampleEvery <= a, (a + 1) % SampleEvery = 0
  PROVE  (n + 1) * SampleEvery <= a + 1
<1>. DEFINE q == (a + 1) \div SampleEvery
<1>1. q \in Nat /\ a + 1 = q * SampleEvery
  <2>1. SampleEvery \in Nat \ {0} /\ a + 1 \in Nat
    BY SamplingAssumption
  <2>. QED  BY <2>1
<1>. HIDE DEF q
<1>. SampleEvery \in Nat /\ SampleEvery >= 1
  BY ConstantFacts
<1>2. n < q
  <2>. SUFFICES ASSUME q <= n PROVE FALSE
    BY <1>1
  <2>1. q * SampleEvery <= n * SampleEvery
    BY <1>1
  <2>2. q * SampleEvery \in Nat /\ n * SampleEvery \in Nat
    BY <1>1
  <2>. QED  BY <1>1, <2>1, <2>2
<1>3. (n + 1) * SampleEvery <= q * SampleEvery
  <2>1. n + 1 <= q
    BY <1>1, <1>2
  <2>. QED  BY <1>1, <2>1
<1>. QED  BY <1>1, <1>3

(* One more tracked query.                                                 *)
LEMMA TickFacts ==
  ASSUME queries \in 0..Cooldown+SampleEvery-1, age \in 0..Cooldown, AgeOK(queries, age)
  PROVE  /\ Tick \in 0..Cooldown+SampleEvery-1
         /\ Lesser(age + 1, Cooldown) \in 0..Cooldown
         /\ AgeOK(Tick, Lesser(age + 1, Cooldown))
<1>1. Tick \in 0..Cooldown+SampleEvery-1
  BY ConstantFacts DEF Tick
<1>2. Lesser(age + 1, Cooldown) \in 0..Cooldown
  BY ConstantFacts DEF Lesser
<1>3. CASE queries < Cooldown
  BY <1>3, ConstantFacts DEF Tick, Lesser, AgeOK
<1>4. CASE ~(queries < Cooldown)
  BY <1>4, ConstantFacts DEF Tick, Lesser, AgeOK
<1>. QED  BY <1>1, <1>2, <1>3, <1>4

(* The state after a sample of level v, whatever the error counts became.  *)
LEMMA SampledFacts ==
  ASSUME TypeOK, DetOK(det), AgeOK(queries, age),
         NEW v \in Levels, NEW d \in Sampling(v), NEW errs \in [Leaves -> 0..MaxErrs],
         NEW now, now = [det |-> d, queries |-> Tick, seen |-> SeenNow(v),
                         age |-> Lesser(age + 1, Cooldown), errs |-> errs]
  PROVE  NowOK(now)
<1>1. /\ d \in Detector /\ DetOK(d)
      /\ det.n > Warmup => d.baseline = det.baseline /\ d.n > Warmup
  <2>1. CASE SampleDue
    BY <2>1, UpdateFacts DEF TypeOK, Sampling
  <2>2. CASE ~SampleDue
    BY <2>2 DEF TypeOK, Sampling
  <2>. QED  BY <2>1, <2>2
<1>2. SeenNow(v) \in SeenLevels
  BY DEF TypeOK, SeenNow, SeenLevels, Greater
<1>3. /\ Tick \in 0..Cooldown+SampleEvery-1
      /\ Lesser(age + 1, Cooldown) \in 0..Cooldown
      /\ AgeOK(Tick, Lesser(age + 1, Cooldown))
  BY TickFacts DEF TypeOK
<1>4. /\ now.det = d /\ now.queries = Tick /\ now.seen = SeenNow(v)
      /\ now.age = Lesser(age + 1, Cooldown) /\ now.errs = errs
  OBVIOUS
<1>5. OwnSamples(det, age) => OwnSamples(d, Lesser(age + 1, Cooldown))
  <2>. SUFFICES ASSUME OwnSamples(det, age), Lesser(age + 1, Cooldown) < Cooldown
                PROVE  d.n * SampleEvery <= Lesser(age + 1, Cooldown)
    BY DEF OwnSamples
  <2>1. age \in Nat /\ queries \in Nat /\ det.n \in Nat /\ d.n \in Nat
    BY <1>1, ConstantFacts DEF TypeOK, Detector
  <2>2. age + 1 < Cooldown /\ Lesser(age + 1, Cooldown) = age + 1
    BY <2>1, ConstantFacts DEF Lesser
  <2>3. queries = age /\ Tick = age + 1
    BY <2>1, <2>2, ConstantFacts DEF AgeOK, Tick
  <2>4. det.n * SampleEvery <= age /\ det.n * SampleEvery \in Nat
    BY <2>1, <2>2, ConstantFacts DEF OwnSamples
  <2>5. CASE SampleDue
    <3>1. (det.n + 1) * SampleEvery <= age + 1
      BY <2>1, <2>3, <2>4, <2>5, SamplesFit DEF SampleDue
    <3>2. d.n <= det.n + 1
      BY <2>5, UpdateFacts DEF TypeOK, Sampling
    <3>3. d.n * SampleEvery <= (det.n + 1) * SampleEvery
      BY <2>1, <3>2, ConstantFacts
    <3>4. d.n * SampleEvery \in Nat /\ (det.n + 1) * SampleEvery \in Nat
      BY <2>1, ConstantFacts
    <3>. QED  BY <2>1, <2>2, <3>1, <3>3, <3>4
  <2>6. CASE ~SampleDue
    <3>1. d = det
      BY <2>6 DEF Sampling
    <3>. QED  BY <2>1, <2>2, <2>4, <3>1
  <2>. QED  BY <2>5, <2>6
<1>. QED  BY <1>1, <1>2, <1>3, <1>4, <1>5 DEF NowOK

LEMMA HitFacts ==
  ASSUME TypeOK, DetOK(det), AgeOK(queries, age),
         NEW l \in Leaves, NEW v \in Levels, NEW high \in BOOLEAN,
         NEW now \in AfterHit(l, v, high)
  PROVE  NowOK(now)
<1>. DEFINE errs == IF high THEN [seg_errs EXCEPT ![l] = Lesser(@ + 1, MaxErrs)]
                    ELSE seg_errs
<1>1. errs \in [Leaves -> 0..MaxErrs]
  <2>1. seg_errs \in [Leaves -> 0..MaxErrs] /\ seg_errs[l] \in 0..MaxErrs
    BY DEF TypeOK
  <2>2. Lesser(seg_errs[l] + 1, MaxErrs) \in 0..MaxErrs
    BY <2>1, ConstantFacts DEF Lesser
  <2>. QED  BY <2>1, <2>2
<1>2. PICK d \in Sampling(v) :
        now = [det |-> d, queries |-> Tick, seen |-> SeenNow(v),
               age |-> Lesser(age + 1, Cooldown), errs |-> errs]
  BY DEF AfterHit
<1>. HIDE DEF errs
<1>. QED  BY <1>1, <1>2, SampledFacts

LEMMA MissFacts ==
  ASSUME TypeOK, DetOK(det), AgeOK(queries, age), NEW now \in AfterMiss
  PROVE  NowOK(now)
<1>1. CASE loaded /\ cfg.track_misses
  <2>1. PICK d \in Sampling(MissSignal) :
          now = [det |-> d, queries |-> Tick, seen |-> SeenNow(MissSignal),
                 age |-> Lesser(age + 1, Cooldown), errs |-> seg_errs]
    BY <1>1 DEF AfterMiss
  <2>2. seg_errs \in [Leaves -> 0..MaxErrs]
    BY DEF TypeOK
  <2>. QED  BY <2>1, <2>2, ConstantFacts, SampledFacts
<1>2. CASE ~(loaded /\ cfg.track_misses)
  <2>1. now = [det |-> det, queries |-> queries, seen |-> seen, age |-> age, errs |-> seg_errs]
    BY <1>2 DEF AfterMiss
  <2>. QED  BY <2>1 DEF TypeOK, NowOK, SeenLevels
<1>. QED  BY <1>1, <1>2

-----------------------------------------------------------------------------
SavedStates == [ewma : Levels \cup {0}, baseline : Levels \cup {None, 0}]
ErrCounts == [Leaves -> 0..MaxErrs]

(* What a rebuild leaves behind.                                           *)
RestartedFrom(s) ==
  /\ det' \in Detector /\ DetOK(det')
  /\ s.baseline > 0 => det'.baseline = s.baseline /\ det'.n > Warmup
  /\ ~(s.baseline > 0) => det'.n = 0
  /\ queries' = 0 /\ age' = 0 /\ seen' \in SeenLevels
  /\ seg_errs' \in ErrCounts

LEMMA RestartFacts ==
  ASSUME NEW s \in SavedStates, NEW errs \in ErrCounts, NEW count \in 0..2,
         repair_count \in 0..MaxCount, Restart(s, errs, count)
  PROVE  /\ RestartedFrom(s)
         /\ repair_count' \in 0..MaxCount
         /\ repair_count' = Capped(repair_count + count)
<1>1. /\ Restarted(s) \in Detector /\ DetOK(Restarted(s))
      /\ s.baseline > 0 => Restarted(s).baseline = s.baseline /\ Restarted(s).n > Warmup
      /\ ~(s.baseline > 0) => Restarted(s).n = 0
  BY RestartedFacts DEF SavedStates
<1>2. RestartedFrom(s)
  BY <1>1 DEF Restart, RestartedFrom, SeenLevels
<1>3. repair_count' = Capped(repair_count + count)
  BY DEF Restart
<1>4. Capped(repair_count + count) \in 0..MaxCount
  BY ConstantFacts DEF Capped, Lesser
<1>. QED  BY <1>2, <1>3, <1>4

Untouched == UNCHANGED <<det, queries, seg_errs, repair_count, seen, age>>

(* Every kind of repair restarts an index with keys, counts at least one   *)
(* repair, and leaves an index without keys as it was.                     *)
LEMMA RepairFacts ==
  ASSUME NEW s \in SavedStates, NEW errs \in ErrCounts,
         repair_count \in 0..MaxCount, repairs \in 0..MaxCount, repairs <= repair_count,
         LdzPartialRepair(s, errs) \/ RebuildRouting(s, 1)
  PROVE  \/ /\ loaded /\ RestartedFrom(s)
            /\ repair_count' \in 0..MaxCount
            /\ Capped(repairs + 1) \in 0..MaxCount /\ Capped(repairs + 1) <= repair_count'
            /\ repairs <= repair_count'
         \/ ~loaded /\ Untouched
<1>1. NoErrs \in ErrCounts
  BY ConstantFacts DEF NoErrs, ErrCounts
<1>2. [l \in Leaves |-> IF errs[l] >= LdzThreshold THEN 0 ELSE errs[l] \div 2] \in ErrCounts
  <2>1. ASSUME NEW l \in Leaves PROVE errs[l] \div 2 \in 0..MaxErrs /\ 0 \in 0..MaxErrs
    <3>1. errs[l] \in 0..MaxErrs
      BY DEF ErrCounts
    <3>. QED  BY <3>1, ConstantFacts
  <2>. QED  BY <2>1 DEF ErrCounts
<1>3. CASE ~loaded
  BY <1>3 DEF LdzPartialRepair, RebuildRouting, Untouched
<1>4. CASE loaded
  <2>1. PICK e \in ErrCounts, c \in {1, 2} : Restart(s, e, c)
    <3>1. CASE RebuildRouting(s, 1)
      BY <1>1, <1>4, <3>1 DEF RebuildRouting
    <3>2. CASE LdzPartialRepair(s, errs)
      <4>. DEFINE worn == {l \in Leaves : errs[l] >= LdzThreshold}
                  kept == [l \in Leaves |-> IF l \in worn THEN 0 ELSE errs[l] \div 2]
      <4>1. kept \in ErrCounts
        BY <1>2
      <4>2. Restart(s, kept, 1) \/ RebuildRouting(s, 2)
        BY <1>4, <3>2 DEF LdzPartialRepair
      <4>3. Restart(s, kept, 1) \/ Restart(s, NoErrs, 2)
        BY <1>4, <4>2 DEF RebuildRouting
      <4>. HIDE DEF kept
      <4>. QED  BY <1>1, <4>1, <4>3
    <3>. QED  BY <3>1, <3>2
  <2>2. c \in 0..2
    OBVIOUS
  <2>3. /\ RestartedFrom(s) /\ repair_count' \in 0..MaxCount
        /\ repair_count' = Capped(repair_count + c)
    BY <2>1, <2>2, RestartFacts
  <2>4. /\ Capped(repairs + 1) \in 0..MaxCount
        /\ Capped(repairs + 1) <= Capped(repair_count + c)
        /\ repairs <= Capped(repair_count + c)
    BY ConstantFacts DEF Capped, Lesser
  <2>. QED  BY <1>4, <2>3, <2>4
<1>. QED  BY <1>3, <1>4

-----------------------------------------------------------------------------
TriggerRecords ==
  [ph_fired : BOOLEAN, baseline : Levels \cup {None}, seen : SeenLevels, age : 0..Cooldown]

(* After a rebuild from the saved state, with the rest in order, everything *)
(* is in order.                                                            *)
LEMMA RestartKeepsInvariant ==
  ASSUME RestartedFrom(saved'),
         cfg' \in Configs, loaded' \in BOOLEAN, pending' \in BOOLEAN,
         saved' \in SavedStates, trigger' \in {NoAlarm} \cup TriggerRecords,
         repair_count' \in 0..MaxCount, repairs' \in 0..MaxCount, repairs' <= repair_count',
         SavedInv', RepairsAreSpaced'
  PROVE  DriftInv'
<1>1. TypeOK'
  BY ConstantFacts
  DEF RestartedFrom, TypeOK, SavedStates, ErrCounts, SeenLevels, TriggerRecords
<1>2. DetOK(det)' /\ AgeOK(queries, age)'
  BY ConstantFacts DEF RestartedFrom, DetOK, AgeOK
<1>3. NeverBlindAgain'
  BY DEF RestartedFrom, NeverBlindAgain, SavedInv
<1>4. EveryRepairCounted'
  BY DEF EveryRepairCounted
<1>5. UnsavedStartsOver'
  <2>. SUFFICES ASSUME saved'.baseline <= 0, age' < Cooldown
                PROVE  det'.n * SampleEvery <= age'
    BY DEF UnsavedStartsOver
  <2>1. saved'.baseline \in Int
    <3>1. saved'.baseline \in Levels \cup {None, 0}
      BY DEF SavedStates
    <3>. QED  BY <3>1, BaselineIsInt
  <2>2. det'.n = 0 /\ age' = 0
    BY <2>1 DEF RestartedFrom
  <2>. QED  BY <2>2, ConstantFacts
<1>. QED  BY <1>1, <1>2, <1>3, <1>4, <1>5 DEF DriftInv

(* A lookup that answers no alarm, and lookup_hint(), which never does.    *)
LEMMA QuietKeepsInvariant ==
  ASSUME DriftInv, NEW now, NowOK(now), Untested(now)
  PROVE  DriftInv'
<1>1. /\ det' = now.det /\ queries' = now.queries /\ seg_errs' = now.errs
      /\ seen' = now.seen /\ age' = now.age
      /\ UNCHANGED <<cfg, loaded, pending, saved, trigger, repair_count, repairs>>
  BY DEF Untested
<1>2. TypeOK'
  BY <1>1 DEF DriftInv, TypeOK, NowOK, SeenLevels
<1>3. DetOK(det)' /\ AgeOK(queries, age)'
  BY <1>1 DEF NowOK, DetOK, AgeOK
<1>4. NeverBlindAgain'
  BY <1>1 DEF DriftInv, NowOK, NeverBlindAgain
<1>5. SavedInv' /\ RepairsAreSpaced' /\ EveryRepairCounted'
  BY <1>1 DEF DriftInv, SavedInv, RepairsAreSpaced, EveryRepairCounted
<1>6. UnsavedStartsOver'
  BY <1>1 DEF DriftInv, NowOK, OwnSamples, UnsavedStartsOver
<1>. QED  BY <1>2, <1>3, <1>4, <1>5, <1>6 DEF DriftInv

(* An alarm that is answered: the cooldown is over, and the saved state is *)
(* the one that is restored.                                               *)
LEMMA AcknowledgeFacts ==
  ASSUME DriftInv, NEW now, NowOK(now), Acknowledge(now), UNCHANGED cfg
  PROVE  /\ saved' \in SavedStates /\ trigger' \in TriggerRecords
         /\ SavedInv' /\ RepairsAreSpaced'
<1>1. /\ AlarmDue(now) /\ saved' = SavedState(now)
      /\ trigger' = [ph_fired |-> now.det.ph_fired, baseline |-> now.det.baseline,
                     seen |-> now.seen, age |-> now.age]
  BY DEF Acknowledge
<1>2. /\ now.det.ewma \in Levels \cup {0} /\ now.det.baseline \in Levels \cup {None}
      /\ now.det.fired \in BOOLEAN /\ now.det.ph_fired \in BOOLEAN
  BY DEF NowOK, Detector
<1>3. saved' \in SavedStates
  BY <1>1, <1>2 DEF SavedState, SavedStates
<1>4. trigger' \in TriggerRecords
  BY <1>1, <1>2 DEF NowOK, TriggerRecords, DriftInv, TypeOK
<1>5. SavedInv'
  BY <1>1 DEF SavedInv, SavedState
<1>6. RepairsAreSpaced'
  <2>. SUFFICES ASSUME cfg'.use_rco PROVE trigger'.age >= Cooldown
    BY DEF RepairsAreSpaced
  <2>1. ~(now.queries < Cooldown)
    BY <1>1 DEF AlarmDue
  <2>2. now.age = Cooldown
    BY <2>1 DEF NowOK, AgeOK
  <2>3. trigger'.age = now.age
    BY <1>1
  <2>. QED  BY <2>2, <2>3, ConstantFacts
<1>. QED  BY <1>3, <1>4, <1>5, <1>6

LEMMA AnswerKeepsInvariant ==
  ASSUME DriftInv, NEW now, NowOK(now), AnswerAlarm(now), UNCHANGED <<cfg, loaded, pending>>
  PROVE  DriftInv'
<1>1. CASE StayQuiet(now)
  <2>1. Untested(now)
    BY <1>1 DEF StayQuiet, Untested
  <2>. QED  BY <2>1, QuietKeepsInvariant
<1>2. CASE OnlyAcknowledge(now)
  <2>1. /\ saved' \in SavedStates /\ trigger' \in TriggerRecords
        /\ SavedInv' /\ RepairsAreSpaced'
    BY <1>2, AcknowledgeFacts DEF OnlyAcknowledge
  <2>2. /\ det' = Cold /\ queries' = now.queries /\ seg_errs' = now.errs
        /\ seen' = None /\ age' = now.age
        /\ UNCHANGED <<repair_count, repairs>>
        /\ ~cfg'.perform_repair \/ ~loaded'
    BY <1>2 DEF OnlyAcknowledge
  <2>3. TypeOK'
    BY <2>1, <2>2, ColdFacts
    DEF DriftInv, TypeOK, NowOK, SavedStates, TriggerRecords, SeenLevels
  <2>4. DetOK(det)' /\ AgeOK(queries, age)'
    BY <2>2, ColdFacts DEF NowOK, DetOK, AgeOK
  <2>5. NeverBlindAgain' /\ EveryRepairCounted'
    BY <2>2 DEF DriftInv, NeverBlindAgain, EveryRepairCounted
  <2>6. UnsavedStartsOver'
    <3>1. det'.n = 0 /\ age' \in Nat
      BY <2>2, ConstantFacts DEF Cold, NowOK
    <3>. QED  BY <3>1, ConstantFacts DEF UnsavedStartsOver
  <2>. QED  BY <2>1, <2>3, <2>4, <2>5, <2>6 DEF DriftInv
<1>3. CASE Repair(now)
  <2>1. /\ saved' \in SavedStates /\ trigger' \in TriggerRecords
        /\ SavedInv' /\ RepairsAreSpaced'
    BY <1>3, AcknowledgeFacts DEF Repair
  <2>2. /\ loaded /\ repairs' = Capped(repairs + 1)
        /\ LdzPartialRepair(saved', now.errs) \/ RebuildRouting(saved', 1)
    BY <1>3 DEF Repair
  <2>3. /\ repair_count \in 0..MaxCount /\ repairs \in 0..MaxCount
        /\ repairs <= repair_count
    BY DEF DriftInv, TypeOK, EveryRepairCounted
  <2>4. now.errs \in ErrCounts
    BY DEF NowOK, ErrCounts
  <2>5. /\ RestartedFrom(saved') /\ repair_count' \in 0..MaxCount
        /\ Capped(repairs + 1) \in 0..MaxCount /\ Capped(repairs + 1) <= repair_count'
    BY <2>1, <2>2, <2>3, <2>4, RepairFacts
  <2>6. cfg' \in Configs /\ loaded' \in BOOLEAN /\ pending' \in BOOLEAN
    BY DEF DriftInv, TypeOK
  <2>. QED  BY <2>1, <2>2, <2>5, <2>6, RestartKeepsInvariant
<1>. QED  BY <1>1, <1>2, <1>3 DEF AnswerAlarm

(* A rebuild from the state saved earlier.                                 *)
LEMMA RepairKeepsInvariant ==
  ASSUME DriftInv, NEW errs \in ErrCounts,
         LdzPartialRepair(saved, errs) \/ RebuildRouting(saved, 1),
         pending' \in BOOLEAN, UNCHANGED <<cfg, loaded, saved, trigger>>,
         repairs' \in {repairs, Capped(repairs + 1)}, ~loaded => repairs' = repairs
  PROVE  DriftInv'
<1>1. /\ repair_count \in 0..MaxCount /\ repairs \in 0..MaxCount /\ repairs <= repair_count
      /\ saved \in SavedStates /\ trigger \in {NoAlarm} \cup TriggerRecords
  BY DEF DriftInv, TypeOK, EveryRepairCounted, SavedStates, TriggerRecords, SeenLevels
<1>2. CASE loaded
  <2>1. /\ RestartedFrom(saved) /\ repair_count' \in 0..MaxCount
        /\ Capped(repairs + 1) \in 0..MaxCount /\ Capped(repairs + 1) <= repair_count'
        /\ repairs <= repair_count'
    BY <1>1, <1>2, RepairFacts
  <2>2. RestartedFrom(saved')
    BY <2>1 DEF RestartedFrom
  <2>3. cfg' \in Configs /\ loaded' \in BOOLEAN
    BY DEF DriftInv, TypeOK
  <2>4. saved' \in SavedStates /\ trigger' \in {NoAlarm} \cup TriggerRecords
    BY <1>1
  <2>5. SavedInv' /\ RepairsAreSpaced'
    BY DEF DriftInv, SavedInv, RepairsAreSpaced
  <2>6. repairs' \in 0..MaxCount /\ repairs' <= repair_count'
    BY <1>1, <2>1
  <2>. QED  BY <2>1, <2>2, <2>3, <2>4, <2>5, <2>6, RestartKeepsInvariant
<1>3. CASE ~loaded
  <2>1. Untouched /\ repairs' = repairs
    BY <1>1, <1>3, RepairFacts
  <2>. QED  BY <1>3, <2>1 DEF Untouched, DriftInv, TypeOK, DetOK, AgeOK, SavedInv,
                              NeverBlindAgain, UnsavedStartsOver, RepairsAreSpaced, EveryRepairCounted
<1>. QED  BY <1>2, <1>3

-----------------------------------------------------------------------------
LEMMA InitInvariant == Init => DriftInv
<1>. SUFFICES ASSUME Init PROVE DriftInv
  OBVIOUS
<1>1. TypeOK
  <2>1. cfg \in Configs /\ loaded \in BOOLEAN /\ pending \in BOOLEAN
    BY DEF Init
  <2>4. det \in Detector
    BY ColdFacts DEF Init
  <2>5. seg_errs \in [Leaves -> 0..MaxErrs]
    BY ConstantFacts DEF Init, NoErrs
  <2>6. saved \in [ewma : Levels \cup {0}, baseline : Levels \cup {None, 0}]
    BY DEF Init
  <2>2. /\ queries \in 0..Cooldown+SampleEvery-1 /\ age \in 0..Cooldown
        /\ repair_count \in 0..MaxCount /\ repairs \in 0..MaxCount
    BY ConstantFacts DEF Init
  <2>3. seen \in Levels \cup {None} /\ trigger = NoAlarm
    BY DEF Init
  <2>. QED  BY <2>1, <2>2, <2>3, <2>4, <2>5, <2>6 DEF TypeOK
<1>2. DetOK(det) /\ AgeOK(queries, age)
  BY ConstantFacts, ColdFacts DEF Init, AgeOK
<1>3. SavedInv /\ NeverBlindAgain /\ RepairsAreSpaced /\ EveryRepairCounted
  BY DEF Init, SavedInv, NeverBlindAgain, RepairsAreSpaced, EveryRepairCounted
<1>4. UnsavedStartsOver
  BY ConstantFacts DEF Init, Cold, UnsavedStartsOver
<1>. QED  BY <1>1, <1>2, <1>3, <1>4 DEF DriftInv

LEMMA BuildKeepsInvariant == ASSUME DriftInv, Build PROVE DriftInv'
<1>1. /\ repair_count \in 0..MaxCount /\ repairs \in 0..MaxCount /\ repairs <= repair_count
      /\ saved \in SavedStates /\ trigger \in {NoAlarm} \cup TriggerRecords
  BY DEF DriftInv, TypeOK, EveryRepairCounted, SavedStates, TriggerRecords, SeenLevels
<1>2. CASE loaded' /\ Restart(saved, NoErrs, 0)
  <2>1. NoErrs \in ErrCounts
    BY ConstantFacts DEF NoErrs, ErrCounts
  <2>2. /\ RestartedFrom(saved) /\ repair_count' \in 0..MaxCount
        /\ repair_count' = Capped(repair_count + 0)
    BY <1>1, <1>2, <2>1, RestartFacts
  <2>3. RestartedFrom(saved')
    BY <2>2 DEF RestartedFrom, Build
  <2>4. Capped(repair_count + 0) = repair_count
    BY <1>1, ConstantFacts DEF Capped, Lesser
  <2>5. /\ cfg' \in Configs /\ loaded' \in BOOLEAN /\ pending' \in BOOLEAN
        /\ saved' \in SavedStates /\ trigger' \in {NoAlarm} \cup TriggerRecords
        /\ repairs' \in 0..MaxCount /\ repairs' <= repair_count'
    BY <1>1, <2>2, <2>4 DEF Build, DriftInv, TypeOK
  <2>6. SavedInv' /\ RepairsAreSpaced'
    BY DEF Build, DriftInv, SavedInv, RepairsAreSpaced
  <2>. QED  BY <2>2, <2>3, <2>5, <2>6, RestartKeepsInvariant
<1>3. CASE ~loaded' /\ UNCHANGED <<det, queries, seg_errs, repair_count, seen, age>>
  BY <1>3 DEF Build, DriftInv, TypeOK, DetOK, AgeOK, SavedInv, NeverBlindAgain,
              UnsavedStartsOver, RepairsAreSpaced, EveryRepairCounted
<1>. QED  BY <1>2, <1>3 DEF Build

LEMMA StepInvariant == DriftInv /\ [Next]_vars => DriftInv'
<1>. SUFFICES ASSUME DriftInv, [Next]_vars PROVE DriftInv'
  OBVIOUS
<1>. TypeOK /\ DetOK(det) /\ AgeOK(queries, age)
  BY DEF DriftInv
<1>1. CASE Hit
  <2>1. PICK l \in Leaves, v \in Levels, high \in BOOLEAN : LookupHit(l, v, high)
    BY <1>1 DEF Hit
  <2>2. PICK now \in AfterHit(l, v, high) : AnswerAlarm(now)
    BY <2>1 DEF LookupHit
  <2>3. UNCHANGED <<cfg, loaded, pending>>
    BY <2>1 DEF LookupHit
  <2>4. NowOK(now)
    BY HitFacts
  <2>. QED  BY <2>2, <2>3, <2>4, AnswerKeepsInvariant
<1>2. CASE LookupMiss
  <2>1. PICK now \in AfterMiss : AnswerAlarm(now)
    BY <1>2 DEF LookupMiss
  <2>2. UNCHANGED <<cfg, loaded, pending>>
    BY <1>2 DEF LookupMiss
  <2>3. NowOK(now)
    BY MissFacts
  <2>. QED  BY <2>1, <2>2, <2>3, AnswerKeepsInvariant
<1>3. CASE Hinted
  <2>1. PICK l \in Leaves, v \in Levels, high \in BOOLEAN : HintHit(l, v, high)
    BY <1>3 DEF Hinted
  <2>2. PICK now \in AfterHit(l, v, high) : Untested(now)
    BY <2>1 DEF HintHit
  <2>3. NowOK(now)
    BY HitFacts
  <2>. QED  BY <2>2, <2>3, QuietKeepsInvariant
<1>4. CASE HintMiss
  <2>1. PICK now \in AfterMiss : Untested(now)
    BY <1>4 DEF HintMiss
  <2>2. NowOK(now)
    BY MissFacts
  <2>. QED  BY <2>1, <2>2, QuietKeepsInvariant
<1>5. CASE Build
  BY <1>5, BuildKeepsInvariant
<1>6. CASE InsertBuffered
  BY <1>6 DEF InsertBuffered, DriftInv, TypeOK, DetOK, AgeOK, SavedInv,
              NeverBlindAgain, UnsavedStartsOver, RepairsAreSpaced, EveryRepairCounted
<1>. seg_errs \in ErrCounts
  BY DEF TypeOK, ErrCounts
<1>7. CASE InsertFlush
  <2>1. /\ RebuildRouting(saved, 1) /\ pending' \in BOOLEAN /\ repairs' = repairs
        /\ UNCHANGED <<cfg, loaded, saved, trigger>>
    BY <1>7 DEF InsertFlush
  <2>. QED  BY <2>1, RepairKeepsInvariant
<1>8. CASE ForceRepair
  <2>1. /\ LdzPartialRepair(saved, seg_errs) /\ pending' = pending
        /\ repairs' \in {repairs, Capped(repairs + 1)} /\ (~loaded => repairs' = repairs)
        /\ UNCHANGED <<cfg, loaded, saved, trigger>>
    BY <1>8 DEF ForceRepair
  <2>2. pending' \in BOOLEAN
    BY <2>1 DEF TypeOK
  <2>. QED  BY <2>1, <2>2, RepairKeepsInvariant
<1>9. CASE ForceRebuild
  <2>1. /\ RebuildRouting(saved, 1) /\ pending' = pending
        /\ repairs' \in {repairs, Capped(repairs + 1)} /\ (~loaded => repairs' = repairs)
        /\ UNCHANGED <<cfg, loaded, saved, trigger>>
    BY <1>9 DEF ForceRebuild
  <2>2. pending' \in BOOLEAN
    BY <2>1 DEF TypeOK
  <2>. QED  BY <2>1, <2>2, RepairKeepsInvariant
<1>10. CASE UNCHANGED vars
  BY <1>10 DEF vars, DriftInv, TypeOK, DetOK, AgeOK, SavedInv,
               NeverBlindAgain, UnsavedStartsOver, RepairsAreSpaced, EveryRepairCounted
<1>. QED  BY <1>1, <1>2, <1>3, <1>4, <1>5, <1>6, <1>7, <1>8, <1>9, <1>10 DEF Next

-----------------------------------------------------------------------------
(* The invariant holds throughout, for every value of the constants.       *)
THEOREM InductiveInvariant == Spec => []DriftInv
BY InitInvariant, StepInvariant, PTL DEF Spec

(* The state keeps its type; the counters of queries, segments' errors and *)
(* repairs stay within their bounds.                                       *)
THEOREM TypeCorrect == Spec => []TypeOK
BY InductiveInvariant, PTL DEF DriftInv

LEMMA InvariantGuards == DriftInv => FiresOnBaselineOnly
BY DEF DriftInv, DetOK, FiresOnBaselineOnly

(* The EWMA of the index never compares with a baseline it does not have.  *)
THEOREM EwmaFiresOnBaseline == Spec => []FiresOnBaselineOnly
BY InductiveInvariant, InvariantGuards, PTL

LEMMA InvariantParts ==
  DriftInv => /\ NeverBlindAgain /\ UnsavedStartsOver
              /\ RepairsAreSpaced /\ EveryRepairCounted
BY DEF DriftInv

(* WSEWMA: an alarm's baseline survives every later rebuild.               *)
THEOREM BaselineSurvives == Spec => []NeverBlindAgain
BY InductiveInvariant, InvariantParts, PTL

(* Without a saved baseline every rebuild costs the EWMA what it knew.     *)
THEOREM RebuildsStartOver == Spec => []UnsavedStartsOver
BY InductiveInvariant, InvariantParts, PTL

(* RCO: no two repairs of the same segments within a cooldown.             *)
THEOREM CooldownRespected == Spec => []RepairsAreSpaced
BY InductiveInvariant, InvariantParts, PTL

(* n_repairs() misses no repair.                                           *)
THEOREM RepairsCounted == Spec => []EveryRepairCounted
BY InductiveInvariant, InvariantParts, PTL

(* The EWMA compares with a baseline it has; one an alarm was answered     *)
(* with outlives every rebuild; without a saved one every rebuild begins   *)
(* a new warm-up.                                                          *)
THEOREM BaselineIsSound == Spec => []BaselineSound
BY EwmaFiresOnBaseline, BaselineSurvives, RebuildsStartOver, PTL DEF BaselineSound

(* Repairs keep the cooldown and are counted.                              *)
THEOREM RepairsAreAccounted == Spec => []RepairsAccounted
BY CooldownRespected, RepairsCounted, PTL DEF RepairsAccounted
=============================================================================
