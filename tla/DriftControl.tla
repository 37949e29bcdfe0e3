---------------------------- MODULE DriftControl ----------------------------
(***************************************************************************)
(* How the index decides to repair itself.  Lookups that reach the model   *)
(* feed their prediction errors to two detectors, EWMA and Page-Hinkley;   *)
(* lookup() answers an alarm, once the cooldown is over, by saving the     *)
(* state of the EWMA, clearing both detectors and rebuilding the segments  *)
(* that erred most, or all of them; every rebuild, also the one of a flush *)
(* or of build(), restarts the detectors from what was saved last.         *)
(*                                                                         *)
(* Errors are kept as levels, numbers of a small set that tell apart what  *)
(* the detectors do: a zero error, a low one, one more than Threshold      *)
(* times as high.  The weighted mean of two levels is any level between    *)
(* them, and zero only if both are; the Page-Hinkley sum may exceed its    *)
(* bound whenever an error is above an earlier one.                        *)
(***************************************************************************)
EXTENDS Integers

CONSTANTS Leaves,        \* the leaf segments
          Levels,        \* the prediction errors told apart
          MissSignal,    \* the level a tracked miss counts as (30)
          Threshold,     \* ewma_threshold (3)
          Warmup,        \* samples until the EWMA has a baseline (500)
          SampleEvery,   \* tracked queries per sample (16)
          Cooldown,      \* REPAIR_COOLDOWN (2000)
          LdzThreshold,  \* seg_errs from which a segment is rebuilt (5)
          MaxErrs,       \* where seg_errs saturates (65535)
          MaxCount,      \* bound: where the counters of repairs stop
          Configs,       \* the configurations of the index, see below
          NoAlarm        \* trigger before the first alarm was answered

None == -1

ASSUME LevelsAssumption == Levels \subseteq Nat /\ MissSignal \in Levels
ASSUME ThresholdAssumption == Threshold \in Nat \ {0} /\ Warmup \in Nat \ {0}
ASSUME SamplingAssumption ==
  /\ SampleEvery \in Nat \ {0} /\ Cooldown \in Nat \ {0}
  /\ Cooldown % SampleEvery = 0
ASSUME ErrsAssumption ==
  LdzThreshold \in Nat \ {0} /\ MaxErrs \in Nat /\ MaxCount \in Nat
ASSUME ConfigsAssumption ==
  Configs \subseteq [drift_detection : BOOLEAN, use_rco : BOOLEAN,
                     perform_repair : BOOLEAN, selective_repair : BOOLEAN,
                     track_misses : BOOLEAN]

VARIABLES cfg,           \* cfg_
          loaded,        \* keys_ is not empty
          pending,       \* hot_buf_ or buf_ is not empty
          det,           \* ewma_ and ph_
          saved,         \* saved_ewma_, saved_baseline_
          queries,       \* queries_since_repair_
          seg_errs,      \* leaves_[].seg_errs
          repair_count,  \* repair_count_
          trigger,       \* what was true when the last alarm was answered
          seen,          \* the highest sample since the detectors restarted
          age,           \* tracked queries since the last rebuild
          repairs        \* repairs made for an alarm or by force_repair()

vars == <<cfg, loaded, pending, det, saved, queries, seg_errs, repair_count,
          trigger, seen, age, repairs>>

Lesser(a, b) == IF a <= b THEN a ELSE b
Greater(a, b) == IF a >= b THEN a ELSE b
Capped(count) == Lesser(count, MaxCount)

NoErrs == [l \in Leaves |-> 0]

(* reset() of both detectors.  ph_low is the lowest error since then.      *)
Cold == [ewma |-> 0, n |-> 0, baseline |-> None, fired |-> FALSE,
         ph_low |-> None, ph_fired |-> FALSE]

(* ph_.reset() and ewma_.warm_start(), where n is 501.                     *)
Warm(s) == [ewma |-> s.ewma, n |-> Warmup + 1, baseline |-> s.baseline, fired |-> FALSE,
            ph_low |-> None, ph_fired |-> FALSE]

Restarted(s) == IF s.baseline > 0 THEN Warm(s) ELSE Cold

Init ==
  /\ cfg \in Configs
  /\ loaded = FALSE /\ pending = FALSE
  /\ det = Cold
  /\ saved = [ewma |-> 0, baseline |-> 0]
  /\ queries = 0 /\ seg_errs = NoErrs /\ repair_count = 0
  /\ trigger = NoAlarm /\ seen = None /\ age = 0 /\ repairs = 0

-----------------------------------------------------------------------------
(* EWMADetector::update() and PageHinkley::update().                       *)
Means(v) ==
  IF det.n = 0 THEN {v}
  ELSE {e \in Levels : /\ Lesser(det.ewma, v) <= e /\ e <= Greater(det.ewma, v)
                       /\ e = 0 => Greater(det.ewma, v) = 0}

BaselineAfter(e) == IF det.n + 1 = Warmup THEN e ELSE det.baseline

(* The sum cannot grow on the first error, nor on one that is the lowest.  *)
PhAlarms(v) ==
  IF det.ph_low # None /\ v > det.ph_low THEN {det.ph_fired, TRUE} ELSE {det.ph_fired}

Updated(v) ==
  {[ewma |-> e, n |-> Lesser(det.n + 1, Warmup + 1), baseline |-> BaselineAfter(e),
    fired |-> det.fired \/ (BaselineAfter(e) > 0 /\ e > Threshold * BaselineAfter(e)),
    ph_low |-> IF det.ph_low = None THEN v ELSE Lesser(det.ph_low, v),
    ph_fired |-> p] : e \in Means(v), p \in PhAlarms(v)}

(* Slip: the counter is too narrow for the cooldown and wraps.             *)
TickWraps == (queries + 1) % Cooldown

(* ++queries_since_repair_.  Past the cooldown only its remainder matters. *)
Tick == IF queries + 1 = Cooldown + SampleEvery THEN Cooldown ELSE queries + 1

(* track_hit() and the tracked miss: count the query, and every            *)
(* SampleEvery queries show its error to the detectors.                    *)
SampleDue == Tick % SampleEvery = 0
Sampling(v) == IF SampleDue THEN Updated(v) ELSE {det}
SeenNow(v) == IF SampleDue THEN Greater(seen, v) ELSE seen

(* Slip: the error count of a segment is not saturated.                    *)
AfterHitUnsaturated(l, v, high) ==
  {[det |-> d, queries |-> Tick, seen |-> SeenNow(v), age |-> Lesser(age + 1, Cooldown),
    errs |-> IF high THEN [seg_errs EXCEPT ![l] = @ + 1] ELSE seg_errs] :
     d \in Sampling(v)}

(* The state in which a lookup ends its search of the model: detectors,    *)
(* counter and error counts, with the highest sample and the age.          *)
AfterHit(l, v, high) ==
  {[det |-> d, queries |-> Tick, seen |-> SeenNow(v), age |-> Lesser(age + 1, Cooldown),
    errs |-> IF high THEN [seg_errs EXCEPT ![l] = Lesser(@ + 1, MaxErrs)] ELSE seg_errs] :
     d \in Sampling(v)}

AfterMiss ==
  IF loaded /\ cfg.track_misses
    THEN {[det |-> d, queries |-> Tick, seen |-> SeenNow(MissSignal),
           age |-> Lesser(age + 1, Cooldown), errs |-> seg_errs] : d \in Sampling(MissSignal)}
    ELSE {[det |-> det, queries |-> queries, seen |-> seen, age |-> age, errs |-> seg_errs]}

-----------------------------------------------------------------------------
(* The end of every rebuild: the detectors restart from the saved state    *)
(* and the cooldown begins.                                                *)
Restart(s, errs, count) ==
  /\ det' = Restarted(s)
  /\ queries' = 0
  /\ seg_errs' = errs
  /\ repair_count' = Capped(repair_count + count)
  /\ seen' = None /\ age' = 0

(* rebuild_routing() of an index with keys, and without: nothing.          *)
RebuildRouting(s, count) ==
  \/ loaded /\ Restart(s, NoErrs, count)
  \/ ~loaded /\ UNCHANGED <<det, queries, seg_errs, repair_count, seen, age>>

(* Slip: a partial repair does not begin a cooldown.                       *)
LdzNoCooldown(s, errs) ==
  LET worn == {l \in Leaves : errs[l] >= LdzThreshold} IN
  \/ /\ loaded /\ worn # {}
     /\ det' = Restarted(s)
     /\ queries' = queries
     /\ seg_errs' = [l \in Leaves |-> IF l \in worn THEN 0 ELSE errs[l] \div 2]
     /\ repair_count' = Capped(repair_count + 1)
     /\ seen' = None /\ age' = 0
  \/ /\ loaded /\ worn = {}
     /\ RebuildRouting(s, 2)
  \/ ~loaded /\ RebuildRouting(s, 1)

(* ldz_partial_repair(): segments with many errors are rebuilt and start   *)
(* without any, the others keep half; without such a segment everything is *)
(* rebuilt, and counted twice.                                             *)
LdzPartialRepair(s, errs) ==
  LET worn == {l \in Leaves : errs[l] >= LdzThreshold} IN
  \/ /\ loaded /\ worn # {}
     /\ Restart(s, [l \in Leaves |-> IF l \in worn THEN 0 ELSE errs[l] \div 2], 1)
  \/ /\ loaded /\ worn = {}
     /\ RebuildRouting(s, 2)
  \/ ~loaded /\ RebuildRouting(s, 1)

-----------------------------------------------------------------------------
(* The alarm is due: one detector has fired and no cooldown runs.          *)
AlarmDue(now) ==
  /\ cfg.drift_detection
  /\ now.det.fired \/ now.det.ph_fired
  /\ ~(cfg.use_rco /\ now.queries < Cooldown)

(* Slip: the state of the EWMA is saved after it was acknowledged.         *)
SaveAfterAcknowledge(now) == [ewma |-> Cold.ewma, baseline |-> Cold.baseline]

(* ewma_.save_state().                                                     *)
SavedState(now) == [ewma |-> now.det.ewma, baseline |-> now.det.baseline]

(* lookup(), after the model was searched: no alarm is due ...             *)
StayQuiet(now) ==
  /\ ~AlarmDue(now)
  /\ det' = now.det /\ queries' = now.queries /\ seg_errs' = now.errs
  /\ seen' = now.seen /\ age' = now.age
  /\ UNCHANGED <<saved, trigger, repair_count, repairs>>

(* ... or the detectors' state is saved and they are acknowledged ...      *)
Acknowledge(now) ==
  /\ AlarmDue(now)
  /\ saved' = SavedState(now)
  /\ trigger' = [ph_fired |-> now.det.ph_fired, baseline |-> now.det.baseline,
                 seen |-> now.seen, age |-> now.age]

(* ... and nothing more, if repairs are off or there is nothing to repair; *)
OnlyAcknowledge(now) ==
  /\ Acknowledge(now)
  /\ ~cfg.perform_repair \/ ~loaded
  /\ det' = Cold /\ queries' = now.queries /\ seg_errs' = now.errs
  /\ seen' = None /\ age' = now.age
  /\ UNCHANGED <<repair_count, repairs>>

(* otherwise the index is repaired.                                        *)
Repair(now) ==
  /\ Acknowledge(now)
  /\ cfg.perform_repair /\ loaded
  /\ \/ cfg.selective_repair /\ LdzPartialRepair(saved', now.errs)
     \/ ~cfg.selective_repair /\ RebuildRouting(saved', 1)
  /\ repairs' = Capped(repairs + 1)

AnswerAlarm(now) == StayQuiet(now) \/ OnlyAcknowledge(now) \/ Repair(now)

(* lookup() of a stored key: its error has level v, and it counts against  *)
(* the segment if it is high for the segment's window.  An error of zero   *)
(* is high for no window.                                                  *)
LookupHit(l, v, high) ==
  /\ loaded
  /\ high => v > 0
  /\ \E now \in AfterHit(l, v, high) : AnswerAlarm(now)
  /\ UNCHANGED <<cfg, loaded, pending>>

(* lookup() of a key that is not stored.  A key found in a buffer changes  *)
(* nothing: its lookup returns before the model and the alarm.             *)
LookupMiss ==
  /\ \E now \in AfterMiss : AnswerAlarm(now)
  /\ UNCHANGED <<cfg, loaded, pending>>

Untested(now) ==
  /\ det' = now.det /\ queries' = now.queries /\ seg_errs' = now.errs
  /\ seen' = now.seen /\ age' = now.age
  /\ UNCHANGED <<cfg, loaded, pending, saved, trigger, repair_count, repairs>>

(* lookup_hint(): the same bookkeeping, but no alarm is looked at.         *)
HintHit(l, v, high) ==
  /\ loaded
  /\ high => v > 0
  /\ \E now \in AfterHit(l, v, high) : Untested(now)

HintMiss == \E now \in AfterMiss : Untested(now)

(* build(), of some keys or of none.                                       *)
Build ==
  /\ loaded' \in BOOLEAN
  /\ \/ loaded' /\ Restart(saved, NoErrs, 0)
     \/ ~loaded' /\ UNCHANGED <<det, queries, seg_errs, repair_count, seen, age>>
  /\ UNCHANGED <<cfg, pending, saved, trigger, repairs>>

(* insert(): the entry is buffered, or flush_buffer() moves all buffered   *)
(* entries into the keys and rebuilds.                                     *)
InsertBuffered ==
  /\ pending' = TRUE
  /\ UNCHANGED <<cfg, loaded, det, saved, queries, seg_errs, repair_count,
                 trigger, seen, age, repairs>>

InsertFlush ==
  /\ loaded /\ pending
  /\ pending' = FALSE
  /\ RebuildRouting(saved, 1)
  /\ UNCHANGED <<cfg, loaded, saved, trigger, repairs>>

(* force_repair() and force_rebuild(), called from outside.                *)
ForceRepair ==
  /\ LdzPartialRepair(saved, seg_errs)
  /\ repairs' = IF loaded THEN Capped(repairs + 1) ELSE repairs
  /\ UNCHANGED <<cfg, loaded, pending, saved, trigger>>

ForceRebuild ==
  /\ RebuildRouting(saved, 1)
  /\ repairs' = IF loaded THEN Capped(repairs + 1) ELSE repairs
  /\ UNCHANGED <<cfg, loaded, pending, saved, trigger>>

Hit == \E l \in Leaves, v \in Levels, high \in BOOLEAN : LookupHit(l, v, high)
Hinted == \E l \in Leaves, v \in Levels, high \in BOOLEAN : HintHit(l, v, high)

Next ==
  \/ Hit \/ LookupMiss \/ Hinted \/ HintMiss
  \/ Build \/ InsertBuffered \/ InsertFlush \/ ForceRepair \/ ForceRebuild

Spec == Init /\ [][Next]_vars

(* Callers keep looking up stored keys.                                    *)
FairSpec == Spec /\ WF_vars(Hit)

-----------------------------------------------------------------------------
Detector ==
  [ewma : Levels \cup {0}, n : 0..Warmup+1, baseline : Levels \cup {None},
   fired : BOOLEAN, ph_low : Levels \cup {None}, ph_fired : BOOLEAN]

TypeOK ==
  /\ cfg \in Configs /\ loaded \in BOOLEAN /\ pending \in BOOLEAN
  /\ det \in Detector
  /\ saved \in [ewma : Levels \cup {0}, baseline : Levels \cup {None, 0}]
  /\ queries \in 0..Cooldown+SampleEvery-1
  /\ seg_errs \in [Leaves -> 0..MaxErrs]
  /\ repair_count \in 0..MaxCount /\ repairs \in 0..MaxCount
  /\ trigger \in {NoAlarm} \cup
       [ph_fired : BOOLEAN, baseline : Levels \cup {None},
        seen : Levels \cup {None}, age : 0..Cooldown]
  /\ seen \in Levels \cup {None} /\ age \in 0..Cooldown

(* The EWMA compares only with a baseline it has: it has one exactly after *)
(* the warm-up, and it has not fired without one.                          *)
FiresOnBaselineOnly ==
  /\ det.n >= Warmup <=> det.baseline # None
  /\ det.fired => det.baseline > 0

(* WSEWMA: once an alarm has been answered with a baseline, no repair,     *)
(* rebuild, flush or build leaves the detector without it again ("skipping *)
(* the 500-query re-warmup period that left detection blind post-repair"). *)
(* It also stays the same for good: no rebuild measures it again.          *)
NeverBlindAgain ==
  trigger # NoAlarm /\ cfg.perform_repair /\ loaded /\ trigger.baseline > 0
    => det.baseline = trigger.baseline /\ det.n > Warmup

(* As long as no baseline has been saved there is none to restore: every   *)
(* rebuild of the segments - a flush, force_repair(), build() - sends the  *)
(* EWMA into a warm-up of its own, and what it counts until the next       *)
(* cooldown has passed are samples of the segments that serve now.  The    *)
(* header (:75-77) has it that no repair leaves detection blind: that is   *)
(* RepairKeepsBaseline, and TLC refutes it (MCDriftBlind.cfg).             *)
UnsavedStartsOver ==
  saved.baseline <= 0 /\ age < Cooldown => det.n * SampleEvery <= age

(* What the EWMA knows is worth its name: it compares with a baseline it   *)
(* has, an alarm's baseline outlives every rebuild, and before there is    *)
(* one, no rebuild lets samples of the old segments count for the new.     *)
BaselineSound == FiresOnBaselineOnly /\ NeverBlindAgain /\ UnsavedStartsOver

(* RCO: an alarm is answered only when the segments have served a full     *)
(* cooldown of tracked queries since they were last rebuilt, by whichever  *)
(* of the five ways.                                                       *)
RepairsAreSpaced ==
  trigger # NoAlarm /\ cfg.use_rco => trigger.age >= Cooldown

(* n_repairs(), by which the drift benchmark detects a repair, counts      *)
(* every repair.                                                           *)
EveryRepairCounted == repairs <= repair_count

(* No alarm is answered too early, and no repair goes uncounted.           *)
RepairsAccounted == RepairsAreSpaced /\ EveryRepairCounted

(* drift_triggered().                                                      *)
Alarm == det.fired \/ det.ph_fired

(* A latched alarm does not stay latched: as long as stored keys are       *)
(* looked up, the cooldown ends and the alarm is answered, unless a        *)
(* rebuild has cleared it before.                                          *)
AlarmAnswered ==
  (Alarm /\ loaded /\ cfg.drift_detection) ~> (~Alarm \/ ~loaded)

-----------------------------------------------------------------------------
(* README: a repair cooldown "prevents repair storms on gradual drift".    *)
(* A repair needs an error above the threshold since the last one.         *)
RepairAnswersNewDrift ==
  trigger # NoAlarm =>
    trigger.ph_fired \/ trigger.seen > Threshold * trigger.baseline

(* README: the EWMA fires when its mean "exceeds 3x stable baseline".      *)
EwmaFiresAboveBaseline ==
  det.baseline # None /\ seen # None /\ det.ewma > Threshold * det.baseline
    => det.fired

(* The comment at the counter: it counts self-repairs, and the initial     *)
(* build "is not a self-repair".                                           *)
RepairCountExact == repair_count = repairs

(* The header of nli_index.hpp, WSEWMA: "Before drift repair" the EWMA is  *)
(* saved, "after repair" it is restored, "skipping the 500-query re-warmup *)
(* period that left detection blind post-repair".                          *)
RepairKeepsBaseline ==
  [][repairs' > repairs /\ det.baseline > 0 => det'.baseline = det.baseline]_vars
=============================================================================
