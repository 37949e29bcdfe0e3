---------------------------- MODULE Segmentation ----------------------------
(***************************************************************************)
(* From a sorted array of keys to leaf segments: the shrinking cone of     *)
(* pgm_build(), the calibration BTSC makes over its result, the search for *)
(* an epsilon AFR makes around it, and the same cone over the first keys   *)
(* of the leaves, root_build(), with its calibration BREC.                 *)
(*                                                                         *)
(* Slopes are exact fractions.  A line is evaluated in doubles by the      *)
(* code, and cast to an int: where the exact value is an integer the       *)
(* double may fall just short of it, and the cast then yields the integer  *)
(* below.  `short' says whether it does, for all keys of an index alike.   *)
(* Keys are small enough for a double to hold them.                        *)
(***************************************************************************)
EXTENDS Integers, Sequences, FiniteSetsExt

Size(keys) == Cardinality(DOMAIN keys)

(* Fractions <<numerator, denominator>>; the denominator is positive, or   *)
(* zero in the upper bound of a cone nothing has narrowed yet.             *)
AtMost(a, b) == a[1] * b[2] <= b[1] * a[2]
Lower(a, b) == IF AtMost(a, b) THEN a ELSE b
Upper(a, b) == IF AtMost(a, b) THEN b ELSE a
Midpoint(a, b) == <<a[1] * b[2] + b[1] * a[2], 2 * a[2] * b[2]>>
Unbounded == <<1, 0>>

(* Division and cast of C++: toward zero.                                  *)
Truncate(num, den) == IF num >= 0 THEN num \div den ELSE -((-num) \div den)

(* static_cast<int>(slope * k + intercept), the intercept being kept as    *)
(* the point <<k0, i0>> the line passes through.                           *)
Line(l, k, short) ==
  LET num == l.slope[1] * (k - l.k0) + l.i0 * l.slope[2]
  IN IF short /\ num > 0 /\ num % l.slope[2] = 0
       THEN num \div l.slope[2] - 1
       ELSE Truncate(num, l.slope[2])

Clamp(p, lo, hi) == IF p < lo THEN lo ELSE IF p > hi THEN hi ELSE p

(* LeafSeg::predict() and predict_biased().                                *)
Predict(l, k, short) == Clamp(Line(l, k, short), l.pos_lo, l.pos_hi - 1)
PredictBiased(l, k, short) ==
  Clamp(Line(l, k, short) + l.bias, l.pos_lo, l.pos_hi - 1)

-----------------------------------------------------------------------------
(* The segment that ends before position end.  The code divides by 1e-12   *)
(* when all keys of a segment are equal; the line then still passes        *)
(* through them, which is all that is kept of it.                          *)
Emit(keys, eps, cone, end) ==
  [slope |-> IF cone.sh = Unbounded THEN <<0, 1>>
               ELSE Midpoint(cone.sl, cone.sh),
   k0 |-> keys[cone.start], i0 |-> cone.start,
   pos_lo |-> cone.start, pos_hi |-> end,
   bias |-> 0, seg_eps |-> eps, seg_errs |-> 0]

WideOpen(start, segs) ==
  [start |-> start, sl |-> <<0, 1>>, sh |-> Unbounded, segs |-> segs]

(* Slip: the last key replaces the cone instead of narrowing it.           *)
NarrowForgets(keys, eps, cone, i) ==
  LET dx == keys[i] - keys[cone.start]
      lo == <<i - cone.start - eps, dx>>
      hi == <<i - cone.start + eps, dx>>
  IN IF dx = 0 THEN cone
     ELSE IF AtMost(Upper(cone.sl, lo), Lower(cone.sh, hi))
       THEN [cone EXCEPT !.sl = lo, !.sh = hi]
     ELSE WideOpen(i, Append(cone.segs, Emit(keys, eps, cone, i)))

(* Key i narrows the cone of slopes that pass within eps of every key      *)
(* since the segment's first, or closes the segment.                       *)
Narrow(keys, eps, cone, i) ==
  LET dx == keys[i] - keys[cone.start]
      lo == <<i - cone.start - eps, dx>>
      hi == <<i - cone.start + eps, dx>>
      sl == IF i = cone.start + 1 THEN lo ELSE Upper(cone.sl, lo)
      sh == IF i = cone.start + 1 THEN hi ELSE Lower(cone.sh, hi)
  IN IF dx = 0 THEN cone
     ELSE IF AtMost(sl, sh) THEN [cone EXCEPT !.sl = sl, !.sh = sh]
     ELSE WideOpen(i, Append(cone.segs, Emit(keys, eps, cone, i)))

(* The cone after each key, with the segments closed by then.              *)
Cones(keys, eps) ==
  LET cone[i \in 0..Size(keys)-1] ==
        IF i = 0 THEN WideOpen(0, <<>>) ELSE Narrow(keys, eps, cone[i-1], i)
  IN cone

pgm_build(keys, eps) ==
  LET last == Cones(keys, eps)[Size(keys)-1]
  IN Append(last.segs, Emit(keys, eps, last, Size(keys)))

-----------------------------------------------------------------------------
(* BTSC: the window of a leaf is its largest error and one, its bias the   *)
(* opposite of its mean error, measured by predict(), without the bias.    *)
Error(l, keys, i, short) == Predict(l, keys[i], short) - i

MaxAbsError(l, keys, short) ==
  LET errors == {Error(l, keys, i, short) : i \in l.pos_lo..l.pos_hi-1}
  IN Max(errors \cup {-e : e \in errors})

MeanError(l, keys, short) ==
  Truncate(MapThenSumSet(LAMBDA i : Error(l, keys, i, short),
                         l.pos_lo..l.pos_hi-1),
           l.pos_hi - l.pos_lo)

(* Slip: the window is the mean error and one.                             *)
CalibrateToMean(l, keys, short) ==
  [l EXCEPT !.bias = -MeanError(l, keys, short),
            !.seg_eps = Max({MeanError(l, keys, short),
                             -MeanError(l, keys, short)}) + 1]

Calibrate(l, keys, short) ==
  [l EXCEPT !.bias = -MeanError(l, keys, short),
            !.seg_eps = MaxAbsError(l, keys, short) + 1]

CalibrateAll(segs, keys, short) ==
  [s \in DOMAIN segs |-> Calibrate(segs[s], keys, short)]

(* AFR: halve the epsilon, not below two, until there are enough leaves.   *)
(* The sixth attempt, where the code gives up, is at two already when      *)
(* epsilon is at most 64.                                                  *)
TargetSegs(keys) ==
  LET root == CHOOSE r \in 0..Size(keys) :
                r * r <= Size(keys) /\ (r + 1) * (r + 1) > Size(keys)
  IN Max({4, root})

ChooseEps(keys, from) ==
  LET try[eps \in 1..from] ==
        IF eps <= 2 \/ Len(pgm_build(keys, eps)) >= TargetSegs(keys)
          THEN eps
          ELSE try[Max({2, eps \div 2})]
  IN try[from]

(* rebuild_routing() calibrates unless there is a single leaf.             *)
BuildLeaves(keys, eps, short) ==
  LET segs == pgm_build(keys, eps)
  IN IF Len(segs) > 1 THEN CalibrateAll(segs, keys, short) ELSE segs
=============================================================================
